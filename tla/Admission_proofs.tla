-------------------------- MODULE Admission_proofs ---------------------------
(***************************************************************************)
(* Proofs about Admission, the second half: what a call has shown, what it *)
(* was promised, and the theorems, for any calls, requests, keys and       *)
(* configurations.                                                         *)
(***************************************************************************)
EXTENDS AdmissionServer_proofs

(* CheckLeadingZeroBits, whole bytes and the bits of the last one, is the   *)
(* comparison of the number the bytes make with a power of two.             *)
LEMMA LeadingZeroBits ==
  ASSUME NEW hash \in (0 .. 255) \X (0 .. 255), NEW bits \in 0 .. 16
  PROVE  CheckLeadingZeroBits(hash, bits) <=> 256 * hash[1] + hash[2] < 2 ^ (16 - bits)
<1> USE DEF CheckLeadingZeroBits
<1>1. hash = <<hash[1], hash[2]>> /\ hash[1] \in 0 .. 255 /\ hash[2] \in 0 .. 255
  OBVIOUS
<1>2. PICK a \in 0 .. 255, b \in 0 .. 255 : Len(hash) = 2 /\ hash[1] = a /\ hash[2] = b
  BY <1>1, Zenon
<1>b0. CASE bits = 0
  BY <1>2, <1>b0
<1>b1. CASE bits = 1
  BY <1>2, <1>b1
<1>b2. CASE bits = 2
  BY <1>2, <1>b2
<1>b3. CASE bits = 3
  BY <1>2, <1>b3
<1>b4. CASE bits = 4
  BY <1>2, <1>b4
<1>b5. CASE bits = 5
  BY <1>2, <1>b5
<1>b6. CASE bits = 6
  BY <1>2, <1>b6
<1>b7. CASE bits = 7
  BY <1>2, <1>b7
<1>b8. CASE bits = 8
  BY <1>2, <1>b8
<1>b9. CASE bits = 9
  BY <1>2, <1>b9
<1>b10. CASE bits = 10
  BY <1>2, <1>b10
<1>b11. CASE bits = 11
  BY <1>2, <1>b11
<1>b12. CASE bits = 12
  BY <1>2, <1>b12
<1>b13. CASE bits = 13
  BY <1>2, <1>b13
<1>b14. CASE bits = 14
  BY <1>2, <1>b14
<1>b15. CASE bits = 15
  BY <1>2, <1>b15
<1>b16. CASE bits = 16
  BY <1>2, <1>b16
<1>l. CASE bits \in 0 .. 8
  BY <1>l, <1>b0, <1>b1, <1>b2, <1>b3, <1>b4, <1>b5, <1>b6, <1>b7, <1>b8
<1>h. CASE bits \in 9 .. 16
  BY <1>h, <1>b9, <1>b10, <1>b11, <1>b12, <1>b13, <1>b14, <1>b15, <1>b16
<1>i. bits \in 0 .. 8 \/ bits \in 9 .. 16
  OBVIOUS
<1> HIDE DEF CheckLeadingZeroBits
<1> QED
  BY <1>l, <1>h, <1>i, Zenon
------------------------------------------------------------------------------
(* Why verifyCert and verifyPow admit only who they should: the keys a call *)
(* has read are among those it has seen trusted, and past the checks the    *)
(* call has a hash below the bound or a valid certificate.                  *)
Certified(c) == LET call == calls[c] IN
  /\ call.pc \in InProgress => trusted \subseteq call.seen /\ call.since <= now
  /\ call.pc = "check" => ~NeedsPow(c) /\ call.keys \subseteq call.seen
  /\ call.pc \in {"register", "wait", "stored"} =>
       IF NeedsPow(c) THEN 256 * call.req.hash[1] + call.req.hash[2] < 2 ^ (16 - Difficulty)
       ELSE /\ call.req.cert.node = call.req.node
            /\ call.req.cert.signer \in call.seen \cup ConfiguredKeys
            /\ call.req.cert.expiration # None => call.req.cert.expiration >= call.since

CertInv == \A c \in Calls : Certified(c)

(* No step breaks it: a reload shows its keys to every call in progress. *)
LEMMA CertStep ==
  ASSUME ServerType, CallsType, CertInv, [Next]_vars
  PROVE  CertInv'
<1> USE DEF keyVars, powVars, roundVars, OnlyCalls
<1>p. \A c \in Calls : Certified(c)
  BY DEF CertInv
<1>t. /\ now \in Nat /\ now' \in Nat
      /\ \A c \in Calls : calls[c] \in CallStates
  BY ServerTypeStep, AdmissionConstants DEF ServerType, CallsType
<1>k. certifier' = certifier /\ ConfiguredKeys' = ConfiguredKeys
  BY Zenon DEF Next, StartReload, ReloadStep, ReadKeyFile, InstallKeys, ReloadFails, EditKeyDir,
     RotatePow, PowParams, CallStep, CheckPow, VerifyWithConfigured, CheckKeys, Register,
     AnswerSubmit, LookupKeys, CancelSubmit, Receive, OtherSubmit, Flush, closeRound,
     closeRoundFails, New, Crash,
     Tick, vars, ConfiguredKeys
<1>f. ASSUME NEW d \in Calls, calls'[d] = calls[d], trusted' = trusted \/ calls[d].pc \notin InProgress, now <= now'
      PROVE  Certified(d)'
  <2>1. calls[d].since \in Nat
    BY <1>t DEF CallStates
  <2> QED
    BY <1>f, <1>k, <1>p, <1>t, <2>1 DEF Certified, NeedsPow, InProgress
<1>q. ASSUME NEW d \in Calls, calls'[d].pc \in {"idle", "solved", "done"}
      PROVE  Certified(d)'
  BY <1>q DEF Certified, InProgress
<1>c. ASSUME NEW c \in Calls, UNCHANGED <<trusted, now>>, NEW call, calls' = [calls EXCEPT ![c] = call], Certified(c)'
      PROVE  CertInv'
  <2>1. ASSUME NEW d \in Calls PROVE Certified(d)'
    <3>1. CASE d = c
      BY <1>c, <3>1
    <3>2. CASE d # c
      <4>1. calls'[d] = calls[d]
        BY <1>c, <3>2 DEF CallsType
      <4> QED
        BY <1>c, <1>f, <1>t, <4>1
    <3> QED
      BY <3>1, <3>2
  <2> QED
    BY <2>1 DEF CertInv
<1>a. ASSUME NEW c \in Calls, NEW code, Answer(c, code), UNCHANGED <<trusted, now>>
      PROVE  CertInv'
  <2> DEFINE call == IF code = "OK"
    THEN [Idle EXCEPT !.pc = "done", !.code = code, !.req = calls[c].req,
                      !.epoch = calls[c].epoch, !.own = calls[c].own]
    ELSE [Idle EXCEPT !.pc = "done", !.code = code]
  <2>1. calls' = [calls EXCEPT ![c] = call] /\ call.pc = "done"
    BY <1>a DEF Answer, Idle
  <2> HIDE DEF call
  <2>2. calls'[c].pc = "done"
    BY <2>1 DEF CallsType
  <2> QED
    BY <1>a, <1>c, <1>q, <2>1, <2>2, Zenon
<1>b. ASSUME NEW c \in Calls, RefuseParams(c), UNCHANGED <<trusted, now>>
      PROVE  CertInv'
  <2> DEFINE call == [Idle EXCEPT !.pc = "done", !.code = "InvalidArgument",
                        !.age = IF calls[c].params = NoParams THEN None ELSE rotations - calls[c].fetchedAt]
  <2>1. calls' = [calls EXCEPT ![c] = call] /\ call.pc = "done"
    BY <1>b DEF RefuseParams, Idle
  <2> HIDE DEF call
  <2>2. calls'[c].pc = "done"
    BY <2>1 DEF CallsType
  <2> QED
    BY <1>b, <1>c, <1>q, <2>1, <2>2, Zenon
<1>g. ASSUME NEW c \in Calls, GoTo(c, "register"), UNCHANGED <<trusted, now>>, calls[c].pc \in InProgress,
             IF NeedsPow(c) THEN 256 * calls[c].req.hash[1] + calls[c].req.hash[2] < 2 ^ (16 - Difficulty)
             ELSE /\ calls[c].req.cert.node = calls[c].req.node
                  /\ calls[c].req.cert.signer \in calls[c].seen \cup ConfiguredKeys
                  /\ calls[c].req.cert.expiration # None => calls[c].req.cert.expiration >= calls[c].since
      PROVE  CertInv'
  <2> DEFINE call == [calls[c] EXCEPT !.pc = "register"]
  <2>1. calls' = [calls EXCEPT ![c] = call]
    BY <1>g DEF GoTo
  <2>2. call.pc = "register" /\ call.req = calls[c].req /\ call.seen = calls[c].seen /\ call.since = calls[c].since
    BY <1>t DEF CallStates
  <2> HIDE DEF call
  <2>3. calls'[c] = call
    BY <2>1 DEF CallsType
  <2>4. Certified(c)'
    BY <1>g, <1>k, <1>p, <2>2, <2>3, Zenon DEF Certified, NeedsPow
  <2> QED
    BY <1>c, <1>g, <2>1, <2>4, Zenon
<1>v. ASSUME NEW c \in Calls, NEW keys, keys \subseteq calls[c].seen \cup ConfiguredKeys, VerifyWith(c, keys),
             UNCHANGED <<trusted, now>>, calls[c].pc \in InProgress, ~NeedsPow(c)
      PROVE  CertInv'
  <2>1. CASE Answer(c, "Unauthenticated")
    BY <1>a, <1>v, <2>1
  <2>2. CASE ~Answer(c, "Unauthenticated")
    <3>1. GoTo(c, "register") /\ \E k \in keys : VerifyCertificate(calls[c].req.cert, k, calls[c].req.node)
      BY <1>v, <2>2 DEF VerifyWith
    <3>2. calls[c].req \in Requests /\ calls[c].req.cert # None
      BY <1>v DEF CallsType, NeedsPow
    <3>3. calls[c].since <= now /\ calls[c].since \in Nat
      BY <1>p, <1>t, <1>v, Zenon DEF Certified, CallStates
    <3>4. calls[c].req.cert.expiration # None => calls[c].req.cert.expiration \in Int
      BY <3>2, RequestsAreTyped
    <3> QED
      BY <1>g, <1>t, <1>v, <3>1, <3>3, <3>4 DEF VerifyCertificate
  <2> QED
    BY <2>1, <2>2
<1>1. CASE StartReload \/ RotatePow \/ Tick \/ UNCHANGED vars
  BY <1>1, <1>f, <1>t DEF CertInv, StartReload, RotatePow, Tick, vars
<1>2. CASE ReloadStep
  <2>1. CASE InstallKeys
    <3> SUFFICES ASSUME NEW c \in Calls PROVE Certified(c)'
      BY DEF CertInv
    <3>1. CASE calls[c].pc \in InProgress
      <4>1. calls'[c] = [calls[c] EXCEPT !.seen = @ \cup trusted']
        BY <2>1, <3>1 DEF InstallKeys
      <4>2. now' = now
        BY <2>1 DEF InstallKeys
      <4> QED
        BY <1>k, <1>p, <1>t, <3>1, <4>1, <4>2 DEF Certified, NeedsPow, CallStates
    <3>2. CASE calls[c].pc \notin InProgress
      <4>1. calls'[c] = calls[c] /\ now' = now
        BY <2>1, <3>2 DEF InstallKeys
      <4> QED
        BY <1>f, <1>t, <3>2, <4>1
    <3> QED
      BY <3>1, <3>2
  <2>2. CASE \E f \in KeyFiles : ReadKeyFile(f)
    BY <1>f, <1>t, <2>2 DEF ReadKeyFile, CertInv
  <2>3. CASE ReloadFails
    BY <1>f, <1>t, <2>3 DEF ReloadFails, CertInv
  <2> QED
    BY <1>2, <2>1, <2>2, <2>3 DEF ReloadStep
<1>3. ASSUME NEW f \in KeyFiles, NEW content \in Keys \cup {Garbage, None}, EditKeyDir(f, content)
      PROVE  CertInv'
  BY <1>3, <1>f, <1>t DEF EditKeyDir, CertInv
<1>5. ASSUME NEW c \in Calls, PowParams(c) PROVE CertInv'
  <2> DEFINE call == [calls[c] EXCEPT !.pc = "solved", !.params = pow.current, !.fetchedAt = rotations]
  <2>1. calls' = [calls EXCEPT ![c] = call] /\ UNCHANGED <<trusted, now>>
    BY <1>5, Zenon DEF PowParams
  <2>2. call.pc = "solved"
    BY <1>t DEF CallStates
  <2> HIDE DEF call
  <2>3. calls'[c].pc = "solved"
    BY <2>1, <2>2, Zenon DEF CallsType
  <2> QED
    BY <1>c, <1>q, <2>1, <2>3, Zenon
<1>6. ASSUME NEW c \in Calls, CheckPow(c) PROVE CertInv'
  <2>1. calls[c].pc \in InProgress /\ NeedsPow(c) /\ UNCHANGED <<trusted, now>>
    BY <1>6 DEF CheckPow, InProgress
  <2>2. CASE RefuseParams(c) \/ Answer(c, "InvalidArgument")
    BY <1>a, <1>b, <2>1, <2>2
  <2>3. CASE ~(RefuseParams(c) \/ Answer(c, "InvalidArgument"))
    <3>1. GoTo(c, "register") /\ CheckLeadingZeroBits(calls[c].req.hash, Difficulty)
      BY <1>6, <2>3 DEF CheckPow, Verify
    <3>2. calls[c].req.hash \in (0 .. 255) \X (0 .. 255)
      BY <2>1, RequestsAreTyped, Zenon DEF CallsType
    <3>3. 256 * calls[c].req.hash[1] + calls[c].req.hash[2] < 2 ^ (16 - Difficulty)
      <4>1. Difficulty \in 0 .. 16
        BY AdmissionConstants
      <4> QED
        BY <3>1, <3>2, <4>1, LeadingZeroBits, Zenon
    <3> QED
      BY <1>g, <2>1, <3>1, <3>3, Zenon
  <2> QED
    BY <2>2, <2>3
<1>7. ASSUME NEW c \in Calls, VerifyWithConfigured(c) PROVE CertInv'
  BY <1>7, <1>v, Zenon DEF VerifyWithConfigured, InProgress
<1>8. ASSUME NEW c \in Calls, CheckKeys(c) PROVE CertInv'
  BY <1>8, <1>v, <1>p, Zenon DEF Certified, CheckKeys, InProgress
<1>9. ASSUME NEW c \in Calls, LookupKeys(c) PROVE CertInv'
  <2> DEFINE matchingKeys == {k \in trusted : HintOf[k] = calls[c].req.hint}
             call == [calls[c] EXCEPT !.pc = "check", !.keys = matchingKeys]
  <2>1. UNCHANGED <<trusted, now>> /\ calls[c].pc = "verify" /\ ~NeedsPow(c)
    BY <1>9 DEF LookupKeys
  <2>2. CASE Answer(c, "Unauthenticated")
    BY <1>a, <2>1, <2>2
  <2>3. CASE ~Answer(c, "Unauthenticated")
    <3>1. calls' = [calls EXCEPT ![c] = call]
      BY <1>9, <2>3, Zenon DEF LookupKeys
    <3>2. /\ call.pc = "check" /\ call.keys = matchingKeys /\ call.req = calls[c].req
          /\ call.seen = calls[c].seen /\ call.since = calls[c].since
      BY <1>t DEF CallStates
    <3> HIDE DEF call
    <3>3. calls'[c] = call
      BY <3>1 DEF CallsType
    <3>4. trusted \subseteq calls[c].seen /\ calls[c].since <= now
      BY <1>p, <2>1, Zenon DEF Certified, InProgress
    <3>5. Certified(c)'
      BY <1>k, <2>1, <3>2, <3>3, <3>4, Zenon DEF Certified, NeedsPow
    <3> QED
      BY <1>c, <2>1, <3>1, <3>5, Zenon
  <2> QED
    BY <2>2, <2>3
<1>10. ASSUME NEW c \in Calls, Register(c) PROVE CertInv'
  <2> DEFINE stored(pc) == [calls[c] EXCEPT !.epoch = openRound.epoch, !.own = Known(calls[c].req.node) = None,
                                            !.pc = pc]
  <2>1. UNCHANGED <<trusted, now>> /\ calls[c].pc = "register"
    BY <1>10 DEF Register
  <2>2. CASE \E code : Answer(c, code)
    BY <1>a, <2>1, <2>2
  <2>3. CASE ~ \E code : Answer(c, code)
    <3>1. \E pc \in {"wait", "stored"} : calls' = [calls EXCEPT ![c] = stored(pc)]
      BY <1>10, <2>3, Zenon DEF Register
    <3>2. PICK pc \in {"wait", "stored"} : calls' = [calls EXCEPT ![c] = stored(pc)]
      BY <3>1, Zenon
    <3>3. /\ stored(pc).pc = pc /\ stored(pc).req = calls[c].req
          /\ stored(pc).seen = calls[c].seen /\ stored(pc).since = calls[c].since
      BY <1>t DEF CallStates
    <3> HIDE DEF stored
    <3>4. calls'[c] = stored(pc)
      BY <3>2 DEF CallsType
    <3>5. Certified(c)'
      BY <1>k, <1>p, <2>1, <3>3, <3>4, Zenon DEF Certified, NeedsPow, InProgress
    <3> QED
      BY <1>c, <2>1, <3>2, <3>5, Zenon
  <2> QED
    BY <2>2, <2>3
<1>11. ASSUME NEW c \in Calls, AnswerSubmit(c) \/ CancelSubmit(c) PROVE CertInv'
  BY <1>11, <1>a, Zenon DEF AnswerSubmit, CancelSubmit
<1>12. ASSUME NEW c \in Calls, NEW req \in Requests, Receive(c, req) PROVE CertInv'
  <2> DEFINE call == [calls[c] EXCEPT !.pc = "verify", !.req = req, !.since = now, !.seen = trusted]
  <2>1. UNCHANGED <<trusted, now>>
    BY <1>12 DEF Receive
  <2>2. CASE Answer(c, "InvalidArgument")
    BY <1>a, <2>1, <2>2
  <2>3. CASE calls' = [calls EXCEPT ![c] = call]
    <3>1. call.pc = "verify" /\ call.since = now /\ call.seen = trusted
      BY <1>t DEF CallStates
    <3> HIDE DEF call
    <3>2. calls'[c] = call
      BY <2>3 DEF CallsType
    <3>3. Certified(c)'
      BY <1>t, <2>1, <3>1, <3>2 DEF Certified
    <3> QED
      BY <1>c, <2>1, <2>3, <3>3, Zenon
  <2> QED
    BY <1>12, <2>2, <2>3, Zenon DEF Receive
<1>13. ASSUME NEW other \in Others, OtherSubmit(other[1], other[2]) PROVE CertInv'
  BY <1>13, <1>f, <1>t DEF OtherSubmit, CertInv
<1>14. CASE Flush \/ closeRound \/ closeRoundFails
  <2>1. PICK written \in BOOLEAN : FlushInto(written)
    BY <1>14 DEF Flush, FlushBatch, closeRound, closeRoundFails
  <2>2. UNCHANGED <<trusted, now>>
    BY <1>14 DEF Flush, FlushBatch, closeRound, closeRoundFails
  <2> SUFFICES ASSUME NEW c \in Calls PROVE Certified(c)'
    BY DEF CertInv
  <2>3. CASE calls[c].pc = "wait"
    <3>1. calls'[c] = [calls[c] EXCEPT !.pc = IF written THEN "stored" ELSE "failed"]
      BY <2>1, <2>3 DEF FlushInto
    <3> QED
      BY <1>k, <1>p, <1>t, <2>2, <2>3, <3>1, ZenonT(40) DEF Certified, NeedsPow, CallStates,
         InProgress
  <2>4. CASE calls[c].pc # "wait"
    <3>1. calls'[c] = calls[c]
      BY <2>1, <2>4 DEF FlushInto
    <3> QED
      BY <1>f, <1>t, <2>2, <3>1
  <2> QED
    BY <2>3, <2>4
<1>15. CASE New
  <2>1. ~up /\ calls' = calls /\ now' = now
    BY <1>15 DEF New
  <2>2. \A c \in Calls : calls[c].pc \notin InProgress
    BY <2>1 DEF CallsType
  <2> QED
    BY <1>f, <1>t, <2>1, <2>2 DEF CertInv
<1>16. CASE Crash
  <2> SUFFICES ASSUME NEW c \in Calls PROVE Certified(c)'
    BY DEF CertInv
  <2>1. calls'[c] = AfterCrash(calls[c])
    BY <1>16 DEF Crash
  <2>2. calls'[c].pc \in {"idle", "solved", "done"}
    BY <1>t, <2>1 DEF AfterCrash, CallStates, Idle
  <2> QED
    BY <1>q, <2>2
<1> QED
  BY <1>1, <1>2, <1>3, <1>5, <1>6, <1>7, <1>8, <1>9, <1>10, <1>11, <1>12, <1>13, <1>14, <1>15, <1>16
  DEF Next, CallStep
------------------------------------------------------------------------------
(* The params a call brings: as long as the server has rotated at most once *)
(* since, they are those of its current or its previous verifier.           *)
HasGrace(c) == LET call == calls[c] IN
  /\ call.pc = "idle" => call.params = NoParams
  /\ ~up /\ call.pc = "solved" => call.fetchedAt = -2
  /\ call.pc \in {"solved", "verify"} /\ call.params # NoParams /\ call.fetchedAt # -2 =>
       /\ call.fetchedAt <= rotations
       /\ call.fetchedAt = rotations => call.params = pow.current
       /\ call.fetchedAt = rotations - 1 => call.params = pow.previous
  /\ call.age # None => call.age >= 2

PowInv == \A c \in Calls : HasGrace(c)

(* Rotations keep that promise, and a refusal comes after two of them. *)
LEMMA PowStep ==
  ASSUME ServerType, CallsType, PowInv, [Next]_vars
  PROVE  PowInv'
<1> USE DEF keyVars, powVars, roundVars, OnlyCalls
<1> SUFFICES ASSUME NEW c \in Calls PROVE HasGrace(c)'
  BY DEF PowInv
<1>p. HasGrace(c) /\ calls[c] \in CallStates
  BY DEF PowInv, CallsType
<1>f. ASSUME UNCHANGED <<up, pow, rotations>>, calls'[c] = calls[c] PROVE HasGrace(c)'
  BY <1>f, <1>p DEF HasGrace
<1>q. ASSUME calls'[c].pc \notin {"idle", "solved", "verify"}, calls'[c].age \in {calls[c].age, None} PROVE HasGrace(c)'
  BY <1>p, <1>q DEF HasGrace
<1>a. ASSUME NEW d \in Calls, NEW code, Answer(d, code), UNCHANGED <<up, pow, rotations>> PROVE HasGrace(c)'
  BY <1>a, <1>f, <1>q, Answered, Zenon
<1>g. ASSUME NEW d \in Calls, GoTo(d, "register"), UNCHANGED <<up, pow, rotations>> PROVE HasGrace(c)'
  <2>1. CASE c = d
    <3>1. calls'[c].pc = "register" /\ calls'[c].age = calls[c].age
      BY <1>g, <2>1, WentTo, Zenon
    <3> QED
      BY <1>q, <3>1
  <2>2. CASE c # d
    <3>1. calls'[c] = calls[c]
      BY <1>g, <2>2, WentTo, Zenon
    <3> QED
      BY <1>f, <1>g, <3>1
  <2> QED
    BY <2>1, <2>2
<1>1. CASE StartReload \/ Tick \/ UNCHANGED vars
  <2>1. calls' = calls /\ UNCHANGED <<up, pow, rotations>>
    BY <1>1 DEF StartReload, Tick, vars
  <2> QED
    BY <1>f, <2>1
<1>2. CASE ReloadStep
  <2>1. CASE InstallKeys
    <3>1. UNCHANGED <<up, pow, rotations>>
      BY <2>1 DEF InstallKeys
    <3>2. calls'[c] \in {calls[c], [calls[c] EXCEPT !.seen = @ \cup trusted']}
      BY <2>1 DEF InstallKeys
    <3>3. /\ calls'[c].pc = calls[c].pc /\ calls'[c].params = calls[c].params /\ calls'[c].age = calls[c].age
          /\ calls'[c].fetchedAt = calls[c].fetchedAt
      BY <1>p, <3>2 DEF CallStates
    <3> QED
      BY <1>p, <3>1, <3>3, Zenon DEF HasGrace
  <2>2. CASE \E f \in KeyFiles : ReadKeyFile(f)
    BY <1>f, <2>2 DEF ReadKeyFile
  <2>3. CASE ReloadFails
    BY <1>f, <2>3 DEF ReloadFails
  <2> QED
    BY <1>2, <2>1, <2>2, <2>3 DEF ReloadStep
<1>3. ASSUME NEW f \in KeyFiles, NEW content \in Keys \cup {Garbage, None}, EditKeyDir(f, content)
      PROVE  HasGrace(c)'
  BY <1>3, <1>f DEF EditKeyDir
<1>4. CASE RotatePow
  <2>1. /\ calls' = calls /\ up' = up /\ rotations' = rotations + 1 /\ pow'.previous = pow.current
        /\ rotations \in Nat /\ calls[c].fetchedAt \in Nat \cup {-2}
    BY <1>4, <1>p, Zenon DEF RotatePow, ServerType, CallStates
  <2> QED
    BY <1>p, <2>1 DEF HasGrace
<1>5. ASSUME NEW d \in Calls, PowParams(d) PROVE HasGrace(c)'
  <2> DEFINE call == [calls[d] EXCEPT !.pc = "solved", !.params = pow.current, !.fetchedAt = rotations]
  <2>1. /\ call.pc = "solved" /\ call.params = pow.current /\ call.fetchedAt = rotations
        /\ call.age = calls[d].age
    BY DEF CallsType, CallStates
  <2> HIDE DEF call
  <2>2. calls' = [calls EXCEPT ![d] = call] /\ UNCHANGED <<up, pow, rotations>> /\ up
    BY <1>5, Zenon DEF PowParams, call
  <2>3. calls'[d] = call /\ \A x \in Calls \ {d} : calls'[x] = calls[x]
    BY <2>2, OneCall, Zenon
  <2>4. rotations \in Nat
    BY DEF ServerType
  <2> QED
    BY <1>f, <1>p, <2>1, <2>2, <2>3, <2>4 DEF HasGrace
<1>6. ASSUME NEW d \in Calls, CheckPow(d) PROVE HasGrace(c)'
  <2>1. calls[d].pc = "verify" /\ UNCHANGED <<up, pow, rotations>>
    BY <1>6 DEF CheckPow
  <2>2. CASE ~KnownParams(calls[d].params)
    <3>1. RefuseParams(d)
      BY <1>6, <2>2, Zenon DEF CheckPow
    <3>2. CASE c # d
      BY <1>f, <2>1, <3>1, <3>2, Refused, Zenon
    <3>3. CASE c = d /\ calls[c].params = NoParams
      BY <1>q, <3>1, <3>3, Refused, Zenon
    <3>4. CASE c = d /\ calls[c].params # NoParams
      <4>1. calls'[c].pc = "done" /\ calls'[c].age = rotations - calls[c].fetchedAt
        BY <3>1, <3>4, Refused
      <4>2. calls[c].params \in 0 .. MaxEvents /\ calls[c].fetchedAt \in Nat \cup {-2} /\ rotations \in Nat
        BY <1>p, <3>4, Zenon DEF ServerType, CallStates
      <4>3. calls[c].params # pow.current /\ calls[c].params # pow.previous
        BY <2>2, <3>4, <4>2 DEF KnownParams, NoVerifier
      <4>4. calls[c].fetchedAt = -2 \/ calls[c].fetchedAt < rotations - 1
        BY <1>p, <2>1, <3>4, <4>2, <4>3 DEF HasGrace
      <4>5. rotations - calls[c].fetchedAt >= 2
        BY <4>2, <4>4
      <4> QED
        BY <4>1, <4>5 DEF HasGrace
    <3> QED
      BY <3>2, <3>3, <3>4
  <2>3. CASE KnownParams(calls[d].params)
    BY <1>6, <1>a, <1>g, <2>1, <2>3, Zenon DEF CheckPow
  <2> QED
    BY <2>2, <2>3
<1>7. ASSUME NEW d \in Calls, VerifyWithConfigured(d) \/ CheckKeys(d) PROVE HasGrace(c)'
  <2>1. UNCHANGED <<up, pow, rotations>> /\ \E keys : VerifyWith(d, keys)
    BY <1>7, Zenon DEF VerifyWithConfigured, CheckKeys
  <2> QED
    BY <1>a, <1>g, <2>1 DEF VerifyWith
<1>9. ASSUME NEW d \in Calls, LookupKeys(d) PROVE HasGrace(c)'
  <2> DEFINE matchingKeys == {k \in trusted : HintOf[k] = calls[d].req.hint}
             call == [calls[d] EXCEPT !.pc = "check", !.keys = matchingKeys]
  <2>1. call.pc = "check" /\ call.age = calls[d].age
    BY DEF CallsType, CallStates
  <2>2. UNCHANGED <<up, pow, rotations>> /\ (Answer(d, "Unauthenticated") \/ calls' = [calls EXCEPT ![d] = call])
    BY <1>9, Zenon DEF LookupKeys
  <2> HIDE DEF call
  <2> QED
    BY <1>a, <1>f, <1>q, <2>1, <2>2, OneCall
<1>10. ASSUME NEW d \in Calls, Register(d) PROVE HasGrace(c)'
  <2>1. UNCHANGED <<up, pow, rotations>>
    BY <1>10 DEF Register
  <2> QED
    BY <1>10, <1>a, <1>f, <1>q, <2>1, Submitted, Zenon
<1>11. ASSUME NEW d \in Calls, AnswerSubmit(d) \/ CancelSubmit(d) PROVE HasGrace(c)'
  BY <1>11, <1>a, Zenon DEF AnswerSubmit, CancelSubmit
<1>12. ASSUME NEW d \in Calls, NEW req \in Requests, Receive(d, req) PROVE HasGrace(c)'
  <2> DEFINE call == [calls[d] EXCEPT !.pc = "verify", !.req = req, !.since = now, !.seen = trusted]
  <2>1. /\ call.pc = "verify" /\ call.params = calls[d].params /\ call.fetchedAt = calls[d].fetchedAt
        /\ call.age = calls[d].age
    BY DEF CallsType, CallStates
  <2>2. UNCHANGED <<up, pow, rotations>> /\ calls[d].pc \in {"idle", "solved"}
    BY <1>12 DEF Receive
  <2>3. Answer(d, "InvalidArgument") \/ calls' = [calls EXCEPT ![d] = call]
    BY <1>12, Zenon DEF Receive
  <2> HIDE DEF call
  <2>4. CASE calls' = [calls EXCEPT ![d] = call]
    <3>1. calls'[d] = call /\ \A x \in Calls \ {d} : calls'[x] = calls[x]
      BY <2>4, OneCall, Zenon
    <3>2. CASE c = d
      BY <1>p, <2>1, <2>2, <3>1, <3>2, Zenon DEF HasGrace
    <3>3. CASE c # d
      BY <1>f, <2>2, <3>1, <3>3, Zenon
    <3> QED
      BY <3>2, <3>3
  <2> QED
    BY <1>a, <2>2, <2>3, <2>4
<1>13. ASSUME NEW other \in Others, OtherSubmit(other[1], other[2]) PROVE HasGrace(c)'
  BY <1>13, <1>f DEF OtherSubmit
<1>14. CASE Flush \/ closeRound \/ closeRoundFails
  <2>1. PICK written \in BOOLEAN : FlushInto(written)
    BY <1>14 DEF Flush, FlushBatch, closeRound, closeRoundFails
  <2>2. UNCHANGED <<up, pow, rotations>>
    BY <1>14 DEF Flush, FlushBatch, closeRound, closeRoundFails
  <2>3. CASE calls[c].pc = "wait"
    <3>1. calls'[c] = [calls[c] EXCEPT !.pc = IF written THEN "stored" ELSE "failed"]
      BY <2>1, <2>3 DEF FlushInto
    <3>2. calls'[c].pc \in {"stored", "failed"} /\ calls'[c].age = calls[c].age
      BY <1>p, <3>1 DEF CallStates
    <3> QED
      BY <1>q, <3>2
  <2>4. CASE calls[c].pc # "wait"
    <3>1. calls'[c] = calls[c]
      BY <2>1, <2>4 DEF FlushInto
    <3> QED
      BY <1>f, <2>2, <3>1
  <2> QED
    BY <2>3, <2>4
<1>15. CASE New
  <2>1. ~up /\ calls' = calls /\ up'
    BY <1>15, Zenon DEF New
  <2>2. calls[c].pc # "verify"
    BY <2>1 DEF CallsType, InProgress
  <2> QED
    BY <1>p, <2>1, <2>2, Zenon DEF HasGrace
<1>16. CASE Crash
  <2>1. calls'[c] = AfterCrash(calls[c])
    BY <1>16 DEF Crash
  <2>2. CASE calls[c].pc = "done"
    BY <1>q, <2>1, <2>2 DEF AfterCrash
  <2>3. CASE calls[c].pc = "solved"
    <3>1. calls'[c] = [calls[c] EXCEPT !.fetchedAt = -2]
      BY <2>1, <2>3 DEF AfterCrash
    <3>2. calls'[c].fetchedAt = -2 /\ calls'[c].pc = "solved" /\ calls'[c].age = calls[c].age
      BY <1>p, <2>3, <3>1 DEF CallStates
    <3> QED
      BY <1>p, <3>2, Zenon DEF HasGrace
  <2>4. CASE calls[c].pc \notin {"done", "solved"}
    <3>1. calls'[c] = Idle
      BY <2>1, <2>4 DEF AfterCrash
    <3> QED
      BY <3>1 DEF HasGrace, Idle
  <2> QED
    BY <2>2, <2>3, <2>4
<1> QED
  BY <1>1, <1>2, <1>3, <1>4, <1>5, <1>6, <1>7, <1>9, <1>10, <1>11, <1>12, <1>13, <1>14, <1>15, <1>16
  DEF Next, CallStep
------------------------------------------------------------------------------
(* What a registration was promised when the round accepted it. *)
Kept(call) ==
  /\ call.req \in Requests
  /\ call.epoch \in Epochs
  /\ call.req.deadline # None => RoundEnd(call.epoch) <= call.req.deadline

(* Nobody in the batch is registered already. *)
BatchInv == \A n \in PendingNodes : registered[openRound.epoch][n] = None

(* A call that waits is in the batch of the round it was told; one that was *)
(* told of success is in the database of that round.                        *)
Promised(c) == LET call == calls[c] IN
  /\ call.pc \in {"wait", "stored", "failed"} \/ call.code = "OK" => Kept(call)
  /\ call.pc = "wait" => /\ call.own
                         /\ call.epoch = openRound.epoch
                         /\ openRound.pending[call.req.node] = call.req.challenge
  /\ call.own /\ (call.pc = "stored" \/ call.code = "OK") =>
       registered[call.epoch][call.req.node] = call.req.challenge

RoundInv == \A c \in Calls : Promised(c)

(* What a submission leaves in the batch. *)
LEMMA PutInBatch ==
  ASSUME ServerType, NEW node \in Nodes, NEW challenge \in Challenges, Put(node, challenge)
  PROVE  /\ openRound'.epoch = openRound.epoch /\ openRound'.members = openRound.members
         /\ openRound'.pending = [openRound.pending EXCEPT ![node] = challenge]
         /\ openRound'.pending[node] = challenge
         /\ \A n \in Nodes \ {node} : openRound'.pending[n] = openRound.pending[n]
<1>1. openRound'.epoch = openRound.epoch /\ openRound'.members = openRound.members
      /\ openRound'.pending = [openRound.pending EXCEPT ![node] = challenge]
  BY DEF Put, ServerType
<1> QED
  BY <1>1 DEF ServerType

(* An empty batch. *)
LEMMA NobodyInBatch ==
  ASSUME openRound'.pending = NobodyPending
  PROVE  BatchInv'
BY DEF BatchInv, PendingNodes, NobodyPending

(* submit refuses who is registered, and a flush empties the batch. *)
LEMMA BatchStep ==
  ASSUME ServerType, CallsType, BatchInv, [Next]_vars
  PROVE  BatchInv'
<1> USE DEF keyVars, powVars, roundVars, OnlyCalls
<1>f. ASSUME UNCHANGED <<openRound, registered>> PROVE BatchInv'
  BY <1>f DEF BatchInv, PendingNodes
<1>p. ASSUME NEW node \in Nodes, NEW challenge \in Challenges, Put(node, challenge), Known(node) = None,
             registered' = registered
      PROVE  BatchInv'
  <2>1. /\ openRound'.epoch = openRound.epoch
        /\ \A n \in Nodes \ {node} : openRound'.pending[n] = openRound.pending[n]
    BY <1>p, PutInBatch, Zenon
  <2>2. registered[openRound.epoch][node] = None
    BY <1>p, Zenon DEF Known
  <2> QED
    BY <1>p, <2>1, <2>2, Zenon DEF BatchInv, PendingNodes
<1>1. CASE ReloadStep
  BY <1>f, <1>1, Zenon DEF ReloadStep, ReadKeyFile, InstallKeys, ReloadFails
<1>2. CASE StartReload \/ RotatePow \/ Tick \/ UNCHANGED vars \/ Crash
  BY <1>f, <1>2, Zenon DEF StartReload, RotatePow, Tick, vars, Crash
<1>3. ASSUME NEW f \in KeyFiles, NEW content \in Keys \cup {Garbage, None}, EditKeyDir(f, content)
      PROVE  BatchInv'
  BY <1>3, <1>f DEF EditKeyDir
<1>4. ASSUME NEW c \in Calls, PowParams(c) \/ LookupKeys(c) \/ CancelSubmit(c) \/ CheckPow(c)
                              \/ VerifyWithConfigured(c) \/ CheckKeys(c) \/ AnswerSubmit(c)
      PROVE  BatchInv'
  <2>1. UNCHANGED <<openRound, registered>>
    BY <1>4, Zenon DEF PowParams, LookupKeys, CancelSubmit, CheckPow, VerifyWithConfigured,
       CheckKeys, AnswerSubmit
  <2> QED
    BY <1>f, <2>1
<1>5. ASSUME NEW c \in Calls, Register(c) PROVE BatchInv'
  <2>1. registered' = registered /\ calls[c].pc \in InProgress
    BY <1>5 DEF Register, InProgress
  <2>2. calls[c].req.node \in Nodes /\ calls[c].req.challenge \in Challenges
    BY <2>1, RequestsAreTyped, Zenon DEF CallsType
  <2>3. openRound' = openRound
        \/ (Known(calls[c].req.node) = None /\ Put(calls[c].req.node, calls[c].req.challenge))
    BY <1>5, Submitted, Zenon
  <2> QED
    BY <1>f, <1>p, <2>1, <2>2, <2>3
<1>6. ASSUME NEW c \in Calls, NEW req \in Requests, Receive(c, req) PROVE BatchInv'
  BY <1>6, <1>f DEF Receive
<1>7. ASSUME NEW other \in Others, OtherSubmit(other[1], other[2]) PROVE BatchInv'
  BY <1>7, <1>p, AdmissionConstants DEF OtherSubmit
<1>8. CASE Flush \/ closeRoundFails
  <2>1. openRound'.pending = NobodyPending
    BY <1>8 DEF Flush, closeRoundFails, FlushBatch, ServerType
  <2> QED
    BY <2>1, NobodyInBatch
<1>9. CASE closeRound \/ New
  <2>1. openRound'.pending = NobodyPending
    BY <1>9 DEF closeRound, New, newRound
  <2> QED
    BY <2>1, NobodyInBatch
<1> QED
  BY <1>1, <1>2, <1>3, <1>4, <1>5, <1>6, <1>7, <1>8, <1>9 DEF Next, CallStep

(* The promises are kept: a flush writes the whole batch and overwrites     *)
(* nobody, also the last one of a round that closes.                        *)
LEMMA RoundStep ==
  ASSUME ServerType, CallsType, BatchInv, RoundInv, [Next]_vars
  PROVE  RoundInv'
<1> USE DEF keyVars, powVars, roundVars, OnlyCalls
<1> SUFFICES ASSUME NEW c \in Calls PROVE Promised(c)'
  BY DEF RoundInv
<1>p. /\ Promised(c) /\ calls[c] \in CallStates
      /\ calls[c].pc # "done" => calls[c].code = None
      /\ calls[c].pc \in InProgress => /\ up
                                       /\ calls[c].req \in Requests
                                       /\ calls[c].req.node \in Nodes
                                       /\ calls[c].req.challenge \in Challenges
      /\ "OK" # None /\ None \notin Challenges
  BY RequestsAreTyped, AdmissionConstants, ZenonT(40) DEF RoundInv, CallsType
<1>f. ASSUME UNCHANGED <<openRound, registered>>, calls'[c] = calls[c] PROVE Promised(c)'
  BY <1>f, <1>p, ZenonT(40) DEF Promised, Kept
<1>q. ASSUME calls'[c].pc \notin {"wait", "stored", "failed"}, calls'[c].code # "OK" PROVE Promised(c)'
  BY <1>q, Zenon DEF Promised
<1>w. ASSUME calls'[c] = calls[c], calls[c].pc \notin {"wait"},
             calls[c].own /\ (calls[c].pc = "stored" \/ calls[c].code = "OK") =>
               registered'[calls[c].epoch][calls[c].req.node] = calls[c].req.challenge
      PROVE  Promised(c)'
  BY <1>p, <1>w, Zenon DEF Promised, Kept
<1>a. ASSUME NEW d \in Calls, NEW code, code # "OK", Answer(d, code), UNCHANGED <<openRound, registered>>
      PROVE  Promised(c)'
  BY <1>a, <1>f, <1>q, Answered
<1>g. ASSUME NEW d \in Calls, GoTo(d, "register"), UNCHANGED <<openRound, registered>>, calls[d].pc # "done"
      PROVE  Promised(c)'
  <2>1. CASE c = d
    <3>1. calls'[c].pc = "register" /\ calls'[c].code = calls[c].code
      BY <1>g, <2>1, WentTo, Zenon
    <3> QED
      BY <1>g, <1>p, <1>q, <2>1, <3>1, Zenon
  <2>2. CASE c # d
    <3>1. calls'[c] = calls[c]
      BY <1>g, <2>2, WentTo, Zenon
    <3> QED
      BY <1>f, <1>g, <3>1, Zenon
  <2> QED
    BY <2>1, <2>2
<1>s. ASSUME NEW d \in Calls, NEW call, calls' = [calls EXCEPT ![d] = call], UNCHANGED <<openRound, registered>>,
             call.pc \notin {"wait", "stored", "failed"}, call.code = calls[d].code, calls[d].pc # "done"
      PROVE  Promised(c)'
  <2>1. calls'[d] = call /\ \A x \in Calls \ {d} : calls'[x] = calls[x]
    BY <1>s, OneCall, Zenon
  <2>2. CASE c = d
    BY <1>p, <1>q, <1>s, <2>1, <2>2, Zenon
  <2>3. CASE c # d
    BY <1>f, <1>s, <2>1, <2>3
  <2> QED
    BY <2>2, <2>3
<1>u. ASSUME NEW node \in Nodes, NEW challenge \in Challenges, Put(node, challenge), Known(node) = None,
             registered' = registered, calls'[c] = calls[c]
      PROVE  Promised(c)'
  <2>1. /\ openRound'.epoch = openRound.epoch
        /\ \A n \in Nodes \ {node} : openRound'.pending[n] = openRound.pending[n]
    BY <1>u, PutInBatch, Zenon
  <2>2. openRound.pending[node] = None
    BY <1>u, Zenon DEF Known
  <2>3. CASE calls[c].pc = "wait"
    <3>1. calls[c].req.node \in Nodes \ {node}
      BY <1>p, <2>2, <2>3, Zenon DEF Promised, InProgress
    <3> QED
      BY <1>p, <1>u, <2>1, <2>3, <3>1, Zenon DEF Promised, Kept
  <2> QED
    BY <1>u, <1>w, <1>p, <2>3, Zenon DEF Promised
<1>1. CASE StartReload \/ Tick \/ UNCHANGED vars \/ RotatePow
  BY <1>1, <1>f, Zenon DEF StartReload, Tick, vars, RotatePow
<1>2. CASE ReloadStep
  <2>1. CASE InstallKeys
    <3>1. UNCHANGED <<openRound, registered>>
      BY <2>1 DEF InstallKeys
    <3>2. calls'[c] \in {calls[c], [calls[c] EXCEPT !.seen = @ \cup trusted']}
      BY <2>1 DEF InstallKeys
    <3>3. /\ calls'[c].pc = calls[c].pc /\ calls'[c].code = calls[c].code /\ calls'[c].own = calls[c].own
          /\ calls'[c].req = calls[c].req /\ calls'[c].epoch = calls[c].epoch
      BY <1>p, <3>2 DEF CallStates
    <3> QED
      BY <1>p, <3>1, <3>3, Zenon DEF Promised, Kept
  <2>2. CASE \E f \in KeyFiles : ReadKeyFile(f)
    BY <1>f, <2>2 DEF ReadKeyFile
  <2>3. CASE ReloadFails
    BY <1>f, <2>3 DEF ReloadFails
  <2> QED
    BY <1>2, <2>1, <2>2, <2>3 DEF ReloadStep
<1>3. ASSUME NEW f \in KeyFiles, NEW content \in Keys \cup {Garbage, None}, EditKeyDir(f, content)
      PROVE  Promised(c)'
  BY <1>3, <1>f DEF EditKeyDir
<1>5. ASSUME NEW d \in Calls, PowParams(d) PROVE Promised(c)'
  <2> DEFINE call == [calls[d] EXCEPT !.pc = "solved", !.params = pow.current, !.fetchedAt = rotations]
  <2>1. call.pc = "solved" /\ call.code = calls[d].code
    BY DEF CallsType, CallStates
  <2> HIDE DEF call
  <2>2. calls' = [calls EXCEPT ![d] = call] /\ UNCHANGED <<openRound, registered>> /\ calls[d].pc = "idle"
    BY <1>5, Zenon DEF PowParams, call
  <2> QED
    BY <1>s, <2>1, <2>2, Zenon
<1>6. ASSUME NEW d \in Calls, CheckPow(d) PROVE Promised(c)'
  <2>1. calls[d].pc = "verify" /\ UNCHANGED <<openRound, registered>>
    BY <1>6, Zenon DEF CheckPow
  <2>2. CASE RefuseParams(d)
    BY <1>f, <1>q, <2>1, <2>2, Refused, Zenon
  <2>3. CASE ~RefuseParams(d)
    BY <1>6, <1>a, <1>g, <2>1, <2>3, Zenon DEF CheckPow
  <2> QED
    BY <2>2, <2>3
<1>7. ASSUME NEW d \in Calls, VerifyWithConfigured(d) \/ CheckKeys(d) PROVE Promised(c)'
  <2>1. /\ UNCHANGED <<openRound, registered>> /\ \E keys : VerifyWith(d, keys)
        /\ calls[d].pc # "done"
    BY <1>7, Zenon DEF VerifyWithConfigured, CheckKeys
  <2> QED
    BY <1>a, <1>g, <2>1, Zenon DEF VerifyWith
<1>9. ASSUME NEW d \in Calls, LookupKeys(d) PROVE Promised(c)'
  <2> DEFINE matchingKeys == {k \in trusted : HintOf[k] = calls[d].req.hint}
             call == [calls[d] EXCEPT !.pc = "check", !.keys = matchingKeys]
  <2>1. call.pc = "check" /\ call.code = calls[d].code
    BY DEF CallsType, CallStates
  <2>2. /\ UNCHANGED <<openRound, registered>> /\ calls[d].pc = "verify"
        /\ (Answer(d, "Unauthenticated") \/ calls' = [calls EXCEPT ![d] = call])
    BY <1>9, Zenon DEF LookupKeys
  <2> HIDE DEF call
  <2>3. CASE calls' = [calls EXCEPT ![d] = call]
    BY <1>s, <2>1, <2>2, <2>3, Zenon
  <2> QED
    BY <1>a, <2>2, <2>3
<1>10. ASSUME NEW d \in Calls, Register(d) PROVE Promised(c)'
  <2>1. registered' = registered /\ calls[d].pc = "register"
    BY <1>10 DEF Register
  <2>2. /\ calls[d].req \in Requests /\ calls[d].code = None /\ openRound.epoch \in Epochs
        /\ calls[d].req.node \in Nodes /\ calls[d].req.challenge \in Challenges
    BY <2>1, RequestsAreTyped, Zenon DEF CallsType, InProgress, ServerType
  <2>3. CASE \E code \in {"FailedPrecondition", "ResourceExhausted", "Internal", "AlreadyExists"} : Answer(d, code)
             /\ openRound' = openRound
    BY <1>a, <2>1, <2>3
  <2> DEFINE known == Known(calls[d].req.node)
  <2>4. CASE /\ calls'[d].pc = IF known = None THEN "wait" ELSE "stored"
             /\ calls'[d].own = (known = None)
             /\ calls'[d].req = calls[d].req /\ calls'[d].epoch = openRound.epoch
             /\ calls'[d].code = calls[d].code
             /\ \A x \in Calls \ {d} : calls'[x] = calls[x]
             /\ ~TooLate(calls[d].req)
             /\ IF known = None THEN Put(calls[d].req.node, calls[d].req.challenge)
                ELSE openRound' = openRound
    <3>1. CASE c # d
      BY <1>f, <1>u, <2>1, <2>2, <2>4, <3>1, ZenonT(40)
    <3>2. CASE c = d
      <4>1. Kept(calls'[c])
        <5>1. calls[c].req.deadline # None =>
                calls[c].req.deadline \in Int /\ ~(RoundEnd(openRound.epoch) > calls[c].req.deadline)
          BY <2>2, <2>4, <3>2, RequestsAreTyped, Zenon DEF TooLate
        <5>2. RoundEnd(openRound.epoch) \in Int
          BY <2>2, OpenRoundInEpochs, ScheduleConstants DEF RoundEnd, RoundStart, ServerType
        <5> QED
          BY <2>2, <2>4, <3>2, <5>1, <5>2 DEF Kept
      <4>2. CASE known = None
        <5>1. /\ openRound'.epoch = openRound.epoch
              /\ openRound'.pending[calls[c].req.node] = calls[c].req.challenge
          BY <2>2, <2>4, <3>2, <4>2, PutInBatch, Zenon
        <5>2. calls'[c].pc = "wait" /\ calls'[c].own /\ calls'[c].code # "OK"
          BY <1>p, <2>2, <2>4, <3>2, <4>2, Zenon
        <5> QED
          BY <2>4, <3>2, <4>1, <5>1, <5>2, Zenon DEF Promised
      <4>3. CASE known # None
        <5>1. calls'[c].pc = "stored" /\ ~calls'[c].own
          BY <2>4, <3>2, <4>3, Zenon
        <5> QED
          BY <4>1, <5>1, Zenon DEF Promised
      <4> QED
        BY <4>2, <4>3
    <3> QED
      BY <3>1, <3>2
  <2> QED
    BY <1>10, <2>3, <2>4, Submitted, Zenon
<1>11. ASSUME NEW d \in Calls, AnswerSubmit(d) PROVE Promised(c)'
  <2>1. UNCHANGED <<openRound, registered>> /\ calls[d].pc \in {"stored", "failed"}
    BY <1>11, Zenon DEF AnswerSubmit
  <2>2. CASE calls[d].pc = "failed"
    BY <1>11, <1>a, <2>1, <2>2, Zenon DEF AnswerSubmit
  <2>3. CASE calls[d].pc = "stored"
    <3>1. Answer(d, "OK")
      BY <1>11, <2>3 DEF AnswerSubmit
    <3>2. CASE c # d
      BY <1>f, <2>1, <3>1, <3>2, Answered, Zenon
    <3>3. CASE c = d
      <4>1. /\ calls'[c].pc = "done" /\ calls'[c].req = calls[c].req
            /\ calls'[c].epoch = calls[c].epoch /\ calls'[c].own = calls[c].own
        BY <3>1, <3>3, Answered, Zenon
      <4> QED
        BY <1>p, <2>1, <2>3, <3>3, <4>1, Zenon DEF Promised, Kept
    <3> QED
      BY <3>2, <3>3
  <2> QED
    BY <2>1, <2>2, <2>3
<1>12. ASSUME NEW d \in Calls, CancelSubmit(d) PROVE Promised(c)'
  BY <1>12, <1>a DEF CancelSubmit
<1>13. ASSUME NEW d \in Calls, NEW req \in Requests, Receive(d, req) PROVE Promised(c)'
  <2> DEFINE call == [calls[d] EXCEPT !.pc = "verify", !.req = req, !.since = now, !.seen = trusted]
  <2>1. call.pc = "verify" /\ call.code = calls[d].code
    BY DEF CallsType, CallStates
  <2>2. UNCHANGED <<openRound, registered>> /\ calls[d].pc # "done"
    BY <1>13 DEF Receive
  <2>3. Answer(d, "InvalidArgument") \/ calls' = [calls EXCEPT ![d] = call]
    BY <1>13, Zenon DEF Receive
  <2> HIDE DEF call
  <2>4. CASE calls' = [calls EXCEPT ![d] = call]
    BY <1>s, <2>1, <2>2, <2>4, Zenon
  <2> QED
    BY <1>a, <2>2, <2>3, <2>4
<1>14. ASSUME NEW other \in Others, OtherSubmit(other[1], other[2]) PROVE Promised(c)'
  BY <1>14, <1>u, AdmissionConstants DEF OtherSubmit
<1>15. CASE Flush \/ closeRound \/ closeRoundFails
  <2>1. PICK written \in BOOLEAN : FlushInto(written)
    BY <1>15 DEF Flush, FlushBatch, closeRound, closeRoundFails
  <2>2. \A n \in Nodes : \A e \in Epochs :
          registered[e][n] # None => registered'[e][n] = registered[e][n]
    <3> SUFFICES ASSUME NEW n \in Nodes, NEW e \in Epochs, registered[e][n] # None
                 PROVE  registered'[e][n] = registered[e][n]
      OBVIOUS
    <3>1. CASE ~written \/ e # openRound.epoch
      BY <2>1, <3>1 DEF FlushInto, ServerType
    <3>2. CASE written /\ e = openRound.epoch
      <4>1. n \notin PendingNodes
        BY <3>2 DEF BatchInv
      <4>2. registered'[e] = [m \in Nodes |-> IF m \in PendingNodes THEN openRound.pending[m]
                                              ELSE registered[e][m]]
        BY <2>1, <3>2 DEF FlushInto, ServerType
      <4> QED
        BY <4>1, <4>2
    <3> QED
      BY <3>1, <3>2
  <2>3. CASE calls[c].pc = "wait"
    <3>1. calls'[c] = [calls[c] EXCEPT !.pc = IF written THEN "stored" ELSE "failed"]
      BY <2>1, <2>3 DEF FlushInto
    <3>2. /\ calls'[c].pc = (IF written THEN "stored" ELSE "failed")
          /\ calls'[c].own = calls[c].own /\ calls'[c].req = calls[c].req
          /\ calls'[c].epoch = calls[c].epoch /\ calls'[c].code = calls[c].code
      BY <1>p, <3>1 DEF CallStates
    <3>3. calls[c].code # "OK" /\ calls[c].epoch = openRound.epoch /\ calls[c].epoch \in Epochs
      BY <1>p, <2>3, Zenon DEF Promised, Kept
    <3>4. calls[c].req.node \in PendingNodes
          /\ openRound.pending[calls[c].req.node] = calls[c].req.challenge
      <4>1. openRound.pending[calls[c].req.node] = calls[c].req.challenge
        BY <1>p, <2>3, Zenon DEF Promised
      <4>2. calls[c].req.node \in Nodes /\ calls[c].req.challenge # None
        BY <1>p, <2>3, Zenon DEF InProgress
      <4> QED
        BY <4>1, <4>2, Zenon DEF PendingNodes
    <3>5. written => registered'[calls[c].epoch][calls[c].req.node] = calls[c].req.challenge
      BY <2>1, <3>3, <3>4 DEF FlushInto, ServerType, PendingNodes
    <3> QED
      BY <1>p, <2>3, <3>2, <3>3, <3>5, Zenon DEF Promised, Kept
  <2>4. CASE calls[c].pc # "wait"
    <3>1. calls'[c] = calls[c]
      BY <2>1, <2>4 DEF FlushInto
    <3>2. ASSUME calls[c].own, calls[c].pc = "stored" \/ calls[c].code = "OK"
          PROVE  registered'[calls[c].epoch][calls[c].req.node] = calls[c].req.challenge
      <4>1. /\ registered[calls[c].epoch][calls[c].req.node] = calls[c].req.challenge
            /\ calls[c].req \in Requests /\ calls[c].epoch \in Epochs
        BY <1>p, <3>2, Zenon DEF Promised, Kept
      <4>2. calls[c].req.node \in Nodes /\ calls[c].req.challenge # None
        BY <1>p, <4>1, RequestsAreTyped, Zenon
      <4> QED
        BY <2>2, <4>1, <4>2, Zenon
    <3> QED
      BY <1>w, <2>4, <3>1, <3>2, Zenon
  <2> QED
    BY <2>3, <2>4
<1>16. CASE New
  <2>1. ~up /\ calls' = calls /\ registered' = registered
    BY <1>16, Zenon DEF New
  <2>2. calls[c].pc # "wait"
    BY <2>1 DEF CallsType, InProgress
  <2> QED
    BY <1>p, <1>w, <2>1, <2>2, Zenon DEF Promised
<1>17. CASE Crash
  <2>1. calls'[c] = AfterCrash(calls[c]) /\ UNCHANGED <<openRound, registered>>
    BY <1>17 DEF Crash
  <2>2. CASE calls[c].pc = "done"
    BY <1>f, <2>1, <2>2 DEF AfterCrash
  <2>3. CASE calls[c].pc = "solved"
    <3>1. calls'[c] = [calls[c] EXCEPT !.fetchedAt = -2]
      BY <2>1, <2>3 DEF AfterCrash
    <3>2. calls'[c].pc = "solved" /\ calls'[c].code = calls[c].code
      BY <1>p, <2>3, <3>1 DEF CallStates
    <3> QED
      BY <1>p, <1>q, <2>3, <3>2, Zenon
  <2>4. CASE calls[c].pc \notin {"done", "solved"}
    <3>1. calls'[c] = Idle
      BY <2>1, <2>4 DEF AfterCrash
    <3>2. Idle.pc = "idle" /\ Idle.code = None
      BY Zenon DEF Idle
    <3> QED
      BY <1>p, <1>q, <3>1, <3>2, Zenon
  <2> QED
    BY <2>2, <2>3, <2>4
<1> QED
  BY <1>1, <1>2, <1>3, <1>5, <1>6, <1>7, <1>9, <1>10, <1>11, <1>12, <1>13, <1>14, <1>15, <1>16,
     <1>17 DEF Next, CallStep
------------------------------------------------------------------------------
(* The inductive invariant: the properties, and what a step of another actor*)
(* must not disturb for them to last.                                       *)
AdmissionInv ==
  /\ ServerType
  /\ CallsType
  /\ CapacityInv
  /\ KeysInv
  /\ CertInv
  /\ PowInv
  /\ BatchInv
  /\ RoundInv

(* It holds before the first start. *)
LEMMA AdmissionInit ==
  ASSUME Init
  PROVE  AdmissionInv
<1> USE AdmissionConstants
<1>e. 0 \in Epochs
  <2>1. 0 \in 0 .. MaxTime /\ MaxTime \in 0 .. MaxTime
    OBVIOUS
  <2>2. OpenRoundId(MaxTime) \in Nat
    BY <2>1, OpenRoundInEpochs
  <2> QED
    BY <2>2 DEF Epochs
<1>1. ServerType
  <2>1. openRound \in [epoch : Epochs, members : Nat, pending : [Nodes -> Challenges \cup {None}]]
    BY <1>e, Zenon DEF Init, NobodyPending
  <2>2. /\ edits + nips + crashes <= MaxEvents
        /\ pow \in [current : (0 .. MaxEvents) \cup {NoVerifier},
                   previous : (0 .. MaxEvents) \cup {NoVerifier, Empty}]
        /\ now \in 0 .. MaxTime
    BY DEF Init
  <2>3. /\ keyDir \in [KeyFiles -> Keys \cup {Garbage, None}]
        /\ registered \in [Epochs -> [Nodes -> Challenges \cup {None}]]
    BY Zenon DEF Init
  <2> HIDE AdmissionConstants
  <2>4. /\ up \in BOOLEAN /\ closed \in BOOLEAN /\ (up => pow.current # NoVerifier)
        /\ certifier \in Certifiers /\ trusted \subseteq Keys /\ reload = None
        /\ edits \in Nat /\ nips \in Nat /\ crashes \in Nat /\ rotations \in Nat /\ trustedAt \in Nat
        /\ powDb \in {None, [current |-> 0, previous |-> None]}
    BY Zenon DEF Init
  <2> QED
    BY <2>1, <2>2, <2>3, <2>4, Zenon DEF ServerType
<1>i. /\ Idle \in CallStates /\ Idle.pc = "idle" /\ Idle.code = None /\ Idle.params = NoParams
      /\ Idle.age = None
  BY Zenon DEF Idle, CallStates, Codes
<1>c. \A c \in Calls : calls[c] = Idle
  BY Zenon DEF Init
<1>2. CallsType
  BY <1>i, Zenon DEF Init, CallsType, InProgress
<1>3. CapacityInv
  <2>1. PendingNodes = {} /\ \A e \in Epochs : Members(e) = {}
    BY Zenon DEF Init, PendingNodes, Members, NobodyPending
  <2>2. Cardinality({}) = 0
    BY FS_EmptySet
  <2>3. ~up /\ openRound.members = 0
    BY Zenon DEF Init
  <2>4. MaxMembers \in Nat /\ 0 + 0 <= MaxMembers
    OBVIOUS
  <2>5. \A e \in Epochs : Cardinality(Members(e)) <= MaxMembers
    <3> SUFFICES ASSUME NEW e \in Epochs PROVE Cardinality(Members(e)) <= MaxMembers
      OBVIOUS
    <3>1. Cardinality(Members(e)) = 0
      BY <2>1, <2>2
    <3> HIDE AdmissionConstants
    <3> QED
      BY <2>4, <3>1
  <2>6. openRound.members + Cardinality(PendingNodes) <= MaxMembers
    <3>1. Cardinality(PendingNodes) = 0
      BY <2>1, <2>2
    <3> HIDE AdmissionConstants
    <3> QED
      BY <2>3, <2>4, <3>1
  <2> HIDE AdmissionConstants
  <2> QED
    BY <2>3, <2>5, <2>6 DEF CapacityInv
<1>4. KeysInv
  BY DEF Init, KeysInv, ReloadIsComplete
<1>5. CertInv
  BY <1>c, <1>i, Zenon DEF CertInv, Certified, InProgress
<1>6. PowInv
  BY <1>c, <1>i, Zenon DEF PowInv, HasGrace
<1>7. BatchInv
  BY Zenon DEF Init, BatchInv, PendingNodes, NobodyPending
<1>8. RoundInv
  BY <1>c, <1>i, Zenon DEF RoundInv, Promised
<1> QED
  BY <1>1, <1>2, <1>3, <1>4, <1>5, <1>6, <1>7, <1>8 DEF AdmissionInv

(* The invariant holds of every behaviour, for any calls, requests, keys,   *)
(* configurations, sizes of a round and numbers of edits, rotations and     *)
(* crashes.                                                                 *)
THEOREM AdmissionInvariant == Spec => []AdmissionInv
<1>1. Init => AdmissionInv
  BY AdmissionInit
<1>2. AdmissionInv /\ [Next]_vars => AdmissionInv'
  BY ServerTypeStep, CallsTypeStep, CapacityStep, KeysStep, CertStep, PowStep, BatchStep, RoundStep
  DEF AdmissionInv
<1> QED
  BY <1>1, <1>2, PTL DEF Spec

(* TypeOK: state stays in its types, and the open round never counts more   *)
(* than maxMembers.                                                         *)
THEOREM AdmissionTyped == Spec => []TypeOK
<1>1. AdmissionInv => TypeOK
  <2> SUFFICES ASSUME AdmissionInv PROVE TypeOK
    OBVIOUS
  <2>1. openRound.members \in 0 .. MaxMembers
    <3>1. openRound.members \in Nat /\ Cardinality(PendingNodes) \in Nat
      BY CountNodes, Zenon DEF AdmissionInv, ServerType, PendingNodes
    <3> QED
      BY <3>1, AdmissionConstants DEF AdmissionInv, CapacityInv
  <2>2. \A c \in Calls : calls[c].pc \in {"idle", "solved", "done"} \cup InProgress
    BY DEF AdmissionInv, CallsType, CallStates
  <2>3. reload # None => reload.left \subseteq KeyFiles /\ reload.loaded \subseteq Keys
    BY Zenon DEF AdmissionInv, ServerType
  <2>4. /\ pow.current \in (0 .. MaxEvents) \cup {NoVerifier}
        /\ pow.previous \in (0 .. MaxEvents) \cup {NoVerifier, Empty}
    BY Zenon DEF AdmissionInv, ServerType
  <2>5. openRound.epoch \in Epochs /\ openRound.pending \in [Nodes -> Challenges \cup {None}]
    BY Zenon DEF AdmissionInv, ServerType
  <2> QED
    BY <2>1, <2>2, <2>3, <2>4, <2>5, Zenon DEF AdmissionInv, ServerType, TypeOK
<1> QED
  BY <1>1, AdmissionInvariant, PTL

(* ReloadIsComplete: LoadTrustedKeys replaces the keys only by all it found,*)
(* so a walk that fails half way leaves no part of it behind.               *)
THEOREM ReloadsAreWhole == Spec => []ReloadIsComplete
<1>1. AdmissionInv => ReloadIsComplete
  BY DEF AdmissionInv, KeysInv
<1> QED
  BY <1>1, AdmissionInvariant, PTL

(* AdmittedIsCertified: verifyCert may use keys that a reload has just      *)
(* dropped, but never one that was not trusted during the call, nor another *)
(* node's or an expired certificate.                                        *)
THEOREM OnlyTheCertified == Spec => []AdmittedIsCertified
<1>1. AdmissionInv => AdmittedIsCertified
  BY Zenon DEF AdmissionInv, CertInv, Certified, AdmittedIsCertified
<1> QED
  BY <1>1, AdmissionInvariant, PTL

(* AdmittedHasWorked: without a certificate only a hash below 2^(16 -       *)
(* difficulty) passes verifyPow, whole bytes and remaining bits.            *)
THEOREM OnlyTheWorked == Spec => []AdmittedHasWorked
<1>1. AdmissionInv => AdmittedHasWorked
  BY Zenon DEF AdmissionInv, CertInv, Certified, AdmittedHasWorked
<1> QED
  BY <1>1, AdmissionInvariant, PTL

(* PowGrace: powVerifiers accept the params of one rotation ago, so a caller*)
(* is refused only after two rotations or a restart.                        *)
THEOREM GraceOfOneRotation == Spec => []PowGrace
<1>1. AdmissionInv => PowGrace
  BY Zenon DEF AdmissionInv, PowInv, HasGrace, PowGrace
<1> QED
  BY <1>1, AdmissionInvariant, PTL

(* AnswerIsTrue: a successful Submit names a round that ends by the deadline*)
(* and in whose database the challenge is, however flushes, other calls, the*)
(* close of the round and crashes interleave.                               *)
THEOREM AnswersAreTrue == Spec => []AnswerIsTrue
<1>1. AdmissionInv => AnswerIsTrue
  BY Zenon DEF AdmissionInv, RoundInv, Promised, Kept, AnswerIsTrue
<1> QED
  BY <1>1, AdmissionInvariant, PTL
------------------------------------------------------------------------------
(* What becomes of the members of a round *)

(* A step writes nothing but the batch of the open round to its database. *)
OnlyTheBatch ==
  \A e \in Epochs, n \in Nodes :
    \/ registered'[e][n] = registered[e][n]
    \/ e = openRound.epoch /\ n \in PendingNodes

(* Only a flush writes to a database. *)
LEMMA WhatIsWritten ==
  ASSUME ServerType, [Next]_vars
  PROVE  OnlyTheBatch
<1> USE DEF keyVars, powVars, roundVars, OnlyCalls
<1>f. ASSUME registered' = registered PROVE OnlyTheBatch
  BY <1>f, Zenon DEF OnlyTheBatch
<1>w. ASSUME NEW written \in BOOLEAN, FlushInto(written) PROVE OnlyTheBatch
  <2>1. CASE ~written
    BY <1>f, <1>w, <2>1 DEF FlushInto
  <2>2. CASE written
    <3> SUFFICES ASSUME NEW e \in Epochs, NEW n \in Nodes
                 PROVE  \/ registered'[e][n] = registered[e][n]
                        \/ e = openRound.epoch /\ n \in PendingNodes
      BY DEF OnlyTheBatch
    <3>1. registered' = [registered EXCEPT ![openRound.epoch] =
            [m \in Nodes |-> IF m \in PendingNodes THEN openRound.pending[m]
                             ELSE registered[openRound.epoch][m]]]
      BY <1>w, <2>2 DEF FlushInto
    <3>2. registered \in [Epochs -> [Nodes -> Challenges \cup {None}]]
      BY Zenon DEF ServerType
    <3> QED
      BY <3>1, <3>2
  <2> QED
    BY <2>1, <2>2
<1>1. CASE ReloadStep
  BY <1>f, <1>1, Zenon DEF ReloadStep, ReadKeyFile, InstallKeys, ReloadFails
<1>2. CASE StartReload \/ RotatePow \/ Tick \/ UNCHANGED vars \/ Crash \/ New
  BY <1>f, <1>2, Zenon DEF StartReload, RotatePow, Tick, vars, Crash, New
<1>3. ASSUME NEW f \in KeyFiles, NEW content \in Keys \cup {Garbage, None}, EditKeyDir(f, content)
      PROVE  OnlyTheBatch
  BY <1>3, <1>f DEF EditKeyDir
<1>4. ASSUME NEW c \in Calls, PowParams(c) \/ LookupKeys(c) \/ CancelSubmit(c) \/ CheckPow(c)
                              \/ VerifyWithConfigured(c) \/ CheckKeys(c) \/ AnswerSubmit(c)
                              \/ Register(c)
      PROVE  OnlyTheBatch
  <2>1. registered' = registered
    BY <1>4, Zenon DEF PowParams, LookupKeys, CancelSubmit, CheckPow, VerifyWithConfigured,
       CheckKeys, AnswerSubmit, Register
  <2> QED
    BY <1>f, <2>1
<1>5. ASSUME NEW c \in Calls, NEW req \in Requests, Receive(c, req) PROVE OnlyTheBatch
  BY <1>5, <1>f DEF Receive
<1>6. ASSUME NEW other \in Others, OtherSubmit(other[1], other[2]) PROVE OnlyTheBatch
  BY <1>6, <1>f DEF OtherSubmit
<1>7. CASE Flush \/ closeRound \/ closeRoundFails
  BY <1>7, <1>w, Zenon DEF Flush, FlushBatch, closeRound, closeRoundFails
<1> QED
  BY <1>1, <1>2, <1>3, <1>4, <1>5, <1>6, <1>7 DEF Next, CallStep

(* round.submit refuses another challenge for a node that is registered, in *)
(* the database or in the batch, so a flush overwrites nobody: the challenge*)
(* of a member never changes, over batches, closings, crashes and restarts. *)
THEOREM RegistrationsAreFinal ==
  Spec => [][\A e \in Epochs, n \in Nodes :
               registered[e][n] # None => registered'[e][n] = registered[e][n]]_vars
<1>1. AdmissionInv /\ [Next]_vars =>
        [\A e \in Epochs, n \in Nodes :
           registered[e][n] # None => registered'[e][n] = registered[e][n]]_vars
  <2> SUFFICES ASSUME AdmissionInv, [Next]_vars, NEW e \in Epochs, NEW n \in Nodes,
                      registered[e][n] # None
               PROVE  registered'[e][n] = registered[e][n]
    OBVIOUS
  <2>1. \/ registered'[e][n] = registered[e][n]
        \/ e = openRound.epoch /\ n \in PendingNodes
    BY WhatIsWritten DEF AdmissionInv, OnlyTheBatch
  <2>2. n \in PendingNodes => registered[openRound.epoch][n] = None
    BY Zenon DEF AdmissionInv, BatchInv
  <2> QED
    BY <2>1, <2>2, Zenon
<1> QED
  BY <1>1, AdmissionInvariant, PTL DEF Spec

(* maxMembers bounds the database of every round and not only the counter   *)
(* of the open one, also when newRound opens a database again and counts its*)
(* members anew, and when failed flushes were counted.                      *)
THEOREM RoundsHoldTheirSize ==
  Spec => [](\A e \in Epochs : Cardinality(Members(e)) <= MaxMembers)
<1>1. AdmissionInv => \A e \in Epochs : Cardinality(Members(e)) <= MaxMembers
  BY Zenon DEF AdmissionInv, CapacityInv
<1> QED
  BY <1>1, AdmissionInvariant, PTL

(* The open round is none of the future. *)
NotAhead == openRound.epoch <= OpenRoundId(now)

(* A step keeps the open round or opens the round of the moment. *)
RoundOfTheMoment ==
  \/ openRound'.epoch = openRound.epoch /\ now' \in {now, now + 1}
  \/ openRound'.epoch = OpenRoundId(now) /\ now' = now

(* Only newRound opens another one. *)
LEMMA OpenRoundMoves ==
  ASSUME ServerType, CallsType, [Next]_vars
  PROVE  RoundOfTheMoment
<1> USE DEF keyVars, powVars, roundVars, OnlyCalls
<1>f. ASSUME openRound'.epoch = openRound.epoch, now' \in {now, now + 1} PROVE RoundOfTheMoment
  BY <1>f, Zenon DEF RoundOfTheMoment
<1>n. ASSUME NEW db, newRound(db), now' = now PROVE RoundOfTheMoment
  BY <1>n DEF newRound, RoundOfTheMoment
<1>1. CASE ReloadStep
  BY <1>f, <1>1, Zenon DEF ReloadStep, ReadKeyFile, InstallKeys, ReloadFails
<1>2. CASE StartReload \/ RotatePow \/ Tick \/ UNCHANGED vars \/ Crash
  BY <1>f, <1>2, Zenon DEF StartReload, RotatePow, Tick, vars, Crash
<1>3. ASSUME NEW f \in KeyFiles, NEW content \in Keys \cup {Garbage, None}, EditKeyDir(f, content)
      PROVE  RoundOfTheMoment
  BY <1>3, <1>f DEF EditKeyDir
<1>4. ASSUME NEW c \in Calls, PowParams(c) \/ LookupKeys(c) \/ CancelSubmit(c) \/ CheckPow(c)
                              \/ VerifyWithConfigured(c) \/ CheckKeys(c) \/ AnswerSubmit(c)
      PROVE  RoundOfTheMoment
  <2>1. UNCHANGED <<openRound, now>>
    BY <1>4, Zenon DEF PowParams, LookupKeys, CancelSubmit, CheckPow, VerifyWithConfigured,
       CheckKeys, AnswerSubmit
  <2> QED
    BY <1>f, <2>1
<1>5. ASSUME NEW c \in Calls, Register(c) PROVE RoundOfTheMoment
  <2>1. now' = now /\ calls[c].pc \in InProgress
    BY <1>5 DEF Register, InProgress
  <2>2. calls[c].req.node \in Nodes /\ calls[c].req.challenge \in Challenges
    BY <2>1, RequestsAreTyped, Zenon DEF CallsType
  <2>3. openRound' = openRound \/ Put(calls[c].req.node, calls[c].req.challenge)
    BY <1>5, Submitted, Zenon
  <2>4. openRound'.epoch = openRound.epoch
    BY <2>2, <2>3, PutInBatch, Zenon
  <2> QED
    BY <1>f, <2>1, <2>4
<1>6. ASSUME NEW c \in Calls, NEW req \in Requests, Receive(c, req) PROVE RoundOfTheMoment
  BY <1>6, <1>f DEF Receive
<1>7. ASSUME NEW other \in Others, OtherSubmit(other[1], other[2]) PROVE RoundOfTheMoment
  BY <1>7, <1>f, PutInBatch, AdmissionConstants DEF OtherSubmit
<1>8. CASE Flush \/ closeRoundFails
  BY <1>8, <1>f DEF Flush, closeRoundFails, FlushBatch, ServerType
<1>9. CASE closeRound \/ New
  BY <1>9, <1>n DEF closeRound, New
<1> QED
  BY <1>1, <1>2, <1>3, <1>4, <1>5, <1>6, <1>7, <1>8, <1>9 DEF Next, CallStep

(* closeRound and New open the round of the moment, and the clock never     *)
(* steps back: once a later round is open nobody joins a round any more, and*)
(* it is never opened again, also not by a restart.                         *)
THEOREM ClosedRoundsAreFinal ==
  Spec => [][\A e \in Epochs : e < openRound.epoch =>
               registered'[e] = registered[e] /\ e < openRound'.epoch]_vars
<1>1. Init => NotAhead
  <2>1. 0 \in 0 .. MaxTime
    BY AdmissionConstants
  <2>2. OpenRoundId(0) \in Nat
    BY <2>1, OpenRoundInOrder
  <2> QED
    BY <2>2 DEF Init, NotAhead
<1>2. ASSUME AdmissionInv, NotAhead, [Next]_vars
      PROVE  NotAhead' /\ openRound.epoch <= openRound'.epoch
  <2>1. now \in Nat /\ now + 1 \in Nat /\ openRound.epoch \in Nat
    BY <1>2, OpenRoundInEpochs DEF AdmissionInv, ServerType
  <2>2. /\ OpenRoundId(now) \in Nat /\ OpenRoundId(now + 1) \in Nat
        /\ OpenRoundId(now) <= OpenRoundId(now + 1)
    BY <2>1, OpenRoundInOrder
  <2>3. \/ openRound'.epoch = openRound.epoch /\ now' \in {now, now + 1}
        \/ openRound'.epoch = OpenRoundId(now) /\ now' = now
    BY <1>2, OpenRoundMoves DEF AdmissionInv, RoundOfTheMoment
  <2> QED
    BY <1>2, <2>1, <2>2, <2>3 DEF NotAhead
<1>3. ASSUME AdmissionInv, NotAhead, [Next]_vars, NEW e \in Epochs, e < openRound.epoch
      PROVE  registered'[e] = registered[e] /\ e < openRound'.epoch
  <2>1. e \in Nat /\ openRound.epoch \in Nat /\ openRound'.epoch \in Nat
    BY <1>3, OpenRoundInEpochs, ServerTypeStep DEF AdmissionInv, ServerType
  <2>2. openRound.epoch <= openRound'.epoch
    BY <1>2, <1>3
  <2>3. \A n \in Nodes : registered'[e][n] = registered[e][n]
    BY <1>3, <2>1, WhatIsWritten DEF AdmissionInv, OnlyTheBatch
  <2>4. registered[e] \in [Nodes -> Challenges \cup {None}]
        /\ registered'[e] \in [Nodes -> Challenges \cup {None}]
    BY <1>3, ServerTypeStep DEF AdmissionInv, ServerType
  <2> QED
    BY <1>3, <2>1, <2>2, <2>3, <2>4
<1>4. AdmissionInv /\ NotAhead /\ [Next]_vars => NotAhead'
  BY <1>2
<1>5. AdmissionInv /\ NotAhead /\ [Next]_vars =>
        [\A e \in Epochs : e < openRound.epoch =>
           registered'[e] = registered[e] /\ e < openRound'.epoch]_vars
  BY <1>3
<1> QED
  BY <1>1, <1>4, <1>5, AdmissionInvariant, PTL DEF Spec
==============================================================================
