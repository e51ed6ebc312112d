------------------------------- MODULE Runtime -------------------------------
(***************************************************************************)
(* What the registration service and the worker share: the wall clock, the *)
(* context of server.Start, and the in-memory transport between them       *)
(* (transport/memory.go), two Go channels with a buffer of one element.    *)
(***************************************************************************)
EXTENDS RoundSchedule, Sequences

CONSTANTS
  None,          \* nothing
  StartTime,     \* the instant at which a behaviour begins
  MaxTime        \* bound: the last instant of the clock

ASSUME TimeConstants ==
  /\ StartTime \in Nat
  /\ MaxTime \in Nat
  /\ StartTime <= MaxTime

ASSUME NoneIsNoEpoch == None \notin Nat

(* Every epoch that can be open or in progress between the two. *)
Epochs == OpenRoundId(StartTime) .. OpenRoundId(MaxTime)

VARIABLES
  now,           \* the wall clock
  ctxDone,       \* the context of server.Start is cancelled
  closedRounds,  \* chan ClosedRound: registration -> worker
  proofs         \* chan NIP: worker -> registration

channels == <<closedRounds, proofs>>

(* make(chan ..., 1) *)
BufferSize == 1

HasRoom(channel) == Len(channel) < BufferSize

(* ExecuteRound never blocks: it sends, or reports a cancelled context, or, *)
(* when neither is possible, drops the round and reports success.  With    *)
(* both possible Go picks one at random.                                   *)
ExecuteRoundSends(msg) ==
  /\ HasRoom(closedRounds)
  /\ closedRounds' = Append(closedRounds, msg)
  /\ UNCHANGED proofs

ExecuteRoundDrops ==
  /\ ~HasRoom(closedRounds)
  /\ ~ctxDone
  /\ UNCHANGED channels

ExecuteRoundCancelled ==
  /\ ctxDone
  /\ UNCHANGED channels

(* NewProof blocks until it has sent the proof or the context is cancelled. *)
NewProofSends(nip) ==
  /\ HasRoom(proofs)
  /\ proofs' = Append(proofs, nip)
  /\ UNCHANGED closedRounds

NewProofCancelled_Never == FALSE

NewProofCancelled ==
  /\ ctxDone
  /\ UNCHANGED channels

ReceiveClosedRound ==
  /\ closedRounds # <<>>
  /\ closedRounds' = Tail(closedRounds)
  /\ UNCHANGED proofs

ReceiveProof ==
  /\ proofs # <<>>
  /\ proofs' = Tail(proofs)
  /\ UNCHANGED closedRounds
==============================================================================
