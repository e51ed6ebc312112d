---------------------------- MODULE RoundRegistry ----------------------------
(***************************************************************************)
(* What one registration round promises to the nodes that submit to it,    *)
(* with no batches, timers, mutexes or processes in sight:                 *)
(*                                                                         *)
(*  - a key is registered at most once and its challenge never changes;    *)
(*  - a round holds at most MaxMembers keys;                               *)
(*  - a call is answered "ok" only when its own challenge is registered;   *)
(*  - "already" and "conflict" are answered only when another call asked   *)
(*    for the same, respectively for another, challenge under that key;    *)
(*  - once the membership root is fixed the registered set is frozen; a    *)
(*    root computed later is the same, or the empty one.                   *)
(*                                                                         *)
(* The bound and the roots are only promised while the store is reliable,  *)
(* that is, as long as every reading of the registered set was complete.   *)
(*                                                                         *)
(* RegistrationRound implements this specification.                        *)
(***************************************************************************)
EXTENDS Integers, FiniteSets

CONSTANTS
  Keys,        \* node ids, the keys of the round's database
  Challenges,  \* the challenges nodes register
  Calls,       \* one identifier per Submit call
  None,        \* stands for "nothing here"
  MaxMembers   \* maxMembers of the round

VARIABLES
  registered,  \* key -> registered challenge, or None
  roundRoot,   \* the registered set the membership root was computed from
  reliable,    \* whether every reading of the registered set was complete
  calls        \* call -> [key, challenge, status]

vars == <<registered, roundRoot, reliable, calls>>

(* "waiting" is the only status that still changes. *)
Statuses == {"idle", "waiting", "ok", "already", "conflict", "full", "failed",
             "cancelled", "lost"}

Asked(c) == calls[c].status # "idle"

Init ==
  /\ registered = [k \in Keys |-> None]
  /\ roundRoot = None
  /\ reliable = TRUE
  /\ calls = [c \in Calls |-> [key |-> None, challenge |-> None, status |-> "idle"]]

(* A call arrives.  It is refused at once, told that its key is taken, or  *)
(* left waiting.                                                           *)
Ask(c, k, ch, status) ==
  /\ ~Asked(c)
  /\ status \in {"waiting", "full", "failed", "already", "conflict"}
  /\ status = "already" =>
       \E d \in Calls : Asked(d) /\ calls[d].key = k /\ calls[d].challenge = ch
  /\ status = "conflict" =>
       \E d \in Calls : Asked(d) /\ calls[d].key = k /\ calls[d].challenge # ch
  /\ calls' = [calls EXCEPT ![c] = [key |-> k, challenge |-> ch, status |-> status]]
  /\ UNCHANGED <<registered, roundRoot, reliable>>

(* Some unregistered keys become members, each with a challenge asked for. *)
Store ==
  /\ roundRoot = None
  /\ registered' \in [Keys -> Challenges \cup {None}]
  /\ \A k \in Keys :
       \/ registered'[k] = registered[k]
       \/ /\ registered[k] = None
          /\ \E c \in Calls : /\ Asked(c)
                              /\ calls[c].key = k
                              /\ calls[c].challenge = registered'[k]
  /\ reliable => Cardinality({k \in Keys : registered'[k] # None}) <= MaxMembers
  /\ UNCHANGED <<roundRoot, reliable, calls>>

(* A waiting call is answered; "ok" only for a member. *)
Answer(c, status) ==
  /\ calls[c].status = "waiting"
  /\ status \in {"ok", "failed", "cancelled"}
  /\ status = "ok" => registered[calls[c].key] = calls[c].challenge
  /\ calls' = [calls EXCEPT ![c].status = status]
  /\ UNCHANGED <<registered, roundRoot, reliable>>

(* The process stops: no waiting call is ever answered. *)
LoseCalls ==
  /\ calls' = [c \in Calls |->
                 IF calls[c].status = "waiting"
                 THEN [calls[c] EXCEPT !.status = "lost"] ELSE calls[c]]
  /\ UNCHANGED <<registered, roundRoot, reliable>>

(* The root is taken from all that is registered.  Taken once more, it may *)
(* also be the root of nobody.                                             *)
Seal ==
  /\ \/ roundRoot' = registered
     \/ roundRoot # None /\ roundRoot' = [k \in Keys |-> None]
  /\ UNCHANGED <<registered, reliable, calls>>

(* A part of what is registered is missed: in a count, or in a root. *)
Misread ==
  /\ reliable' = FALSE
  /\ \/ UNCHANGED roundRoot
     \/ roundRoot' \in {[k \in Keys |-> IF k \in S THEN registered[k] ELSE None] :
                          S \in SUBSET Keys}
  /\ UNCHANGED <<registered, calls>>

Next ==
  \/ \E c \in Calls, k \in Keys, ch \in Challenges, s \in Statuses : Ask(c, k, ch, s)
  \/ Store
  \/ \E c \in Calls, s \in Statuses : Answer(c, s)
  \/ LoseCalls
  \/ Seal
  \/ Misread

Spec == Init /\ [][Next]_vars
==============================================================================
