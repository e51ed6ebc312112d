------------------------------ MODULE ProvenWork -----------------------------
(***************************************************************************)
(* What a round's execution promises, whatever happens to the process: the *)
(* work done is a growing number of leaves, of which a crash loses no more *)
(* than what was not kept; the proof is made once, of all the work, and    *)
(* not before there are securityParam leaves.                              *)
(***************************************************************************)
EXTENDS Naturals

CONSTANTS None, SecurityParam

VARIABLES
  work,    \* leaves so far
  kept,    \* leaves that survive a crash
  proven   \* leaves the proof is about, or None

workVars == <<work, kept, proven>>

Init ==
  /\ work = 0
  /\ kept = 0
  /\ proven = None

Extend ==
  /\ work' = work + 1
  /\ UNCHANGED kept

Keep ==
  /\ kept' = work
  /\ UNCHANGED work

Lose ==
  /\ work' = kept
  /\ UNCHANGED kept

Finish ==
  /\ work >= SecurityParam
  /\ kept' = work
  /\ proven' = work
  /\ UNCHANGED work

Next ==
  /\ proven = None
  /\ \/ (Extend \/ Keep \/ Lose) /\ UNCHANGED proven
     \/ Finish

Spec == Init /\ [][Next]_workVars
==============================================================================
