---------------------------- MODULE RoundSchedule ----------------------------
(***************************************************************************)
(* The calendar of rounds (server/config.go, RoundConfig).  Times and      *)
(* durations are integers; genesis is time 0.                              *)
(***************************************************************************)
EXTENDS Integers

CONSTANTS EpochDuration, PhaseShift, CycleGap

ASSUME ScheduleConstants ==
  /\ EpochDuration \in Nat \ {0}
  /\ PhaseShift \in Nat
  /\ CycleGap \in Nat
  /\ CycleGap <= EpochDuration

RoundStart(epoch) == PhaseShift + EpochDuration * epoch

RoundEnd(epoch) == RoundStart(epoch) + EpochDuration - CycleGap

OpenRoundId_RoundsUp(when) ==
  IF when < PhaseShift THEN 0
  ELSE (when - PhaseShift + EpochDuration - 1) \div EpochDuration

(* The id of the round that is open for registration at a point in time. *)
OpenRoundId(when) ==
  IF when < PhaseShift THEN 0 ELSE (when - PhaseShift) \div EpochDuration + 1
==============================================================================
