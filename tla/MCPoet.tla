-------------------------------- MODULE MCPoet -------------------------------
(* Poet with a short calendar: with EpochDuration 4, PhaseShift 1 and      *)
(* CycleGap 2 round e runs from 1 + 4e to 3 + 4e.                          *)
EXTENDS Poet
==============================================================================
