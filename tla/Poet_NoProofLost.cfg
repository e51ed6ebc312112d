SPECIFICATION Spec
CONSTANTS
  EpochDuration = 4
  PhaseShift = 1
  CycleGap = 2
  None = None
  StartTime = 0
  MaxTime = 9
  Members = {m}
  MaxCrashes = 0
  MaxInterrupts = 1
  MaxFailures = 0
  MaxFaults = 1
  MaxSwitches = 0
  Punctual = TRUE
  MaxProvingTime = 1
INVARIANTS NoProofLost
CHECK_DEADLOCK FALSE
