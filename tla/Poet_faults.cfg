SPECIFICATION Spec
CONSTANTS
  EpochDuration = 4
  PhaseShift = 1
  CycleGap = 2
  None = None
  StartTime = 0
  MaxTime = 8
  Members = {m}
  MaxCrashes = 2
  MaxInterrupts = 1
  MaxFailures = 1
  MaxFaults = 3
  MaxSwitches = 1
  Punctual = FALSE
  MaxProvingTime = 3
INVARIANTS PoetInv ProofCoversMembers StatementCoversMembers OneExecution StartsAfresh ProofRoundReadable
PROPERTIES NoLateSubmission ProofStable
CHECK_DEADLOCK FALSE
