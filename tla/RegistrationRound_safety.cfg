SPECIFICATION Spec
CONSTANTS
  Keys = {k1, k2, k3}
  Challenges = {a, b}
  Calls = {c1, c2, c3}
  None = None
  MaxMembers = 2
  MaxBatchSize = 2
  MaxCrashes = 2
  MaxReadErrors = 1
SYMMETRY Symmetry
INVARIANTS AckDurable RootCoversAcks CapacityRespected FlushScheduled RoundInv
PROPERTIES RootStable ImplementsRegistry
CHECK_DEADLOCK FALSE
