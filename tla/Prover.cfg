CONSTANTS
  None = None
  SecurityParam = 3
  CheckpointRate = 4
  MinMemoryLayers = {0, 2, 3, 9}
  MaxLeaves = 10
  MaxStops = 3
SPECIFICATION Spec
INVARIANTS
  TypeOK
  TreeCanonical
  CheckpointDurable
  FailsOnlyWithoutNodes
  ProofVerifies
PROPERTIES
  ExecutionEnds
  ImplementsProvenWork
CHECK_DEADLOCK FALSE
