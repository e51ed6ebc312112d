SPECIFICATION FairSpec
CONSTANTS
  Keys = {k1, k2, k3}
  Challenges = {a}
  Calls = {c1, c2, c3}
  None = None
  MaxMembers = 3
  MaxBatchSize = 2
  MaxCrashes = 0
  MaxReadErrors = 0
PROPERTIES CallAnswered
CHECK_DEADLOCK FALSE
