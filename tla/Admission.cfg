SPECIFICATION Spec
CONSTANTS
  None = None
  Garbage = Garbage
  k1 = k1
  k2 = k2
  n1 = n1
  n2 = n2
  x = x
  y = y
  EpochDuration = 2
  PhaseShift = 1
  CycleGap = 1
  Calls = {c}
  Nodes = {n1, n2}
  Challenges = {x, y}
  Keys = {k1, k2}
  HintOf <- MCHintOf
  Certifiers <- MCCertifiers
  Requests <- MCRequests
  Others <- MCOthers
  KeyFiles = {f}
  Difficulty = 11
  MaxMembers = 2
  MaxTime = 1
  MaxEvents = 2
INVARIANTS TypeOK ReloadIsComplete AdmittedIsCertified PowGrace AnswerIsTrue AdmittedHasWorked
PROPERTY CallAnswered
CHECK_DEADLOCK FALSE
