SPECIFICATION Spec
CONSTANTS
  None = None
  Invalid = Invalid
  ConfigFiles <- MCConfigFiles
  CommandLines <- MCCommandLines
  Rounds <- MCRounds
  Records = {r1, r2}
  Keys = {s1, s2}
  MaxCrashes = 2
  MaxErrors = 1
  MaxReadErrors = 1
INVARIANTS TypeOK NoRecordLost RunsOnAllRecords StartSucceeds
PROPERTIES KeyIsStable
CHECK_DEADLOCK FALSE
