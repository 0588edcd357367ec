SPECIFICATION Spec
CONSTANTS
  e1 = e1
  e2 = e2
  e3 = e3
  e4 = e4
  NoEntry = NoEntry
  Entry = {e1, e2, e3, e4}
  Graphs <- OneGraph
  MaxTries = 2
  Seeds = {0, 1, 3}
INVARIANTS TypeOK AttemptLedger CommitFollowsLaunch RecoveryIsLastResort
PROPERTIES NoEndlessRun ImplementsContract
CHECK_DEADLOCK FALSE
