SPECIFICATION Spec
CONSTANTS
  e1 = e1
  e2 = e2
  e3 = e3
  NoEntry = NoEntry
  Entry = {e1, e2, e3}
  NoFile = NoFile
  NoConfig = NoConfig
  Dynamic = {e3}
  TemplateDefault = e2
  Volume = {1, 2}
  Files <- SomeFiles
  ForeignFiles <- OtherFiles
  Requests = {NoEntry, e2}
  Graphs <- EveryGraph
INVARIANTS DecisionIsSound AttemptsAreExhaustive
  AcceptedIsObeyed NoFalseAlarm ConfigurationDecides
CHECK_DEADLOCK FALSE
