SPECIFICATION Spec
CONSTANTS
  e1 = e1
  e2 = e2
  e3 = e3
  NoEntry = NoEntry
  NoMarker = NoMarker
  Garbled = Garbled
  Entry = {e1, e2}
  Graphs <- OneMachine
  Configured = e1
  Strategy = "LastGoodThenDefault"
  Attended = TRUE
  Reliable = TRUE
  Blessers = {"myboot", "firmware"}
  NamedBless = FALSE
INVARIANTS LastGoodIsEarned
