SPECIFICATION FairSpec
CONSTANTS
  e1 = e1
  e2 = e2
  e3 = e3
  NoEntry = NoEntry
  NoMarker = NoMarker
  Garbled = Garbled
  Entry = {e1, e2, e3}
  Graphs <- ThreeMachines
  Configured = e1
  Strategy = "LastGoodThenDefault"
  Attended = TRUE
  Reliable = FALSE
  Blessers = {"myboot", "firmware"}
  NamedBless = TRUE
INVARIANTS LastGoodIsVouched GivesUpLast
PROPERTIES PowerOnResolves
