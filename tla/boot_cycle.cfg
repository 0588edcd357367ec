SPECIFICATION FairSpec
CONSTANTS
  e1 = e1
  e2 = e2
  e3 = e3
  NoEntry = NoEntry
  NoMarker = NoMarker
  Garbled = Garbled
  Entry = {e1, e2, e3}
  Graphs <- ThreeMachines
  Configured = e1
  Strategy = "LastGoodThenDefault"
  Attended = TRUE
  Reliable = TRUE
  Blessers = {"myboot"}
  NamedBless = FALSE
INVARIANTS TypeOK HandoffIsOnRecord LastGoodIsEarned
PROPERTIES ConfirmationIsRecorded
