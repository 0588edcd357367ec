SPECIFICATION Spec
CONSTANTS
  e1 = e1
  e2 = e2
  e3 = e3
  last = last
  others = {m1, m2, m3, m4, m5, m6, m7, m8, m9}
  NoEntry = NoEntry
  Entry = {e1, e2, e3, m1, m2, m3, m4, m5, m6, m7, m8, m9, last}
  Graphs <- SomeGraphs
  Histories <- SomeHistories
  Displays <- SomeDisplays
  TitleChars = 60
  Timeouts = {0, 1, 3}
INVARIANTS UnattendedIsDecision

CHECK_DEADLOCK FALSE
