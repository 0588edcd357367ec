SPECIFICATION ShellSpec
CONSTANTS
  n = n
  g = g
  u = u
  s = s
  c = c
  ok = ok
  bad = bad
  Confirmed <- Word1
  Failed <- Word2
  Dash <- NoWord
  Digit <- Digits
  Tab = Tab
  Newline = Newline
  Lead = Lead
  Trail = Trail
  NoFile = NoFile
  MaxNumber = 99
  MaxDigits = 2
  Symbol <- Symbols
  Nothing = Nothing
  Records <- SomeRecords
  FirstSeqs = {1, 9}
  MaxRecords = 4
  MaxTorn = 1
  Graphs <- SomeGraphs
  Selectors <- SomeSelectors
INVARIANTS PartialWritesAreConfined SelectorMeansOneEntry
