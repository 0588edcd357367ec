SPECIFICATION Spec
CONSTANTS
  MyBoot = 1
  Foreign <- MCForeign
  Entries = {e1, e2}
  Absent = Absent
  Garbled = Garbled
  MaxFaults = 3
  MaxDrifts = 1
  MaxRequests = 2
INVARIANTS
  TypeOK
  OthersKeepTheirOrder
  RestoreUndoes
  OneShotFiresOnce
PROPERTIES
  DriftIsRepaired
