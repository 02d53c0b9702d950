SPECIFICATION Spec
CONSTANTS
  Nil = Nil
  DeviceIDs = {1, 2}
  MaxRadius = 2
  DeviceBatchSize = 1
  Lookback = 3
  MinDwell = 2
  Arrivals <- MCArrivals
  ManualWindows <- MCWindows
  ManualDwells = {2}
  MaxSeq = 3
  MaxGenerates = 1
  MaxRestarts = 1
  MaxFaults = 1
INVARIANTS
  VisitStartsUnique
  VisitsBacked
  CaughtUp
  OverlapOnlyAtCut
  ServedInTurn
CHECK_DEADLOCK FALSE
