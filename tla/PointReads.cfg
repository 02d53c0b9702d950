SPECIFICATION Spec
CONSTANTS
  Nil = Nil
  DeviceIDs = {1, 2}
  Owner <- MCOwner
  Reader = 1
  Arrivals <- MCArrivals
  MaxSeq = 4
  Requests <- MCRequests
  MaxPointsLimit = 2
  MaxSimplifiedPointsLimit = 4
  ListPointsCap = 3
  MaxExportLimit = 2
  RecentCap = 2
INVARIANTS
  ListingComplete
  ListingOnce
  SampleSpread
  OwnPointsOnly
  ExportWhole
  ExportOrdered
  RecentNewest
CHECK_DEADLOCK FALSE
