SPECIFICATION FairSpec
CONSTANTS
  Nil = Nil
  Migrators = {a, b}
  a = a
  b = b
  Columns <- MCColumns
  Indexed = {3}
  Rebuilds = {5}
  MaxFaults = 1
  MaxCrashes = 1
INVARIANTS
  RecordedApplied
  RecordedInOrder
  DoneMeansAll
  FilledUnlessLegacy
PROPERTY
  Converges
CHECK_DEADLOCK FALSE
