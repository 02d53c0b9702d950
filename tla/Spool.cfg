SPECIFICATION SpoolSpec
CONSTANTS
  p1 = p1
  p2 = p2
  c1 = c1
  NoCaller = NoCaller
  Points <- MCPoints
  Devices <- MCDevices
  NameOf <- MCNameOf
  DeviceOf <- MCDeviceOf
  Bytes <- MCBytes
  MarkerBytes = 1
  Batches <- MCBatches
  NearPairs <- MCNearPairs
  Callers = {c1}
  FSyncMode = "always"
  SpoolFaults = {"open", "write", "fsync", "checkpoint", "remove"}
  MaxSeq = 3
  MaxRestarts = 1
  MaxPowerLosses = 1
  MaxFaults = 1
INVARIANTS
  ReplayComplete
  ReplayAscending
  SegmentNameBounds
  SealedSegmentsSynced
PROPERTIES
  CheckpointMonotone
