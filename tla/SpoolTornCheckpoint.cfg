SPECIFICATION SpoolSpec
CONSTANTS
  p1 = p1
  p2 = p2
  c1 = c1
  NoCaller = NoCaller
  Points <- MCPoints
  Devices <- MCDevices
  NameOf <- MCNameOf
  DeviceOf <- MCDeviceOf
  Bytes <- MCBytes
  MarkerBytes = 1
  Batches <- MCBatches
  NearPairs <- MCNearPairs
  Callers = {c1}
  FSyncMode = "balanced"
  SpoolFaults = {}
  MaxSeq = 3
  MaxRestarts = 1
  MaxPowerLosses = 0
  MaxFaults = 0
INVARIANTS
  RestartReplayable
