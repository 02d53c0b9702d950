SPECIFICATION Spec
CONSTANTS
  a1 = a1
  a2 = a2
  b1 = b1
  h1 = h1
  h2 = h2
  flusher = flusher
  NoCaller = NoCaller
  NoPoint = NoPoint
  Points <- MCPoints
  Devices <- MCDevices
  NameOf <- MCNameOf
  DeviceOf <- MCDeviceOf
  Bytes <- MCBytes
  MarkerBytes = 1
  Batches <- SingleBatches
  NearPairs <- MCNearPairs
  Callers = {h1, h2, flusher}
  Handlers = {h1, h2}
  FlusherCaller = flusher
  FSyncMode = "low-wear"
  SpoolFaults = {}
  StoreFails = FALSE
  ShutdownTimeouts = FALSE
  MaxSeq = 2
  MaxRestarts = 0
  MaxPowerLosses = 0
  MaxFaults = 0
  MaxRequests = 2
  BufferMaxPoints = 2
  BufferMaxBytes = 6
  FlushBatchSize = 1
  FlushTriggerPoints = 2
  FlushTriggerBytes = 0
  MaxAccepted = 0
INVARIANTS
  CheckpointCovers
