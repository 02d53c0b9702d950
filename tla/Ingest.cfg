SPECIFICATION Spec
CONSTANTS
  a1 = a1
  a2 = a2
  b1 = b1
  h1 = h1
  h2 = h2
  flusher = flusher
  NoCaller = NoCaller
  NoPoint = NoPoint
  Points <- MCPoints
  Devices <- MCDevices
  NameOf <- MCNameOf
  DeviceOf <- MCDeviceOf
  Bytes <- MCBytes
  MarkerBytes = 1
  Batches <- MCBatches
  NearPairs <- MCNearPairs
  Callers = {h1, flusher}
  Handlers = {h1}
  FlusherCaller = flusher
  FSyncMode = "low-wear"
  SpoolFaults = {"write", "checkpoint", "remove"}
  StoreFails = TRUE
  ShutdownTimeouts = TRUE
  MaxSeq = 3
  MaxRestarts = 1
  MaxPowerLosses = 1
  MaxFaults = 1
  MaxRequests = 2
  BufferMaxPoints = 2
  BufferMaxBytes = 2
  FlushBatchSize = 2
  FlushTriggerPoints = 2
  FlushTriggerBytes = 0
  MaxAccepted = 0
PROPERTIES
  ImplementsQueue
  StallLasts
INVARIANTS
  ServerTypeOK
  RecoveredHeld
  AckedRecoverable
  GracefulDrain
  RecoveryGivesUp
