SPECIFICATION FifoSpec
CONSTANTS
  a1 = a1
  a2 = a2
  a3 = a3
  b1 = b1
  NoPoint = NoPoint
  Points <- MCPoints
  Devices <- MCDevices
  NameOf <- MCNameOf
  DeviceOf <- MCDeviceOf
  Bytes <- MCBytes
  MarkerBytes = 1
  Batches <- MCBatches
  NearPairs <- MCNearPairs
  BufferMaxPoints = 4
  BufferMaxBytes = 8
  FlushBatchSize = 2
  MaxAccepted = 7
INVARIANTS
  OvershootBounded
  BytesRecover
  FifoAcrossRequeue
