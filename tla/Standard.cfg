SPECIFICATION Spec
CONSTANTS
  Messages <- MCMessages
  Accepted <- MCAccepted
  Corrupted <- MCCorrupted
  BodySize <- MCBodySize
  MaxCachedMessageQuantity = 2
  MaxCachedMessageMemory = 0
  Workers = {w1, w2}
  ConsumeBatchSize = 2
  ReceiveBatchSize = 2
CHECK_DEADLOCK FALSE
INVARIANTS
  StoredOffsetSafe
PROPERTIES
  UsesQueueCorrectly
  EverySettled
  BackPressureEnds
  ShutdownReturns
