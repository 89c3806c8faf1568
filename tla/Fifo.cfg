SPECIFICATION Spec
CONSTANTS
  Messages <- MCMessages
  Accepted <- MCAccepted
  BodySize <- MCBodySize
  Corrupted <- MCCorrupted
  DeliveryAttempt <- MCDeliveryAttempt
  MaxCachedMessageQuantity = 3
  MaxCachedMessageMemory = 0
  ReceiveBatchSize = 2
  MaxDeliveryAttempts = 3
CHECK_DEADLOCK FALSE
INVARIANTS
  InOrder
  StoredOffsetSafe
PROPERTIES
  UsesQueueCorrectly
  EverySettled
