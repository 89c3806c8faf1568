SPECIFICATION Spec
CONSTANTS
  Messages <- MCMessages
  Accepted <- MCAccepted
  BodySize <- MCBodySize
  MaxCachedMessageQuantity = 2
  MaxCachedMessageMemory = 3
INVARIANTS
  QuantityExact
  MemoryExact
  OffsetsTrackLive
  CommittedSafe
  ReleaseAssertion
PROPERTIES
  CommittedMonotone
CHECK_DEADLOCK FALSE
