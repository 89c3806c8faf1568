SPECIFICATION PullSpec
CONSTANTS
  CompressBodyThreshold = 2
  MaxMessageBodySize = 2
  Messages <- MCMessages
  DigestType = {"CRC32", "MD5", "SHA1", "NONE"}
  MaxLog = 2
  MaxBatch = 2
CHECK_DEADLOCK FALSE
INVARIANTS
  PulledInOrder
  PulledIntact
PROPERTIES
  EveryMessagePulled
