SPECIFICATION TxSpec
CONSTANTS
  Senders = {s1, s2}
  Synchronous = {s1}
  Transactional = {s1}
  MaxAttemptTimes = 2
  MaxQueues = 2
  MaxEnds = 2
CHECK_DEADLOCK FALSE
INVARIANTS
  FailsAfterAllAttempts
  CallbackOnce
  VerdictIsTrue
PROPERTIES
  CallsReturn
