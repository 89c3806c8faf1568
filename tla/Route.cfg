SPECIFICATION Spec
CONSTANTS
  a = a
  b = b
  c1 = c1
  c2 = c2
  c3 = c3
  Topics = {a, b}
  Callers = {c1, c2, c3}
  TopicOf <- MCTopicOf
  Routes = {r1}
  NoPartitions = NoPartitions
  Failed = Failed
  NoRoute = NoRoute
  Lists <- MCLists
  NameServers = 2
CHECK_DEADLOCK FALSE
INVARIANTS
  OneRequestPerEntry
PROPERTIES
  AnswersOnce
  AnswersEveryCaller
