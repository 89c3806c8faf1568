SPECIFICATION CycleSpec
CONSTANTS
  Instances = {i1, i2, i3, u1, u2, u3}
  Unresolved = {u1, u2, u3}
  Cycles = {c1, c2}
  Scans = {k1}
  NoInstance = NoInstance
CHECK_DEADLOCK FALSE
PROPERTIES
  KeepsReceiving
  ShutdownEndsCycles
