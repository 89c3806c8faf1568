SPECIFICATION Spec
CONSTANTS
    Clients = {c1, c2}
    Senders = {c1}
    MaxManagers = 2
    None = None
INVARIANTS
    ServedWhileStarted
    CrashNeedsRace
    StoppedQuiet
PROPERTIES
    ManagerServes
CHECK_DEADLOCK FALSE
