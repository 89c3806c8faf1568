SPECIFICATION HealthSpec
CONSTANTS
    IndexBits = 2
    Clients = {"p", "q"}
    Producers = {"p"}
    TopicRoutes <- MCRoutes
    Stoppable = {"q"}
    Breakable = {"e1"}
    MaxAttempts = 2
    None = None
INVARIANTS
    CandidatesComplete
PROPERTIES
    AddedBack
    HeartbeatKept
CHECK_DEADLOCK FALSE
