SPECIFICATION Spec
CONSTANTS
    Topics = {"a", "b"}
    Routes <- MCRoutes
    Responses <- MCResponses
    Slots <- MCSlots
    Fickle = {"a"}
    None = None
INVARIANTS
    CrashNeedsBroadcasting
    StartedCounted
PROPERTIES
    StartReturns
    AssignmentApplied
CHECK_DEADLOCK FALSE
