--------------------------- MODULE MCAssignments ----------------------------
EXTENDS Assignments

Part(id, master, permission, broker) ==
    [id |-> id, master |-> master, permission |-> permission, broker |-> broker]

Assigned(id, permission, addressable) ==
    [id |-> id, permission |-> permission, addressable |-> addressable]

\* Topic a changes its route and loses the address of its readable master; b,
\* which start waits for, too, does not change and has no broker to ask.
MCRoutes == [t \in {"a", "b"} |->
    IF t = "a" THEN {{Part(1, TRUE, "READ_WRITE", TRUE), Part(1, FALSE, "READ", TRUE),
                      Part(2, TRUE, "NONE", TRUE)},
                     {Part(2, FALSE, "READ", TRUE), Part(2, TRUE, "READ_WRITE", FALSE)}}
    ELSE {{Part(1, TRUE, "NONE", TRUE)}}]

\* Topic a: nothing, both queues, or one, with others not readable or reachable.
MCResponses == [t \in {"a", "b"} |->
    IF t = "a" THEN {{}, {Assigned(1, "READ_WRITE", TRUE), Assigned(2, "READ", TRUE)},
                     {Assigned(1, "WRITE", TRUE), Assigned(2, "READ_WRITE", TRUE), Assigned(3, "READ", FALSE)}}
    ELSE {{Assigned(1, "READ_WRITE", TRUE)}}]

\* Two answers about a may overlap.
MCSlots == [t \in {"a", "b"} |-> IF t = "a" THEN {1, 2} ELSE {1}]
=============================================================================
