-------------------------- MODULE MCEndpointHealth --------------------------
EXTENDS EndpointHealth

Partition(broker, id, address, permission) ==
    [broker |-> broker, brokerId |-> id, address |-> address, permission |-> permission]

\* Two brokers, one of them with two partitions, and a read-only partition; then
\* a route on which the second broker is left, with a replica of the first.
MCRoutes == {
    <<Partition("a", 0, "e1", "WRITE"), Partition("a", 0, "e1", "READ_WRITE"), Partition("b", 0, "e2", "READ_WRITE"),
      Partition("b", 0, "e2", "READ")>>,
    <<Partition("b", 0, "e2", "READ_WRITE"), Partition("b", 1, "e2", "READ_WRITE")>>}
=============================================================================
