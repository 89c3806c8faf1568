---------------------------- MODULE MCRouteTable ----------------------------
(* Bounds for RouteTable: three callers, two of them of the same topic, one  *)
(* route, and name server lists with empty names among others.              *)
EXTENDS RouteTable

CONSTANTS a, b, c1, c2, c3

\* The texts "", "host;" and "host;host".
MCLists == {<<"">>, <<"host", "">>, <<"host", "host">>}

MCTopicOf == [c \in Callers |-> IF c = c3 THEN b ELSE a]

=============================================================================
