--------------------------- MODULE EndpointHealth ---------------------------
(***************************************************************************)
(* The connections of a client manager and the endpoints its clients have  *)
(* isolated: heartbeat, health check, the removal of connections whose     *)
(* endpoint has left the routes, and the choice of candidates for a send.  *)
(*                                                                         *)
(* The periodic tasks run in different threads of the scheduler.  A pass   *)
(* of the health check collects the endpoints in use, cleans the table of  *)
(* connections, tells the clients and then sends its requests; each of     *)
(* these holds another lock, so that routes, isolations and connections    *)
(* may change in between.  Answers arrive in any order.                    *)
(*                                                                         *)
(* Abstractions: one topic per client.  send_which_queue_ is local to a    *)
(* thread and starts at random, so that a send may take any value of it.   *)
(***************************************************************************)
EXTENDS TopicPublishInfo

CONSTANTS
    Clients,    \* clients of the manager that were started
    Producers,  \* those of them that are producers
    TopicRoutes, \* the routes a name server may answer: sequences of partitions
    Stoppable,  \* bound: the clients that are shut down
    Breakable,  \* the endpoints whose channel may be shut down
    MaxAttempts,\* max_attempt_times_ of a producer: candidates asked for
    None

ASSUME HealthAssumption ==
    /\ Producers \subseteq Clients
    /\ MaxAttempts \in Nat
    /\ None \notin TopicRoutes
    /\ \A r \in TopicRoutes : r \in Seq({r[i] : i \in DOMAIN r})

VARIABLES
    life,       \* "active", "stopped" (object alive) or "gone" (weak pointer expired)
    route,      \* topic_route_table_ of a client: a route, or None
    publish,    \* topic_publish_info_table_ of a producer: a partition list, or None
    isolated,   \* isolated_endpoints_ of a client
    rpc,        \* rpc_clients_: the connection to an endpoint, or None
    pass,       \* where the health check is: "idle", "clean", "tell"; then it sends checks
    hosts,      \* the endpoints the pass works with: in use, or removed
    checks,     \* client and endpoint of health checks to be sent
    asked,      \* client and endpoint of health checks without an answer
    beats       \* the endpoints that a heartbeat is still to be sent to

healthVars == <<life, route, publish, isolated, rpc, pass, hosts, checks, asked, beats>>

Addresses(partitions) == {partitions[i].address : i \in DOMAIN partitions}

Endpoints == UNION {Addresses(r) : r \in TopicRoutes}

RpcClient == [needHeartbeat : BOOLEAN, ok : BOOLEAN]

HealthTypeOK ==
    /\ life \in [Clients -> {"active", "stopped", "gone"}]
    /\ route \in [Clients -> TopicRoutes \cup {None}]
    /\ publish \in [Producers -> {updatePublishInfo(<<>>, r) : r \in TopicRoutes} \cup {None}]
    /\ isolated \in [Clients -> SUBSET Endpoints]
    /\ rpc \in [Endpoints -> RpcClient \cup {None}]
    /\ pass \in {"idle", "clean", "tell"}
    /\ hosts \subseteq Endpoints
    /\ checks \subseteq Producers \X Endpoints
    /\ asked \subseteq Producers \X Endpoints
    /\ beats \subseteq Endpoints

HealthInit ==
    /\ life = [c \in Clients |-> "active"]
    /\ route = [c \in Clients |-> None]
    /\ publish = [c \in Producers |-> None]
    /\ isolated = [c \in Clients |-> {}]
    /\ rpc = [e \in Endpoints |-> None]
    /\ pass = "idle"
    /\ hosts = {} /\ checks = {} /\ asked = {} /\ beats = {}

endpointsInUse(c) == IF route[c] = None THEN {} ELSE Addresses(route[c])

-----------------------------------------------------------------------------
(* Connections                                                             *)

\* Mutant: an existing connection keeps the flag it was created with.
getRpcClient_KeepsFlag(e, needHeartbeat) ==
    IF rpc[e] = None \/ ~rpc[e].ok
        THEN [needHeartbeat |-> needHeartbeat, ok |-> TRUE]
        ELSE rpc[e]

\* The connection to e after getRpcClient: one that is missing or shut down is
\* created with the caller's flag, another one only gains the flag.
getRpcClient(e, needHeartbeat) ==
    IF rpc[e] = None \/ ~rpc[e].ok
        THEN [needHeartbeat |-> needHeartbeat, ok |-> TRUE]
        ELSE [rpc[e] EXCEPT !.needHeartbeat = @ \/ needHeartbeat]

\* A channel ends for good.
channelShutdown(e) ==
    /\ e \in Breakable /\ rpc[e] # None
    /\ rpc' = [rpc EXCEPT ![e].ok = FALSE]
    /\ UNCHANGED <<life, route, publish, isolated, pass, hosts, checks, asked, beats>>

-----------------------------------------------------------------------------
(* Clients                                                                 *)

\* A route is found, or changed by the refresh; the publish info is not told.
cacheRoute(c) ==
    /\ life[c] = "active"
    /\ \E r \in TopicRoutes \ {route[c]} : route' = [route EXCEPT ![c] = r]
    /\ UNCHANGED <<life, publish, isolated, rpc, pass, hosts, checks, asked, beats>>

\* The first send of a topic makes its publish info from the route.
asyncPublishInfo(c) ==
    /\ life[c] = "active" /\ publish[c] = None /\ route[c] # None
    /\ publish' = [publish EXCEPT ![c] = updatePublishInfo(<<>>, route[c])]
    /\ UNCHANGED <<life, route, isolated, rpc, pass, hosts, checks, asked, beats>>

\* Candidates of a send, and a request to one of them.
takeMessageQueuesRoundRobin(c, index) == takeMessageQueues(publish[c], isolated[c], index, MaxAttempts)

\* A message that has a message group, or names its queue, goes to that queue
\* even if its endpoint is isolated.
listMessageQueue(c) == getMessageQueueList(publish[c])

send(c) ==
    /\ life[c] = "active" /\ publish[c] # None
    /\ \E index \in 0..(IndexModulus - 1) :
        \E e \in Addresses(takeMessageQueuesRoundRobin(c, index)) \cup Addresses(listMessageQueue(c)) :
            rpc' = [rpc EXCEPT ![e] = getRpcClient(e, FALSE)]
    /\ UNCHANGED <<life, route, publish, isolated, pass, hosts, checks, asked, beats>>

isolateEndpoint(c, e) ==
    /\ life[c] = "active" /\ publish[c] # None /\ e \in Addresses(publish[c])
    /\ isolated' = [isolated EXCEPT ![c] = @ \cup {e}]
    /\ UNCHANGED <<life, route, publish, rpc, pass, hosts, checks, asked, beats>>

\* A request to every endpoint in use.
notifyClientTermination(c) ==
    rpc' = [e \in Endpoints |-> IF e \in endpointsInUse(c) THEN getRpcClient(e, FALSE) ELSE rpc[e]]

\* The client leaves its active states and says so, and is destroyed later.
shutdown(c) ==
    /\ c \in Stoppable /\ life[c] # "gone"
    /\ IF life[c] = "active"
           THEN life' = [life EXCEPT ![c] = "stopped"] /\ notifyClientTermination(c)
           ELSE life' = [life EXCEPT ![c] = "gone"] /\ UNCHANGED rpc
    /\ UNCHANGED <<route, publish, isolated, pass, hosts, checks, asked, beats>>

-----------------------------------------------------------------------------
(* ClientManagerImpl::doHeartbeat                                          *)

\* Every active client collects its endpoints.
doHeartbeat ==
    /\ beats = {}
    /\ beats' = UNION {endpointsInUse(c) : c \in {c \in Clients : life[c] = "active"}}
    /\ beats' # {}
    /\ UNCHANGED <<life, route, publish, isolated, rpc, pass, hosts, checks, asked>>

\* What the answer says is logged only.
heartbeat(e) ==
    /\ e \in beats
    /\ rpc' = [rpc EXCEPT ![e] = getRpcClient(e, TRUE)]
    /\ beats' = beats \ {e}
    /\ UNCHANGED <<life, route, publish, isolated, pass, hosts, checks, asked>>

-----------------------------------------------------------------------------
(* ClientManagerImpl::doHealthCheck                                        *)

\* cleanOfflineRpcClients: the endpoints in use, of every client that exists ...
collectHosts ==
    /\ pass = "idle" /\ checks = {}
    /\ pass' = "clean"
    /\ hosts' = UNION {endpointsInUse(c) : c \in {c \in Clients : life[c] # "gone"}}
    /\ UNCHANGED <<life, route, publish, isolated, rpc, checks, asked, beats>>

\* Mutant: the test for the endpoints in use is inverted.
Offline_InUse(e) == rpc[e] # None /\ rpc[e].needHeartbeat /\ e \in hosts

Offline(e) == rpc[e] # None /\ rpc[e].needHeartbeat /\ e \notin hosts

\* ... and the removal of the others, under the lock of rpc_clients_.
cleanOfflineRpcClients ==
    /\ pass = "clean"
    /\ pass' = "tell"
    /\ hosts' = {e \in Endpoints : Offline(e)}
    /\ rpc' = [e \in Endpoints |-> IF Offline(e) THEN None ELSE rpc[e]]
    /\ UNCHANGED <<life, route, publish, isolated, checks, asked, beats>>

\* ClientImpl::healthCheck: an active client checks the endpoints it isolates.
EndpointsToCheck(isolations) ==
    {ce \in Producers \X Endpoints : life[ce[1]] = "active" /\ ce[2] \in isolations[ce[1]]}

\* The clients that are active forget the isolation of the removed endpoints,
\* then collect those they still isolate.
onRemoteEndpointRemoval ==
    /\ pass = "tell"
    /\ pass' = "idle"
    /\ isolated' = [c \in Clients |-> IF life[c] = "active" THEN isolated[c] \ hosts ELSE isolated[c]]
    /\ checks' = EndpointsToCheck(isolated')
    /\ hosts' = {}
    /\ UNCHANGED <<life, route, publish, rpc, asked, beats>>

\* Mutant: only endpoints that have a connection are checked.
healthCheck_Connected(c, e) ==
    /\ <<c, e>> \in checks
    /\ checks' = checks \ {<<c, e>>}
    /\ asked' = IF rpc[e] # None /\ rpc[e].needHeartbeat THEN asked \cup {<<c, e>>} ELSE asked
    /\ UNCHANGED <<life, route, publish, isolated, rpc, pass, hosts, beats>>

healthCheck(c, e) ==
    /\ <<c, e>> \in checks
    /\ checks' = checks \ {<<c, e>>}
    /\ asked' = asked \cup {<<c, e>>}
    /\ rpc' = [rpc EXCEPT ![e] = getRpcClient(e, FALSE)]
    /\ UNCHANGED <<life, route, publish, isolated, pass, hosts, beats>>

\* The answer of a health check, if the client still exists; an error changes nothing.
onHealthCheckResponse(c, e, ok) ==
    /\ <<c, e>> \in asked
    /\ asked' = asked \ {<<c, e>>}
    /\ isolated' = IF ok /\ life[c] # "gone" THEN [isolated EXCEPT ![c] = @ \ {e}] ELSE isolated
    /\ UNCHANGED <<life, route, publish, rpc, pass, hosts, checks, beats>>

-----------------------------------------------------------------------------
HealthCheckStep ==
    \/ collectHosts \/ cleanOfflineRpcClients \/ onRemoteEndpointRemoval
    \/ \E c \in Producers, e \in Endpoints : healthCheck(c, e)

HeartbeatStep == doHeartbeat \/ \E e \in Endpoints : heartbeat(e)

HealthNext ==
    \/ \E c \in Clients : cacheRoute(c) \/ shutdown(c)
    \/ \E c \in Producers :
        \/ asyncPublishInfo(c) \/ send(c)
        \/ \E e \in Endpoints :
            \/ isolateEndpoint(c, e)
            \/ \E ok \in BOOLEAN : onHealthCheckResponse(c, e, ok)
    \/ HeartbeatStep \/ HealthCheckStep
    \/ \E e \in Endpoints : channelShutdown(e)

\* The periodic tasks go on; of the health checks of an endpoint again and
\* again some pass.
HealthFairness ==
    /\ WF_healthVars(HeartbeatStep)
    /\ WF_healthVars(HealthCheckStep)
    /\ \A c \in Producers, e \in Endpoints : SF_healthVars(onHealthCheckResponse(c, e, TRUE))

HealthSpec == HealthInit /\ [][HealthNext]_healthVars /\ HealthFairness

-----------------------------------------------------------------------------
InUse(e) == \E c \in Clients : life[c] = "active" /\ e \in endpointsInUse(c)

KeptAlive(e) == rpc[e] # None /\ rpc[e].needHeartbeat

\* takeMessageQueues: whatever is isolated, the candidates are partitions of
\* the topic's masters on different brokers, none of them isolated, and, unless
\* the index wraps around inside the loop, as many as were asked for or one of
\* every broker that has a partition left.
CandidatesComplete ==
    \A c \in Producers, index \in 0..(IndexModulus - 1) : publish[c] # None =>
        LET candidates == takeMessageQueuesRoundRobin(c, index)
            usable == {i \in DOMAIN publish[c] : publish[c][i].address \notin isolated[c]}
            brokers == {publish[c][i].broker : i \in usable}
            chosen == {candidates[k].broker : k \in DOMAIN candidates}
        IN  /\ \A k \in DOMAIN candidates :
                /\ candidates[k].brokerId = MASTER_BROKER_ID
                /\ \E i \in usable : candidates[k] = publish[c][i]
            /\ Cardinality(chosen) = Len(candidates)
            /\ index + Len(publish[c]) <= IndexModulus =>
                  Len(candidates) >= MaxAttempts \/ chosen = brokers

\* The add-back mechanism: an endpoint that an active producer has isolated is
\* checked again and again, with or without a connection, in the routes or not,
\* and is added back when its server passes.
AddedBack ==
    \A c \in Producers, e \in Endpoints : e \in isolated[c] ~> (e \notin isolated[c] \/ life[c] # "active")

\* Heartbeats follow the use of endpoints.  A connection to every endpoint that
\* an active client uses is kept alive, however often it is created again by
\* other requests, and one that was kept alive is given up when no client uses
\* its endpoint.
HeartbeatKept ==
    \A e \in Endpoints :
        /\ InUse(e) ~> (~InUse(e) \/ KeptAlive(e))
        /\ KeptAlive(e) ~>
              (~KeptAlive(e) \/ \E c \in Clients : life[c] # "gone" /\ e \in endpointsInUse(c))
=============================================================================
