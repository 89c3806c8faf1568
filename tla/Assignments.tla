----------------------------- MODULE Assignments -----------------------------
(***************************************************************************)
(* How a push consumer finds the message queues it receives from: start    *)
(* waits for the routes of the subscribed topics, then a timer asks the    *)
(* load balancer for the assignment of each subscribed topic and the       *)
(* process queue table is made equal to the answer.                        *)
(*                                                                         *)
(* Answers to several questions about a topic may be on their way at a     *)
(* time, and are applied in any order, in two steps that hold the table's  *)
(* lock one after the other.  The expiry of process queues, the cycles     *)
(* that receive from them and shutdown are in ReceiveCycle; how a route is *)
(* looked up is in RouteTable.                                             *)
(***************************************************************************)
EXTENDS Naturals, FiniteSets

CONSTANTS
    Topics,     \* topics the application may subscribe to
    Routes,     \* [Topics -> the routes a name server may answer: sets of partitions]
    Responses,  \* [Topics -> the assignments a load balancer may answer]
    Slots,      \* [Topics -> questions that may be open at a time]: a bound
    Fickle,     \* bound: the topics whose subscription changes while it runs
    None

ASSUME AssignmentAssumption == IsFiniteSet(Topics) /\ None \notin {"asked", "inside"}

VARIABLES
    model,      \* message_model_
    subscribed, \* the topics in topic_filter_expression_table_
    route,      \* topic_route_table_: a route, or None
    balance,    \* what the load balancer answers now, per topic: anything at any time
    table,      \* process_queue_table_: the message queues in it
    query,      \* the questions: where each is, and the lists it works with
    starter,    \* where fetchRoutes is
    fetch,      \* its callbacks: None, "asked" for, or "inside" the callback
    missed,     \* history: the last callback signalled between test and wait
    forgotten,  \* the topics whose lookup found no name server
    crashed     \* a null route was used

vars == <<model, subscribed, route, balance, table, query, starter, fetch, missed,
          forgotten, crashed>>

starterVars == <<starter, fetch, missed, forgotten>>

\* A message queue is known by its topic and its id.
QueuesOf(t, list) == {<<t, p.id>> : p \in list}

Tables == UNION {UNION {QueuesOf(t, r) : r \in Routes[t] \cup Responses[t]} : t \in Topics}

Idle == [pc |-> "idle", list |-> {}]

Query == [pc : {"idle", "route", "nobroker", "wire", "sync", "start"}, list : SUBSET Tables]

TypeOK ==
    /\ model \in {"CLUSTERING", "BROADCASTING"}
    /\ subscribed \subseteq Topics
    /\ \A t \in Topics : route[t] \in Routes[t] \cup {None} /\ balance[t] \in Responses[t]
    /\ table \subseteq Tables
    /\ \A t \in Topics : query[t] \in [Slots[t] -> Query]
    /\ starter \in {"idle", "test", "wait", "asleep", "done"}
    /\ fetch \in [Topics -> {None, "asked", "inside"}]
    /\ missed \in BOOLEAN /\ crashed \in BOOLEAN
    /\ forgotten \subseteq Topics

Init ==
    /\ model \in {"CLUSTERING", "BROADCASTING"}
    /\ subscribed \in SUBSET Topics
    /\ route = [t \in Topics |-> None]
    /\ balance = [t \in Topics |-> CHOOSE b \in Responses[t] : TRUE]
    /\ table = {}
    /\ query = [t \in Topics |-> [k \in Slots[t] |-> Idle]]
    /\ starter = "idle"
    /\ fetch = [t \in Topics |-> None]
    /\ missed = FALSE /\ crashed = FALSE
    /\ forgotten = {}

-----------------------------------------------------------------------------
(* The application                                                         *)

subscribe(t) ==
    /\ subscribed' = subscribed \cup {t}
    /\ UNCHANGED <<model, route, balance, table, query, starterVars, crashed>>

\* The message queues of the topic stay in the table.
unsubscribe(t) ==
    /\ subscribed' = subscribed \ {t}
    /\ UNCHANGED <<model, route, balance, table, query, starterVars, crashed>>

-----------------------------------------------------------------------------
(* fetchRoutes                                                             *)

countdown == Cardinality({t \in Topics : fetch[t] = "asked"})

\* The routes of the topics subscribed now are asked for.  The table of routes
\* is still empty, so that no callback runs in this thread.
fetchRoutes ==
    /\ starter = "idle"
    /\ fetch' = [t \in Topics |-> IF t \in subscribed THEN "asked" ELSE None]
    /\ starter' = IF subscribed = {} THEN "done" ELSE "test"
    /\ UNCHANGED <<model, subscribed, route, balance, table, query, missed, forgotten, crashed>>

\* Mutant: one callback may be missing.
testCountdown_OneLeft ==
    /\ starter = "test"
    /\ starter' = IF countdown > 1 THEN "wait" ELSE "done"
    /\ UNCHANGED <<model, subscribed, route, balance, table, query, fetch, missed, forgotten,
                   crashed>>

\* The loop reads countdown without the mutex.
testCountdown ==
    /\ starter = "test"
    /\ starter' = IF countdown > 0 THEN "wait" ELSE "done"
    /\ UNCHANGED <<model, subscribed, route, balance, table, query, fetch, missed, forgotten,
                   crashed>>

MutexFree == \A t \in Topics : fetch[t] # "inside"

waitCountdown ==
    /\ starter = "wait"
    /\ MutexFree
    /\ starter' = "asleep"
    /\ UNCHANGED <<model, subscribed, route, balance, table, query, fetch, missed, forgotten,
                   crashed>>

\* Mutant: the last callback does not signal.
callbackEnd_NotLast(t) ==
    /\ fetch[t] = "inside"
    /\ fetch' = [fetch EXCEPT ![t] = None]
    /\ starter' = IF starter = "asleep" /\ countdown > 0 THEN "test" ELSE starter
    /\ missed' = (missed \/ (starter = "wait" /\ countdown = 0))
    /\ UNCHANGED <<model, subscribed, route, balance, table, query, forgotten, crashed>>

\* The callback has counted down under the mutex; it signals and releases it.
callbackEnd(t) ==
    /\ fetch[t] = "inside"
    /\ fetch' = [fetch EXCEPT ![t] = None]
    /\ starter' = IF starter = "asleep" THEN "test" ELSE starter
    /\ missed' = (missed \/ (starter = "wait" /\ countdown = 0))
    /\ UNCHANGED <<model, subscribed, route, balance, table, query, forgotten, crashed>>

-----------------------------------------------------------------------------
(* queryAssignment                                                         *)

\* A master that can be read or written and has an address is there to be asked.
selectBroker(r) == r # None /\ \E p \in r : p.master /\ p.permission # "NONE" /\ p.broker

\* Mutant: the route is not looked at before use.
onRouteForQuery_Trusting(t, r) ==
    IF r = None THEN {}
    ELSE IF model = "BROADCASTING" THEN {[pc |-> "sync", list |-> QueuesOf(t, r)]}
    ELSE {[pc |-> IF selectBroker(r) THEN "wire" ELSE "nobroker", list |-> {}]}

\* What a question becomes with a route, or None after an error; nothing if the
\* null route is used.  BROADCASTING takes every partition of the route, replicas
\* and those that cannot be read included.  CLUSTERING asks a broker, the empty
\* address if there is none.
onRouteForQuery(t, r) ==
    IF model = "BROADCASTING"
        THEN IF r = None THEN {} ELSE {[pc |-> "sync", list |-> QueuesOf(t, r)]}
        ELSE {[pc |-> IF selectBroker(r) THEN "wire" ELSE "nobroker", list |-> {}]}

\* The timer: every subscribed topic is asked about.  A route in the table is
\* used at once, within the call; a question that joins a forgotten lookup is
\* never heard of again.
scanAssignments ==
    /\ starter = "done"
    /\ subscribed # {}
    /\ \A t \in subscribed \ forgotten : \E k \in Slots[t] : query[t][k] = Idle
    /\ query' = [t \in Topics |->
          IF t \notin subscribed \ forgotten THEN query[t]
          ELSE LET slot == CHOOSE k \in Slots[t] : query[t][k] = Idle
                   asked == IF route[t] = None THEN [pc |-> "route", list |-> {}]
                            ELSE CHOOSE q \in onRouteForQuery(t, route[t]) : TRUE
               IN  [query[t] EXCEPT ![slot] = asked]]
    /\ UNCHANGED <<model, subscribed, route, balance, table, starterVars, crashed>>

Waiting(t) == {k \in Slots[t] : query[t][k].pc = "route"}

\* The lookup of a topic finds no name server: nobody who waits for it now or
\* later is called back.
forgetLookup(t) ==
    /\ Waiting(t) # {} \/ fetch[t] = "asked"
    /\ t \notin forgotten
    /\ route[t] = None
    /\ forgotten' = forgotten \cup {t}
    /\ query' = [query EXCEPT ![t] = [k \in Slots[t] |->
                   IF k \in Waiting(t) THEN Idle ELSE @[k]]]
    /\ UNCHANGED <<model, subscribed, route, balance, table, starter, fetch, missed, crashed>>

\* The lookup of a route ends, with r = None for an error, and calls everyone
\* who waits for it back; fetchRoutes' callback waits for its mutex first.
routeReady(t, r) ==
    /\ Waiting(t) # {} \/ fetch[t] = "asked"
    /\ t \notin forgotten
    /\ fetch[t] = "asked" => MutexFree
    /\ route' = IF r = None THEN route ELSE [route EXCEPT ![t] = r]
    /\ fetch' = IF fetch[t] = "asked" THEN [fetch EXCEPT ![t] = "inside"] ELSE fetch
    /\ IF Waiting(t) # {} /\ onRouteForQuery(t, r) = {}
         THEN crashed' = TRUE /\ UNCHANGED query
         ELSE /\ query' = [query EXCEPT ![t] = [k \in Slots[t] |->
                    IF k \in Waiting(t) THEN CHOOSE q \in onRouteForQuery(t, r) : TRUE ELSE @[k]]]
              /\ UNCHANGED crashed
    /\ UNCHANGED <<model, subscribed, balance, table, starter, missed, forgotten>>

\* updateRouteInfo: a route in the table is looked up again.
updateRouteInfo(t, r) ==
    /\ route[t] \notin {None, r}
    /\ route' = [route EXCEPT ![t] = r]
    /\ UNCHANGED <<model, subscribed, balance, table, query, starterVars, crashed>>

\* Only a CLUSTERING consumer asks the load balancer.
rebalance(t, b) ==
    /\ model = "CLUSTERING"
    /\ balance[t] # b
    /\ balance' = [balance EXCEPT ![t] = b]
    /\ UNCHANGED <<model, subscribed, route, table, query, starterVars, crashed>>

-----------------------------------------------------------------------------
(* The answer                                                              *)

\* The partitions of a response that can be read and reached.
TopicAssignment(b) == {p \in b : p.permission \in {"READ", "READ_WRITE"} /\ p.addressable}

Become(t, k, q) == query' = [query EXCEPT ![t][k] = q]

\* An error, of the request or in the response, leaves everything as it is.
onAssignmentError(t, k) ==
    /\ query[t][k].pc \in {"wire", "nobroker"}
    /\ Become(t, k, Idle)
    /\ UNCHANGED <<model, subscribed, route, balance, table, starterVars, crashed>>

onAssignment(t, k) ==
    /\ query[t][k].pc = "wire"
    /\ Become(t, k, [pc |-> "sync", list |-> QueuesOf(t, TopicAssignment(balance[t]))])
    /\ UNCHANGED <<model, subscribed, route, balance, table, starterVars, crashed>>

\* Mutant: what is assigned to others stays.
Unassigned_Kept(t, list) == {}

Unassigned(t, list) == {q \in table : q[1] = t} \ list

\* syncProcessQueue, under the lock: what is not assigned leaves the table, and
\* what is missing is noted.  An empty list does not come here.
syncProcessQueue(t, k) ==
    /\ query[t][k].pc = "sync"
    /\ LET list == query[t][k].list
       IN  IF list = {}
             THEN Become(t, k, Idle) /\ UNCHANGED table
             ELSE /\ table' = table \ Unassigned(t, list)
                  /\ Become(t, k, IF list \subseteq table THEN Idle
                                  ELSE [pc |-> "start", list |-> list \ table])
    /\ UNCHANGED <<model, subscribed, route, balance, starterVars, crashed>>

\* After it: the missing ones are created, each under the lock.
startReceiving(t, k, q) ==
    /\ query[t][k].pc = "start"
    /\ q \in query[t][k].list
    /\ table' = table \cup {q}
    /\ LET rest == query[t][k].list \ {q}
       IN  Become(t, k, IF rest = {} THEN Idle ELSE [pc |-> "start", list |-> rest])
    /\ UNCHANGED <<model, subscribed, route, balance, starterVars, crashed>>

-----------------------------------------------------------------------------
Step(t, k) ==
    \/ onAssignment(t, k)
    \/ onAssignmentError(t, k)
    \/ syncProcessQueue(t, k)
    \/ \E q \in query[t][k].list : startReceiving(t, k, q)

Next ==
    /\ ~crashed
    /\ \/ fetchRoutes \/ testCountdown \/ waitCountdown
       \/ scanAssignments
       \/ \E t \in Topics :
            \/ t \in Fickle /\ (subscribe(t) \/ unsubscribe(t))
            \/ callbackEnd(t)
            \/ forgetLookup(t)
            \/ \E r \in Routes[t] \cup {None} : routeReady(t, r)
            \/ \E r \in Routes[t] : updateRouteInfo(t, r)
            \/ \E b \in Responses[t] : rebalance(t, b)
            \/ \E k \in Slots[t] : Step(t, k)

\* Threads keep running, the timer keeps firing, every request has a deadline,
\* and neither name server nor load balancer fails for ever.  A lookup that found
\* no name server to ask is no request: nothing makes it end.
Fairness ==
    /\ WF_vars(~crashed /\ (fetchRoutes \/ testCountdown \/ waitCountdown))
    /\ WF_vars(~crashed /\ scanAssignments)
    /\ WF_vars(~crashed /\ \E t \in Topics : callbackEnd(t))
    /\ \A t \in Topics :
         /\ SF_vars(~crashed /\ \E r \in Routes[t] : routeReady(t, r))
         /\ \A k \in Slots[t] :
              /\ WF_vars(~crashed /\ Step(t, k))
              /\ SF_vars(~crashed /\ onAssignment(t, k))

Spec == Init /\ [][Next]_vars /\ Fairness

-----------------------------------------------------------------------------
TableOf(t) == {q \in table : q[1] = t}

\* The message queues topic t should be received from now.
Wanted(t) ==
    IF model = "BROADCASTING"
        THEN IF route[t] = None THEN {} ELSE QueuesOf(t, route[t])
        ELSE QueuesOf(t, TopicAssignment(balance[t]))

\* The consumer is started and topic t can be asked about.
Settled(t) ==
    /\ ~crashed
    /\ starter = "done"
    /\ t \in subscribed
    /\ Wanted(t) # {}
    /\ t \notin forgotten
    /\ model = "CLUSTERING" => (route[t] = None \/ selectBroker(route[t]))

\* Only a BROADCASTING consumer that could not get the route of a topic uses the
\* null route (PushConsumerImpl::queryAssignment).
CrashNeedsBroadcasting ==
    crashed => model = "BROADCASTING" /\ \E t \in Topics : route[t] = None /\ Waiting(t) # {}

\* When start goes on every callback of fetchRoutes has counted down, and only the
\* last one may still be inside, with the frame of fetchRoutes gone
\* (PushConsumerImpl::fetchRoutes reads countdown without its mutex).
StartedCounted ==
    starter = "done" => /\ countdown = 0
                        /\ Cardinality({t \in Topics : fetch[t] = "inside"}) <= 1

\* fetchRoutes waits for a callback that fetchRouteFor has dropped.
Forsaken == \E t \in forgotten : fetch[t] = "asked"

\* start goes on after fetchRoutes, unless the last callback counted down and
\* signalled between the test of the loop and its wait, or the lookup of a topic
\* found no name server, whose callback is never called.
StartReturns == starter = "test" ~> (starter = "done" \/ missed \/ crashed \/ Forsaken)

\* While the subscription, the route and a non-empty assignment stay, the table
\* comes to hold exactly the assigned queues of a topic that can be read and
\* reached, whatever answers are still on their way (scanAssignments to
\* syncProcessQueue), unless its lookup was forgotten.
AssignmentApplied ==
    \A t \in Topics :
        (<>[](Settled(t)) /\ <>[][UNCHANGED Wanted(t)]_(Wanted(t))) => <>[](TableOf(t) = Wanted(t))

=============================================================================
