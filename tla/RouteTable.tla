----------------------------- MODULE RouteTable -----------------------------
(***************************************************************************)
(* The topic route cache of ClientImpl: getRouteFor answers from           *)
(* topic_route_table_, or joins the request in flight for the topic, or    *)
(* starts one; the answer of the name server is put in the table and       *)
(* handed to everyone who joined; a timer refreshes the cached topics.     *)
(*                                                                         *)
(* A caller is one call of getRouteFor, followed through the threads that  *)
(* work for it: its own up to sending the request, a callback thread       *)
(* after that.                                                             *)
(***************************************************************************)
EXTENDS Naturals, FiniteSets, Sequences

CONSTANTS
  Topics,
  Callers,
  TopicOf,           \* the topic each caller asks for
  Routes,            \* routes with partitions
  NoPartitions,      \* the route without partitions
  Failed,            \* an error code
  NoRoute,           \* no entry in the table
  Lists,             \* name server lists: what a text becomes, split at semicolons
  NameServers        \* a multiple of the length of each

ASSUME RouteAssumption ==
  /\ TopicOf \in [Callers -> Topics]
  /\ NameServers \in Nat \ {0}
  /\ NoPartitions \notin Routes
  /\ Failed \notin Routes \cup {NoPartitions}
  /\ NoRoute \notin Routes \cup {NoPartitions, Failed}

ASSUME ListAssumption == \A list \in Lists : list \in Seq({"host", ""}) /\ list # <<>>

Responses == Routes \cup {NoPartitions, Failed}

VARIABLES
  topic_route_table,         \* the route of each topic
  inflight_route_requests,   \* callers of each topic; no entry when empty
  pc,                        \* where each caller's work is
  response,                  \* what the name server answered its request
  pending,                   \* pending_requests of onTopicRouteReady
  answer,                    \* what its callback was given, each time
  refresh,                   \* request of updateRouteInfo for each topic
  index,                     \* index_ of the name server resolver, modulo NameServers
  dynamic,                   \* the resolver is a DynamicNameServerResolver
  name_server_list           \* its list: a name is a host or empty

resolver == <<dynamic, name_server_list>>
vars == <<topic_route_table, inflight_route_requests, pc, response, pending,
          answer, refresh, index, resolver>>

\* What a resolver may hold: a dynamic one has no list until it has fetched one.
KnownLists == Lists \cup {<<>>}

TypeOK ==
  /\ topic_route_table \in [Topics -> Routes \cup {NoRoute}]
  /\ inflight_route_requests \in [Topics -> SUBSET Callers]
  /\ pc \in [Callers -> {"idle", "miss", "hit", "joined", "fetch", "sent", "ready",
                         "collect", "apply", "done"}]
  /\ response \in [Callers -> Responses \cup {NoRoute}]
  /\ pending \in [Callers -> SUBSET Callers]
  /\ answer \in [Callers -> Seq(Responses)]
  /\ refresh \in [Topics -> {"idle", "fetch", "sent"}]
  /\ index \in 0..(NameServers - 1)
  /\ dynamic \in BOOLEAN
  /\ name_server_list \in KnownLists

\* A static resolver has its list from the start, the application's text split at
\* semicolons, which nothing checks: "" or a last semicolon makes an empty name.
initialLists == IF dynamic THEN {<<>>} ELSE Lists

Init ==
  /\ topic_route_table = [t \in Topics |-> NoRoute]
  /\ inflight_route_requests = [t \in Topics |-> {}]
  /\ pc = [c \in Callers |-> "idle"]
  /\ response = [c \in Callers |-> NoRoute]
  /\ pending = [c \in Callers |-> {}]
  /\ answer = [c \in Callers |-> <<>>]
  /\ refresh = [t \in Topics |-> "idle"]
  /\ index = 0
  /\ dynamic \in BOOLEAN
  /\ name_server_list \in initialLists

Goto(c, to) == pc' = [pc EXCEPT ![c] = to]

-----------------------------------------------------------------------------
(* The name server resolver *)

\* What the discovery service's body is split into, empty names and all.  Another
\* status than 200 changes nothing.  (Without any answer HttpClientImpl::get uses
\* a null result.)
fetchNameServerAddresses == Lists

onNameServerListFetched(list) == name_server_list' = list

\* The timer of a DynamicNameServerResolver, or resolve() on an empty list.
fetch ==
  /\ dynamic
  /\ \E list \in fetchNameServerAddresses : onNameServerListFetched(list)
  /\ UNCHANGED <<topic_route_table, inflight_route_requests, pc, response, pending,
                 answer, refresh, index, dynamic>>

\* current() is not the empty string.
current ==
  LET n == Len(name_server_list)
  IN  n > 0 /\ name_server_list[(index % n) + 1] # ""

\* After an error the resolver moves to the next name server.
nextNameServer(res) ==
  index' = IF res = Failed THEN (index + 1) % NameServers ELSE index

-----------------------------------------------------------------------------
(* getRouteFor *)

\* The look-up outside the lock on the requests in flight.
getRouteFor(c) ==
  LET route == topic_route_table[TopicOf[c]]
  IN  /\ pc[c] = "idle"
      /\ Goto(c, IF route = NoRoute THEN "miss" ELSE "hit")
      /\ response' = [response EXCEPT ![c] = route]
      /\ UNCHANGED <<topic_route_table, inflight_route_requests, pending, answer,
                     refresh, index, resolver>>

\* Under inflight_route_requests_mtx_: look up again, join or create.
join(c) ==
  LET t == TopicOf[c]
      route == topic_route_table[t]
  IN  /\ pc[c] = "miss"
      /\ IF route # NoRoute
           THEN /\ Goto(c, "hit")
                /\ UNCHANGED inflight_route_requests
           ELSE /\ Goto(c, IF inflight_route_requests[t] = {} THEN "fetch" ELSE "joined")
                /\ inflight_route_requests' = [inflight_route_requests EXCEPT ![t] = @ \cup {c}]
      /\ response' = [response EXCEPT ![c] = route]
      /\ UNCHANGED <<topic_route_table, pending, answer, refresh, index, resolver>>

\* cb(ec, route) in the thread of the caller.
hit(c) ==
  /\ pc[c] = "hit"
  /\ Goto(c, "done")
  /\ answer' = [answer EXCEPT ![c] = Append(@, response[c])]
  /\ UNCHANGED <<topic_route_table, inflight_route_requests, response, pending,
                 refresh, index, resolver>>

\* Without a name server the call returns and its callback is forgotten.
fetchRouteFor(c) ==
  /\ pc[c] = "fetch"
  /\ Goto(c, IF current THEN "sent" ELSE "done")
  /\ UNCHANGED <<topic_route_table, inflight_route_requests, response, pending,
                 answer, refresh, index, resolver>>

-----------------------------------------------------------------------------
(* The answer of the name server, in a callback thread *)

resolveRoute(c, res) ==
  /\ pc[c] = "sent"
  /\ Goto(c, "ready")
  /\ response' = [response EXCEPT ![c] = res]
  /\ nextNameServer(res)
  /\ UNCHANGED <<topic_route_table, inflight_route_requests, pending, answer,
                 refresh, resolver>>

\* The table after updateRouteCache: an unusable answer changes nothing.
updateRouteCache(t, res) ==
  topic_route_table' =
    IF res \in Routes THEN [topic_route_table EXCEPT ![t] = res] ELSE topic_route_table

\* Mutant: nothing is done about an error.
onTopicRouteReady_IgnoresErrors(c) ==
  /\ pc[c] = "ready"
  /\ updateRouteCache(TopicOf[c], response[c])
  /\ Goto(c, IF response[c] = Failed THEN "done" ELSE "collect")
  /\ UNCHANGED <<inflight_route_requests, response, pending, answer, refresh, index,
                 resolver>>

\* Mutant: the callback of the caller that sent the request is called here, too.
onTopicRouteReady_CallsBack(c) ==
  /\ pc[c] = "ready"
  /\ updateRouteCache(TopicOf[c], response[c])
  /\ Goto(c, "collect")
  /\ answer' = [answer EXCEPT ![c] = Append(@, response[c])]
  /\ UNCHANGED <<inflight_route_requests, response, pending, refresh, index, resolver>>

onTopicRouteReady(c) ==
  /\ pc[c] = "ready"
  /\ updateRouteCache(TopicOf[c], response[c])
  /\ Goto(c, "collect")
  /\ UNCHANGED <<inflight_route_requests, response, pending, answer, refresh, index,
                 resolver>>

\* Mutant: the entry stays when its callbacks are taken.
takePending_KeepsEntry(c) ==
  /\ pc[c] = "collect"
  /\ pending' = [pending EXCEPT ![c] = inflight_route_requests[TopicOf[c]]]
  /\ Goto(c, "apply")
  /\ UNCHANGED <<topic_route_table, inflight_route_requests, response, answer, refresh,
                 index, resolver>>

\* Under inflight_route_requests_mtx_.
takePending(c) ==
  LET t == TopicOf[c]
  IN  /\ pc[c] = "collect"
      /\ pending' = [pending EXCEPT ![c] = inflight_route_requests[t]]
      /\ inflight_route_requests' = [inflight_route_requests EXCEPT ![t] = {}]
      /\ Goto(c, "apply")
      /\ UNCHANGED <<topic_route_table, response, answer, refresh, index, resolver>>

\* cb(ec, route) for one of the callers that joined, c itself included.
applyCallback(c, d) ==
  /\ pc[c] = "apply"
  /\ d \in pending[c]
  /\ pending' = [pending EXCEPT ![c] = @ \ {d}]
  /\ answer' = [answer EXCEPT ![d] = Append(@, response[c])]
  /\ pc' = [pc EXCEPT ![d] = "done",
                      ![c] = IF pending[c] = {d} THEN "done" ELSE "apply"]
  /\ UNCHANGED <<topic_route_table, inflight_route_requests, response, refresh,
                 index, resolver>>

-----------------------------------------------------------------------------
(* The periodic refresh *)

\* All topics that are in the table when the timer fires.
updateRouteInfo ==
  /\ \A t \in Topics : refresh[t] = "idle"
  /\ \E t \in Topics : topic_route_table[t] # NoRoute
  /\ refresh' = [t \in Topics |-> IF topic_route_table[t] # NoRoute THEN "fetch" ELSE "idle"]
  /\ UNCHANGED <<topic_route_table, inflight_route_requests, pc, response, pending,
                 answer, index, resolver>>

refreshRoute(t) ==
  /\ refresh[t] = "fetch"
  /\ refresh' = [refresh EXCEPT ![t] = IF current THEN "sent" ELSE "idle"]
  /\ UNCHANGED <<topic_route_table, inflight_route_requests, pc, response, pending,
                 answer, index, resolver>>

onRefreshed(t, res) ==
  /\ refresh[t] = "sent"
  /\ refresh' = [refresh EXCEPT ![t] = "idle"]
  /\ updateRouteCache(t, res)
  /\ nextNameServer(res)
  /\ UNCHANGED <<inflight_route_requests, pc, response, pending, answer, resolver>>

-----------------------------------------------------------------------------
\* The steps taken for a caller once it has called.
serve(c) ==
  \/ join(c) \/ hit(c) \/ fetchRouteFor(c)
  \/ \E res \in Responses : resolveRoute(c, res)
  \/ onTopicRouteReady(c) \/ takePending(c)
  \/ \E d \in Callers : applyCallback(c, d)

Next ==
  \/ fetch
  \/ \E c \in Callers : getRouteFor(c) \/ serve(c)
  \/ updateRouteInfo
  \/ \E t \in Topics :
       refreshRoute(t) \/ \E res \in Responses : onRefreshed(t, res)

\* Threads keep running and every request is answered or times out.
Fairness == \A c \in Callers : WF_vars(serve(c))

Spec == Init /\ [][Next]_vars /\ Fairness

-----------------------------------------------------------------------------
\* A request is on its way for the topic of the caller, up to the moment its
\* entry is taken out of inflight_route_requests_.
Fetching(c) == pc[c] \in {"fetch", "sent", "ready", "collect"}

Lookup == INSTANCE RouteLookup WITH
  Answers <- Responses,
  calling <- {c \in Callers : pc[c] # "idle" /\ answer[c] = <<>>}

\* getRouteFor implements RouteLookup: no callback is called twice, whether the
\* route was cached, found at the second look-up, or fetched by this or by
\* another caller's request.
AnswersOnce == Lookup!Spec

\* The resolver may have had no name to give: its list is fetched, or has an
\* empty name in it.
MayLackName == dynamic \/ \E i \in 1..Len(name_server_list) : name_server_list[i] = ""

\* The entry of the topic was left behind by a call that found no name server.
Forgotten(t) ==
  \E c \in inflight_route_requests[t] :
    pc[c] = "done" /\ response[c] = NoRoute /\ answer[c] = <<>>

\* Every callback is called in the end, by whichever thread it was left to, as
\* long as fetchRouteFor had a name server to ask.
AnswersEveryCaller ==
  \A c \in Callers : pc[c] # "idle" ~> (answer[c] # <<>> \/ Forgotten(TopicOf[c]))

\* There is never more than one request of getRouteFor on its way for a topic
\* ("Would reuse prior route request"), the entry that onTopicRouteReady asserts
\* to be there (assert(inflight_route_requests_.contains(topic))) is, and an entry
\* has a request that will take it out, so that a later caller never joins a
\* request that is over; the exception is an entry whose request found no name
\* server, which a static list of proper names excludes and one with an empty name
\* ("" or a last semicolon) does not.
OneRequestPerEntry ==
  \A t \in Topics :
    LET fetching == {c \in Callers : TopicOf[c] = t /\ Fetching(c)}
    IN  /\ fetching \subseteq inflight_route_requests[t]
        /\ Cardinality(fetching) <= 1
        /\ (fetching = {} /\ inflight_route_requests[t] # {}) => (Forgotten(t) /\ MayLackName)

=============================================================================
