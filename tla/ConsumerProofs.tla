--------------------------- MODULE ConsumerProofs ----------------------------
(***************************************************************************)
(* Proofs about the parts of a consumer around its process queues, for every *)
(* value of their constants: how it finds its queues (Assignments), how the *)
(* limit of its rate holds (RateLimiter), and what an application that pulls *)
(* is given (PullConsumer).  The three specifications share no variable.   *)
(***************************************************************************)
EXTENDS Assignments, RateLimiter, PullConsumer, DataProofs,
        FiniteSetTheorems, SequenceTheorems, TLAPS

(***************************************************************************)
(* Assignments: when a null route is used, and what holds of the callbacks *)
(* of fetchRoutes when start goes on.                                      *)
(***************************************************************************)

-----------------------------------------------------------------------------
(* The inductive invariant *)

\* The tables are functions of the topics, and of the open questions of each.
Shape ==
    /\ route = [t \in Topics |-> route[t]]
    /\ query = [t \in Topics |-> [k \in Slots[t] |-> query[t][k]]]
    /\ fetch \in [Topics -> {None, "asked", "inside"}]

\* A question waits for a route only while there is none.
Asking ==
    \A t \in Topics : \A k \in Slots[t] : query[t][k].pc = "route" => route[t] = None

\* One callback of fetchRoutes is inside its mutex at a time; none is asked for
\* before fetchRoutes, and none is left when it returns.
Counted ==
    /\ \A t, u \in Topics : fetch[t] = "inside" /\ fetch[u] = "inside" => t = u
    /\ starter = "idle" => \A t \in Topics : fetch[t] = None
    /\ starter = "done" => \A t \in Topics : fetch[t] # "asked"

Inv == Shape /\ Asking /\ Counted /\ CrashNeedsBroadcasting

-----------------------------------------------------------------------------
(* The questions *)

\* With a route, or for a CLUSTERING consumer, a question goes on.
LEMMA RouteUsed ==
  ASSUME NEW t \in Topics, NEW r, onRouteForQuery(t, r) # {}
  PROVE  (CHOOSE q \in onRouteForQuery(t, r) : TRUE).pc # "route"
<1>1. \A q \in onRouteForQuery(t, r) : q.pc # "route"
  BY DEF onRouteForQuery
<1> QED BY <1>1

\* Only the null route of a BROADCASTING consumer leads nowhere.
LEMMA NullRoute ==
  ASSUME NEW t \in Topics, NEW r, onRouteForQuery(t, r) = {}
  PROVE  model = "BROADCASTING" /\ r = None
BY DEF onRouteForQuery

\* A question that becomes q, which does not wait for a route.
LEMMA BecomeStep ==
  ASSUME Inv, NEW t \in Topics, NEW k \in Slots[t], NEW q, q.pc # "route", Become(t, k, q),
         UNCHANGED <<route, starterVars>>, ~crashed'
  PROVE  Inv'
<1>1. UNCHANGED <<starter, fetch, missed>>
  BY DEF starterVars
<1>2. \A u \in Topics : \A j \in Slots[u] :
        query'[u][j] = IF u = t /\ j = k THEN q ELSE query[u][j]
  BY DEF Become, Inv, Shape
<1>3. Shape'
  <2>1. query' = [u \in Topics |-> [j \in Slots[u] |-> query'[u][j]]]
    BY DEF Become, Inv, Shape
  <2> QED BY <1>1, <2>1 DEF Inv, Shape
<1>4. Asking'
  BY <1>2 DEF Inv, Asking
<1>5. Counted'
  BY <1>1 DEF Inv, Counted
<1> QED BY <1>3, <1>4, <1>5 DEF Inv, CrashNeedsBroadcasting

\* The answers are applied.
LEMMA AnswerStep ==
  ASSUME Inv, ~crashed, NEW t \in Topics, NEW k \in Slots[t], Step(t, k)
  PROVE  Inv'
<1>1. PICK q : q.pc # "route" /\ Become(t, k, q)
  <2>1. CASE onAssignment(t, k) \/ onAssignmentError(t, k)
    BY <2>1 DEF onAssignment, onAssignmentError, Idle
  <2>2. CASE syncProcessQueue(t, k)
    BY <2>2 DEF syncProcessQueue, Idle
  <2>3. CASE \E x \in query[t][k].list : startReceiving(t, k, x)
    BY <2>3 DEF startReceiving, Idle
  <2> QED BY <2>1, <2>2, <2>3 DEF Step
<1>2. UNCHANGED <<route, starterVars, crashed>>
  BY DEF Step, onAssignment, onAssignmentError, syncProcessQueue, startReceiving
<1> QED BY <1>1, <1>2, BecomeStep

\* The timer: a topic without a route has its question wait.
LEMMA ScanStep ==
  ASSUME Inv, ~crashed, scanAssignments
  PROVE  Inv'
<1>1. UNCHANGED <<route, starter, fetch, crashed>>
  BY DEF scanAssignments, starterVars
<1>2. ASSUME NEW t \in Topics
      PROVE  /\ query'[t] = [k \in Slots[t] |-> query'[t][k]]
             /\ \A k \in Slots[t] : query'[t][k].pc = "route" => route[t] = None
  <2>1. CASE t \notin subscribed \ forgotten
    <3>1. query'[t] = query[t]
      BY <2>1 DEF scanAssignments
    <3> QED BY <3>1 DEF Inv, Shape, Asking
  <2>2. CASE t \in subscribed \ forgotten
    <3> DEFINE slot == CHOOSE k \in Slots[t] : query[t][k] = Idle
               asked == IF route[t] = None THEN [pc |-> "route", list |-> {}]
                        ELSE CHOOSE q \in onRouteForQuery(t, route[t]) : TRUE
    <3>1. query'[t] = [query[t] EXCEPT ![slot] = asked]
      BY <2>2 DEF scanAssignments
    <3>2. asked.pc = "route" => route[t] = None
      BY RouteUsed, NullRoute
    <3>3. query[t] = [k \in Slots[t] |-> query[t][k]]
      BY DEF Inv, Shape
    <3> HIDE DEF slot, asked
    <3>4. \A k \in Slots[t] : query'[t][k] = asked \/ query'[t][k] = query[t][k]
      BY <3>1, <3>3
    <3>5. query'[t] = [k \in Slots[t] |-> query'[t][k]]
      BY <3>1, <3>3
    <3> QED BY <3>2, <3>4, <3>5 DEF Inv, Asking
  <2> QED BY <2>1, <2>2
<1>3. Shape'
  <2>1. query' = [t \in Topics |-> query'[t]]
    BY DEF scanAssignments
  <2>2. query' = [t \in Topics |-> [k \in Slots[t] |-> query'[t][k]]]
    BY <1>2, <2>1
  <2> QED BY <1>1, <2>2 DEF Inv, Shape
<1>4. Asking'
  BY <1>1, <1>2 DEF Asking
<1>5. Counted'
  BY <1>1 DEF Inv, Counted
<1> QED BY <1>1, <1>3, <1>4, <1>5 DEF Inv, CrashNeedsBroadcasting

\* A lookup ends: everyone who waits for it goes on, or the null route is used.
LEMMA RouteReadyStep ==
  ASSUME Inv, ~crashed, NEW t \in Topics, NEW r \in Routes[t] \cup {None}, routeReady(t, r)
  PROVE  Inv'
<1>1. /\ route' = IF r = None THEN route ELSE [route EXCEPT ![t] = r]
      /\ fetch' = IF fetch[t] = "asked" THEN [fetch EXCEPT ![t] = "inside"] ELSE fetch
      /\ fetch[t] = "asked" => MutexFree
      /\ UNCHANGED <<starter, model>>
  BY DEF routeReady
<1>2. Counted'
  BY <1>1, AssignmentAssumption DEF Inv, Shape, Counted, MutexFree
<1>3. fetch' \in [Topics -> {None, "asked", "inside"}] /\ route' = [u \in Topics |-> route'[u]]
  BY <1>1 DEF Inv, Shape
<1>4. CASE Waiting(t) # {} /\ onRouteForQuery(t, r) = {}
  <2>1. r = None /\ model = "BROADCASTING"
    BY <1>4, NullRoute
  <2>2. UNCHANGED <<query, route>>
    BY <1>1, <1>4, <2>1 DEF routeReady
  <2>3. Shape' /\ Asking'
    BY <1>3, <2>2 DEF Inv, Shape, Asking
  <2>4. route'[t] = None /\ Waiting(t)' # {}
    BY <1>4, <2>2 DEF Inv, Asking, Waiting
  <2>5. CrashNeedsBroadcasting'
    BY <1>1, <2>1, <2>4 DEF CrashNeedsBroadcasting
  <2> QED BY <1>2, <2>3, <2>5 DEF Inv
<1>5. CASE ~(Waiting(t) # {} /\ onRouteForQuery(t, r) = {})
  <2> DEFINE next == CHOOSE q \in onRouteForQuery(t, r) : TRUE
  <2>1. query' = [query EXCEPT ![t] = [k \in Slots[t] |->
                    IF k \in Waiting(t) THEN next ELSE query[t][k]]]
    BY <1>5 DEF routeReady
  <2>2. Waiting(t) # {} => next.pc # "route"
    BY <1>5, RouteUsed
  <2> HIDE DEF next
  <2>3. /\ query' = [u \in Topics |-> [k \in Slots[u] |-> query'[u][k]]]
        /\ \A u \in Topics \ {t} : \A k \in Slots[u] : query'[u][k] = query[u][k]
        /\ \A k \in Slots[t] : query'[t][k] = IF k \in Waiting(t) THEN next ELSE query[t][k]
    BY <2>1 DEF Inv, Shape
  <2>4. \A k \in Slots[t] : query'[t][k].pc # "route"
    BY <2>2, <2>3 DEF Waiting
  <2>5. \A u \in Topics \ {t} : route'[u] = route[u]
    BY <1>1 DEF Inv, Shape
  <2>6. Shape'
    BY <1>3, <2>3 DEF Shape
  <2>7. Asking'
    BY <2>3, <2>4, <2>5 DEF Inv, Asking
  <2>8. ~crashed'
    BY <1>5 DEF routeReady
  <2> QED BY <1>2, <2>6, <2>7, <2>8 DEF Inv, CrashNeedsBroadcasting
<1> QED BY <1>4, <1>5

\* A lookup without a name server: who waits for it is forgotten.
LEMMA ForgetStep ==
  ASSUME Inv, ~crashed, NEW t \in Topics, forgetLookup(t)
  PROVE  Inv'
<1>1. UNCHANGED <<route, starter, fetch, crashed>>
  BY DEF forgetLookup
<1>2. query' = [query EXCEPT ![t] = [k \in Slots[t] |->
                  IF k \in Waiting(t) THEN Idle ELSE query[t][k]]]
  BY DEF forgetLookup
<1>3. /\ query' = [u \in Topics |-> [k \in Slots[u] |-> query'[u][k]]]
      /\ \A u \in Topics : \A k \in Slots[u] : query'[u][k] = query[u][k] \/ query'[u][k] = Idle
  BY <1>2 DEF Inv, Shape
<1>4. Shape' /\ Asking' /\ Counted'
  <2>1. Idle.pc # "route"
    BY DEF Idle
  <2>2. Asking'
    BY <1>1, <1>3, <2>1 DEF Inv, Asking
  <2>3. Shape'
    BY <1>1, <1>3 DEF Inv, Shape
  <2>4. Counted'
    BY <1>1 DEF Inv, Counted
  <2> QED BY <2>2, <2>3, <2>4
<1> QED BY <1>1, <1>4 DEF Inv, CrashNeedsBroadcasting

-----------------------------------------------------------------------------
(* fetchRoutes, and what leaves the questions alone *)

\* start asks, tests the count, waits; a callback ends.
LEMMA FetchStep ==
  ASSUME Inv, ~crashed,
         \/ fetchRoutes \/ testCountdown \/ waitCountdown
         \/ \E t \in Topics : callbackEnd(t)
  PROVE  Inv'
<1>1. UNCHANGED <<route, query, crashed>>
  BY DEF fetchRoutes, testCountdown, waitCountdown, callbackEnd
<1>2. fetch' \in [Topics -> {None, "asked", "inside"}]
  BY DEF fetchRoutes, testCountdown, waitCountdown, callbackEnd, Inv, Shape
<1>3. Shape' /\ Asking'
  BY <1>1, <1>2 DEF Inv, Shape, Asking
<1>4. Counted'
  <2>1. CASE fetchRoutes
    BY <2>1, AssignmentAssumption DEF fetchRoutes, Inv, Counted
  <2>2. CASE testCountdown
    <3>1. countdown <= 0 => \A t \in Topics : fetch[t] # "asked"
      <4> DEFINE A == {t \in Topics : fetch[t] = "asked"}
      <4>1. IsFiniteSet(A)
        BY AssignmentAssumption, FS_Subset
      <4>2. Cardinality(A) \in Nat /\ (Cardinality(A) = 0 <=> A = {})
        BY <4>1, FS_CardinalityType, FS_EmptySet
      <4> QED BY <4>2 DEF countdown
    <3>2. countdown \in Nat
      BY AssignmentAssumption, FS_Subset, FS_CardinalityType DEF countdown
    <3> QED BY <2>2, <3>1, <3>2 DEF testCountdown, Inv, Counted
  <2>3. CASE waitCountdown
    BY <2>3 DEF waitCountdown, Inv, Counted
  <2>4. ASSUME NEW t \in Topics, callbackEnd(t) PROVE Counted'
    <3>1. fetch[t] = "inside" /\ fetch'[t] = None /\ \A u \in Topics \ {t} : fetch'[u] = fetch[u]
      BY <2>4 DEF callbackEnd, Inv, Shape
    <3>2. starter' = starter \/ (starter = "asleep" /\ starter' = "test")
      BY <2>4 DEF callbackEnd
    <3> QED BY <3>1, <3>2, AssignmentAssumption DEF Inv, Counted
  <2> QED BY <2>1, <2>2, <2>3, <2>4
<1> QED BY <1>1, <1>3, <1>4 DEF Inv, CrashNeedsBroadcasting

\* The application, the name server and the load balancer.
LEMMA OutsideStep ==
  ASSUME Inv, ~crashed, NEW t \in Topics,
         \/ subscribe(t) \/ unsubscribe(t)
         \/ \E r \in Routes[t] : updateRouteInfo(t, r)
         \/ \E b \in Responses[t] : rebalance(t, b)
  PROVE  Inv'
<1>1. UNCHANGED <<query, starter, fetch, crashed>>
  BY DEF subscribe, unsubscribe, updateRouteInfo, rebalance, starterVars
<1>2. /\ route' = [u \in Topics |-> route'[u]]
      /\ \A u \in Topics : route[u] = None => route'[u] = None
  BY DEF subscribe, unsubscribe, updateRouteInfo, rebalance, Inv, Shape
<1>3. Shape' /\ Asking' /\ Counted'
  BY <1>1, <1>2 DEF Inv, Shape, Asking, Counted
<1> QED BY <1>1, <1>3 DEF Inv, CrashNeedsBroadcasting

-----------------------------------------------------------------------------
(* The results *)

\* Every step keeps the invariant.
LEMMA AssignmentInductive == Inv /\ [Next]_vars => Inv'
<1> SUFFICES ASSUME Inv, [Next]_vars PROVE Inv'
  OBVIOUS
<1>1. CASE UNCHANGED vars
  BY <1>1 DEF vars, Inv, Shape, Asking, Counted, CrashNeedsBroadcasting, Waiting
<1>2. CASE Next
  BY <1>2, FetchStep, ScanStep, RouteReadyStep, ForgetStep, OutsideStep, AnswerStep DEF Next
<1> QED BY <1>1, <1>2

\* Before fetchRoutes.
LEMMA AssignmentInitial == Init => Inv
<1> SUFFICES ASSUME Init PROVE Inv
  OBVIOUS
<1>1. Shape
  BY DEF Init, Shape
<1>2. Asking
  BY DEF Init, Asking, Idle
<1>3. Counted
  BY AssignmentAssumption DEF Init, Counted
<1> QED BY <1>1, <1>2, <1>3 DEF Inv, Init, CrashNeedsBroadcasting

\* In every reachable state.
LEMMA AssignmentInvariant == Spec => []Inv
BY AssignmentInductive, AssignmentInitial, PTL DEF Spec

\* queryAssignment uses a null route only in a BROADCASTING consumer that asked for
\* the route of a topic and got none, whatever routes come, change and go.
THEOREM CrashesNeedBroadcasting == Spec => []CrashNeedsBroadcasting
BY AssignmentInvariant, PTL DEF Inv

\* When start goes on, every callback of fetchRoutes has counted down and one at
\* most is still inside, for every number of topics.
THEOREM StartIsCounted == Spec => []StartedCounted
<1>1. Inv => StartedCounted
  <2> SUFFICES ASSUME Inv, starter = "done"
               PROVE  countdown = 0 /\ Cardinality({t \in Topics : fetch[t] = "inside"}) <= 1
    BY DEF StartedCounted
  <2>1. {t \in Topics : fetch[t] = "asked"} = {}
    BY DEF Inv, Counted
  <2>2. countdown = 0
    BY <2>1, FS_EmptySet DEF countdown
  <2> DEFINE I == {t \in Topics : fetch[t] = "inside"}
  <2>3. CASE I = {}
    BY <2>2, <2>3, FS_EmptySet
  <2>4. CASE I # {}
    <3>1. PICK t : I = {t}
      BY <2>4 DEF Inv, Counted
    <3> QED BY <2>2, <3>1, FS_Singleton
  <2> QED BY <2>3, <2>4
<1> QED BY <1>1, AssignmentInvariant, PTL

(***************************************************************************)
(* RateLimiter: the permits that a second gives out.                       *)
(***************************************************************************)

-----------------------------------------------------------------------------
(* The permits of the slots                                                *)

\* The slots of a second are finitely many.
LEMMA SlotsFinite ==
  /\ IsFiniteSet(SlotIds)
  /\ Cardinality(SlotIds) = Partition
BY LimiterAssumption, FS_Interval DEF SlotIds

\* No slot gets more permits than LargestSlot, which is at most the limit.
LEMMA PartitionType ==
  /\ \A i \in SlotIds : partition_(i) \in 0 .. LargestSlot
  /\ LargestSlot \in Nat
  /\ LargestSlot <= Permit
<1>1. /\ Permit \div Partition \in Nat /\ Permit % Partition \in Nat
      /\ Permit = Partition * (Permit \div Partition) + (Permit % Partition)
  BY LimiterAssumption, Division
<1> DEFINE avg == Permit \div Partition
           r == Permit % Partition
<1>2. \A i \in SlotIds : partition_(i) = avg \/ (r > 0 /\ partition_(i) = avg + 1)
  <2> DEFINE Extra(i) == \E k \in 0 .. r - 1 : i = k * (Partition \div r)
  <2>1. \A i \in SlotIds : partition_(i) = avg + IF r > 0 /\ Extra(i) THEN 1 ELSE 0
    BY DEF partition_
  <2> HIDE DEF Extra, avg, r
  <2>2. avg \in Nat
    BY <1>1 DEF avg
  <2> QED BY <2>1, <2>2
<1>3. LargestSlot = avg + (IF r > 0 THEN 1 ELSE 0)
  BY DEF LargestSlot
<1>4. avg \in Nat /\ r \in Nat /\ Permit = Partition * avg + r /\ Partition \in Nat \ {0}
  BY <1>1, LimiterAssumption
<1> HIDE DEF avg, r
<1>5. avg <= Partition * avg
  BY <1>4
<1>6. avg + r <= Permit /\ Permit \in Nat
  BY <1>4, <1>5
<1> QED BY <1>2, <1>3, <1>4, <1>6

\* The slots have no more permits together than the limit.
LEMMA PartitionsSum ==
  SumFunctionOnSet([i \in SlotIds |-> partition_(i)], SlotIds) <= Permit
<1> DEFINE avg == Permit \div Partition
           r == Permit % Partition
           step == Partition \div r
           E == {k * step : k \in 0 .. r - 1}
           f == [i \in SlotIds |-> partition_(i)]
<1>1. /\ avg \in Nat /\ r \in Nat
      /\ Permit = Partition * avg + r
  BY LimiterAssumption, Division
<1>2. IsFiniteSet(0 .. r - 1) /\ Cardinality(0 .. r - 1) = r
  <2> HIDE DEF r
  <2>1. r - 1 \in Int /\ (0 > r - 1 => r = 0) /\ r - 1 - 0 + 1 = r
    BY <1>1
  <2>2. IsFiniteSet(0 .. (r - 1)) /\ Cardinality(0 .. (r - 1)) = IF 0 > (r - 1) THEN 0 ELSE (r - 1) - 0 + 1
    BY <2>1, FS_Interval
  <2> QED BY <1>1, <2>1, <2>2
<1>3. IsFiniteSet(E) /\ Cardinality(E) <= r
  <2> DEFINE g == [k \in 0 .. r - 1 |-> k * step]
  <2>1. g \in Surjection(0 .. r - 1, E)
    <3> HIDE DEF step
    <3> QED BY DEF Surjection
  <2> HIDE DEF E, g
  <2> QED BY <1>2, <2>1, FS_Surjection
<1>4. \A i \in SlotIds : f[i] = avg + IF i \in E THEN 1 ELSE 0
  <2>1. ASSUME NEW i \in SlotIds PROVE f[i] = avg + IF i \in E THEN 1 ELSE 0
    <3>1. f[i] = avg + IF r > 0 /\ \E k \in 0 .. r - 1 : i = k * step THEN 1 ELSE 0
      BY DEF partition_
    <3>2. (\E k \in 0 .. r - 1 : i = k * step) <=> i \in E
      OBVIOUS
    <3>3. i \in E => r > 0
      BY <1>1
    <3> QED BY <3>1, <3>2, <3>3
  <2> QED BY <2>1
<1>5. SumFunctionOnSet(f, SlotIds) = Cardinality(SlotIds) * avg + Cardinality(SlotIds \cap E)
  <2> HIDE DEF f, E, avg, r
  <2> QED BY <1>1, <1>4, SlotsFinite, SumWithExtras
<1>6. Cardinality(SlotIds \cap E) <= r /\ Cardinality(SlotIds \cap E) \in Nat
  <2>1. /\ IsFiniteSet(SlotIds \cap E) /\ Cardinality(SlotIds \cap E) <= Cardinality(E)
    BY <1>3, FS_Subset
  <2>2. Cardinality(SlotIds \cap E) \in Nat /\ Cardinality(E) \in Nat
    BY <1>3, <2>1, FS_CardinalityType
  <2> HIDE DEF r, E
  <2> QED BY <1>1, <1>3, <2>1, <2>2
<1> HIDE DEF avg, r, E, f
<1>7. Partition * avg \in Nat
  BY <1>1, LimiterAssumption
<1>8. SumFunctionOnSet(f, SlotIds) <= Permit
  BY <1>1, <1>5, <1>6, <1>7, SlotsFinite
<1> QED BY <1>8 DEF f

-----------------------------------------------------------------------------
(* The type invariant                                                      *)

\* The old slot that acquire takes from is one that has a permit.
LEMMA LatestReusable ==
  ASSUME LimiterTypeOK, NEW idx \in SlotIds, Reusable(idx) # {}
  PROVE  Latest(idx) \in SlotIds /\ permits[Latest(idx)] > 0
<1> DEFINE Back(i) == (idx + Partition - i) % Partition
           S == {Back(i) : i \in Reusable(idx)}
<1>1. \A i \in SlotIds : Back(i) \in Nat
  BY LimiterAssumption DEF SlotIds
<1>2. S \in SUBSET Nat /\ S # {}
  BY <1>1 DEF Reusable
<1>3. PICK x \in S : \A y \in S : x <= y
  BY <1>2, LeastNatural
<1>4. \E i \in Reusable(idx) : \A j \in Reusable(idx) : Back(i) <= Back(j)
  BY <1>3
<1>5. Latest(idx) \in Reusable(idx)
  BY <1>4 DEF Latest
<1> QED BY <1>5 DEF Reusable

\* A new limiter has the types of LimiterTypeOK.
LEMMA LimiterInitType == LimiterInit => LimiterTypeOK
<1>1. 0 \in SlotIds /\ 0 \in 0 .. Word - 1 /\ 0 \in 0 .. MaxUsed /\ 0 \in 0 .. TickInterval
  BY LimiterAssumption DEF SlotIds, TickInterval
<1> SUFFICES ASSUME LimiterInit PROVE LimiterTypeOK
  OBVIOUS
<1>2. /\ permits \in [SlotIds -> 0 .. Word - 1]
      /\ used \in [SlotIds -> 0 .. MaxUsed]
      /\ now \in SlotIds /\ slept \in 0 .. TickInterval
  BY <1>1 DEF LimiterInit
<1>3. /\ worker \in [Workers -> [pc : {"idle", "locking", "testing", "waiting", "taking"}, idx : SlotIds]]
      /\ ticker \in [pc : {"asleep", "filling"}, idx : SlotIds]
      /\ crossed \in BOOLEAN
  BY <1>1 DEF LimiterInit
<1> QED BY <1>2, <1>3 DEF LimiterTypeOK

\* Every step of threads, observer and clock keeps the types.
LEMMA LimiterNextType == LimiterTypeOK /\ [LimiterNext]_limiterVars => LimiterTypeOK'
<1> SUFFICES ASSUME LimiterTypeOK, [LimiterNext]_limiterVars PROVE LimiterTypeOK'
  OBVIOUS
<1> USE LimiterAssumption
<1>1. CASE passTime
  <2>1. now' \in SlotIds /\ slept' \in 0 .. TickInterval
    BY <1>1 DEF LimiterTypeOK, SlotIds, passTime, TickInterval
  <2>2. used' \in [SlotIds -> 0 .. MaxUsed] /\ crossed' \in BOOLEAN
    BY <1>1 DEF LimiterTypeOK, passTime, Free
  <2> QED BY <1>1, <2>1, <2>2 DEF LimiterTypeOK, passTime
<1>2. CASE tick
  BY <1>2 DEF LimiterTypeOK, tick, TickInterval
<1>3. CASE fillSlot
  <2>1. permits' \in [SlotIds -> 0 .. Word - 1]
    <3>1. partition_(ticker.idx) \in 0 .. Word - 1
      BY PartitionType DEF LimiterTypeOK
    <3> QED BY <1>3, <3>1 DEF LimiterTypeOK, fillSlot
  <2>2. worker' \in [Workers -> [pc : {"idle", "locking", "testing", "waiting", "taking"}, idx : SlotIds]]
    BY <1>3 DEF LimiterTypeOK, fillSlot, Woken
  <2>3. 0 \in SlotIds
    BY DEF SlotIds
  <2> QED BY <1>3, <2>1, <2>2, <2>3 DEF LimiterTypeOK, fillSlot
<1>4. ASSUME NEW w \in Workers, readSlot(w) \/ acquire(w) PROVE LimiterTypeOK'
  <2>1. 0 \in SlotIds
    BY DEF SlotIds
  <2>2. CASE readSlot(w)
    BY <2>2 DEF LimiterTypeOK, readSlot
  <2>3. ASSUME Use PROVE used' \in [SlotIds -> 0 .. MaxUsed]
    BY <2>3 DEF LimiterTypeOK, Use
  <2>4. ASSUME NEW at \in {"idle", "taking", "waiting"}, Go(w, at)
        PROVE  worker' \in [Workers -> [pc : {"idle", "locking", "testing", "waiting", "taking"}, idx : SlotIds]]
    BY <2>1, <2>4 DEF LimiterTypeOK, Go
  <2>5. CASE acquireNow(w)
    <3>1. worker[w].idx \in SlotIds
      BY DEF LimiterTypeOK
    <3>2. Latest(worker[w].idx) \in SlotIds /\ permits[Latest(worker[w].idx)] > 0
      BY <2>5, <3>1, LatestReusable DEF acquireNow
    <3>3. permits' \in [SlotIds -> 0 .. Word - 1]
      BY <2>5, <3>2 DEF LimiterTypeOK, acquireNow
    <3> QED BY <2>3, <2>4, <2>5, <3>3 DEF LimiterTypeOK, acquireNow
  <2>6. CASE testSlot(w)
    BY <2>4, <2>6 DEF LimiterTypeOK, testSlot
  <2>7. CASE takePermit(w)
    <3>1. (permits[now] + Word - 1) % Word \in 0 .. Word - 1
      BY DEF LimiterTypeOK
    <3>2. permits' \in [SlotIds -> 0 .. Word - 1]
      BY <2>7, <3>1 DEF LimiterTypeOK, takePermit
    <3> QED BY <2>3, <2>4, <2>7, <3>2 DEF LimiterTypeOK, takePermit
  <2> QED BY <1>4, <2>2, <2>5, <2>6, <2>7 DEF acquire
<1>5. CASE UNCHANGED limiterVars
  BY <1>5 DEF LimiterTypeOK, limiterVars
<1> QED BY <1>1, <1>2, <1>3, <1>4, <1>5 DEF LimiterNext

-----------------------------------------------------------------------------
(* The bound                                                               *)

\* The slots that ended since slot j was the current one.
Age(j) == IF j <= now THEN now - j ELSE now + Partition - j

Recent(a) == {j \in SlotIds : Age(j) <= a}

\* The fills that may have happened since the slot of age a began: none is on its way
\* while the observer sleeps.
Fills(a) ==
  IF ticker.pc = "filling" THEN a \div TickInterval
  ELSE IF a >= slept THEN ((a - slept) \div TickInterval) + 1 ELSE 0

Left == SumFunctionOnSet(permits, SlotIds)

\* What was used since a slot began, and what is left, come from what was there when
\* it began and from the fills since.
Accounted ==
  \A a \in SlotIds : SumFunctionOnSet(used, Recent(a)) + Left <= Permit + Fills(a) * LargestSlot

OneTaker ==
  \A v, w \in Workers : worker[v].pc = "taking" /\ worker[w].pc = "taking" => v = w

TakerHasPermit == \A w \in Workers : worker[w].pc = "taking" => permits[now] > 0

LimiterInv ==
  /\ LimiterTypeOK
  /\ ticker.pc = "filling" => slept = 0
  /\ OneTaker
  /\ ~crossed => /\ \A i \in SlotIds : permits[i] <= partition_(i)
                 /\ TakerHasPermit
                 /\ Accounted

\* The observer sleeps for at least one slot.
LEMMA TickIntervalType == TickInterval \in Nat /\ TickInterval # 0
BY LimiterAssumption DEF TickInterval

\* The age of a slot is a number of slots less than a second.
LEMMA AgeType == LimiterTypeOK => \A j \in SlotIds : Age(j) \in SlotIds
BY LimiterAssumption DEF LimiterTypeOK, SlotIds, Age

\* The slots up to an age are finitely many.
LEMMA RecentFinite == \A a : IsFiniteSet(Recent(a)) /\ Recent(a) \subseteq SlotIds
BY SlotsFinite, FS_Subset DEF Recent

\* What was used in a set of slots is a natural number.
LEMMA UsedType ==
  LimiterTypeOK => \A a \in SlotIds : SumFunctionOnSet(used, Recent(a)) \in Nat
<1> SUFFICES ASSUME LimiterTypeOK, NEW a \in SlotIds PROVE SumFunctionOnSet(used, Recent(a)) \in Nat
  OBVIOUS
<1>1. \A j \in Recent(a) : used[j] \in Nat
  BY RecentFinite, LimiterAssumption DEF LimiterTypeOK
<1> QED BY <1>1, RecentFinite, SumType

\* What is left in all slots is a natural number.
LEMMA LeftType ==
  LimiterTypeOK => Left \in Nat
<1> SUFFICES ASSUME LimiterTypeOK PROVE Left \in Nat
  OBVIOUS
<1>1. \A j \in SlotIds : permits[j] \in Nat
  BY LimiterAssumption DEF LimiterTypeOK
<1> QED BY <1>1, SlotsFinite, SumType DEF Left

\* No more is left than the limit.
LEMMA LeftBounded ==
  ASSUME LimiterTypeOK, \A i \in SlotIds : permits[i] <= partition_(i)
  PROVE  Left <= Permit
<1> DEFINE f == [i \in SlotIds |-> partition_(i)]
<1>1. \A i \in SlotIds : permits[i] \in Int /\ f[i] \in Int /\ permits[i] <= f[i]
  BY LimiterAssumption, PartitionType DEF LimiterTypeOK
<1>2. SumFunctionOnSet(f, SlotIds) <= Permit
  BY PartitionsSum
<1>3. SumFunctionOnSet(f, SlotIds) \in Int
  <2> HIDE DEF f
  <2> QED BY <1>1, SlotsFinite, SumType
<1>4. Left <= SumFunctionOnSet(f, SlotIds)
  <2> HIDE DEF f
  <2> QED BY <1>1, SlotsFinite, SumMonotone DEF Left
<1> HIDE DEF f
<1> QED BY <1>2, <1>3, <1>4, LeftType, LimiterAssumption

\* The fills within a time are those of a second at most.
LEMMA FillsType ==
  LimiterTypeOK => \A a \in SlotIds : Fills(a) \in Nat /\ Fills(a) <= FillsPerSecond /\ FillsPerSecond \in Nat
<1> SUFFICES ASSUME LimiterTypeOK, NEW a \in SlotIds
             PROVE  Fills(a) \in Nat /\ Fills(a) <= FillsPerSecond /\ FillsPerSecond \in Nat
  OBVIOUS
<1> DEFINE top == (Partition - 1) \div TickInterval
<1>1. a \in Nat /\ Partition - 1 \in Nat /\ a <= Partition - 1 /\ slept \in Nat
  BY LimiterAssumption, TickIntervalType DEF SlotIds, LimiterTypeOK
<1>2. top \in Nat /\ FillsPerSecond = top + 1
  BY <1>1, TickIntervalType, Division DEF FillsPerSecond
<1>3. a \div TickInterval \in Nat /\ a \div TickInterval <= top
  BY <1>1, TickIntervalType, Division, DivisionMonotone
<1>4. a >= slept => /\ (a - slept) \div TickInterval \in Nat
                    /\ (a - slept) \div TickInterval <= top
  <2> SUFFICES ASSUME a >= slept
               PROVE  /\ (a - slept) \div TickInterval \in Nat
                      /\ (a - slept) \div TickInterval <= top
    OBVIOUS
  <2> DEFINE d == a - slept
  <2>1. d \in Nat /\ d <= Partition - 1
    BY <1>1
  <2> HIDE DEF d
  <2>2. d \div TickInterval \in Nat /\ d \div TickInterval <= top
    BY <1>1, <2>1, TickIntervalType, Division, DivisionMonotone
  <2> QED BY <2>2 DEF d
<1> HIDE DEF top
<1> DEFINE q == a \div TickInterval
           p == (a - slept) \div TickInterval
<1>5. Fills(a) = IF ticker.pc = "filling" THEN q ELSE IF a >= slept THEN p + 1 ELSE 0
  BY DEF Fills
<1>6. q \in Nat /\ q <= top /\ (a >= slept => p \in Nat /\ p <= top)
  BY <1>3, <1>4
<1> HIDE DEF p, q
<1> QED BY <1>2, <1>5, <1>6

\* More fills account for more.
LEMMA MoreFills ==
  ASSUME NEW x \in Nat, NEW y \in Nat, x <= y
  PROVE  /\ x * LargestSlot \in Nat /\ y * LargestSlot \in Nat
         /\ x * LargestSlot <= y * LargestSlot
         /\ (x + 1) * LargestSlot = x * LargestSlot + LargestSlot
<1> DEFINE L == LargestSlot
<1>1. L \in Nat
  BY PartitionType
<1> HIDE DEF L
<1>2. x * L \in Nat /\ y * L \in Nat /\ x * L <= y * L /\ (x + 1) * L = x * L + L
  BY <1>1
<1> QED BY <1>2 DEF L

\* The whole second.
LEMMA LimiterInvImplies == LimiterInv => ConsumedBounded
<1> SUFFICES ASSUME LimiterInv, ~crossed PROVE Consumed <= Permit + FillsPerSecond * LargestSlot
  BY DEF LimiterInv, ConsumedBounded
<1>1. LimiterTypeOK
  BY DEF LimiterInv
<1> DEFINE a == Partition - 1
<1>2. a \in SlotIds
  BY LimiterAssumption DEF SlotIds
<1>3. Recent(a) = SlotIds
  <2>1. \A j \in SlotIds : Age(j) <= a
    BY <1>1, AgeType, LimiterAssumption DEF SlotIds
  <2> QED BY <2>1 DEF Recent
<1>4. Consumed + Left <= Permit + Fills(a) * LargestSlot
  BY <1>2, <1>3 DEF LimiterInv, Accounted, Consumed
<1>5. Consumed \in Nat /\ Left \in Nat
  BY <1>1, <1>2, <1>3, UsedType, LeftType DEF Consumed
<1>6. Fills(a) \in Nat /\ FillsPerSecond \in Nat /\ Fills(a) <= FillsPerSecond
  BY <1>1, <1>2, FillsType
<1>7. /\ Fills(a) * LargestSlot \in Nat /\ FillsPerSecond * LargestSlot \in Nat
      /\ Fills(a) * LargestSlot <= FillsPerSecond * LargestSlot
  BY <1>6, MoreFills
<1> HIDE DEF a
<1> QED BY <1>4, <1>5, <1>7, LimiterAssumption

\* A new limiter has used nothing and holds the limit.
LEMMA LimiterInitInv == LimiterInit => LimiterInv
<1> SUFFICES ASSUME LimiterInit PROVE LimiterInv
  OBVIOUS
<1>1. LimiterTypeOK
  BY LimiterInitType
<1>2. \A i \in SlotIds : permits[i] <= partition_(i)
  BY PartitionType DEF LimiterInit
<1>3. Left <= Permit
  BY <1>1, <1>2, LeftBounded
<1>4. ASSUME NEW a \in SlotIds
      PROVE  SumFunctionOnSet(used, Recent(a)) + Left <= Permit + Fills(a) * LargestSlot
  <2>1. \A j \in Recent(a) : used[j] = 0
    BY RecentFinite DEF LimiterInit
  <2>2. SumFunctionOnSet(used, Recent(a)) = 0
    BY <2>1, RecentFinite, SumZero
  <2>4. SumFunctionOnSet(used, Recent(a)) \in Nat /\ Left \in Nat
    BY <1>1, UsedType, LeftType
  <2>5. Fills(a) * LargestSlot \in Nat
    BY <1>1, FillsType, MoreFills
  <2> QED BY <1>3, <2>2, <2>4, <2>5, LimiterAssumption
<1> QED BY <1>1, <1>2, <1>4 DEF LimiterInv, LimiterInit, OneTaker, TakerHasPermit, Accounted

\* A slot ends: the slots of age a are those that had age a - 1, and the new one.
LEMMA passTimeAccounted ==
  ASSUME LimiterInv, LimiterTypeOK', passTime, ~crossed' PROVE Accounted'
<1> SUFFICES ASSUME NEW a \in SlotIds
             PROVE  SumFunctionOnSet(used', Recent(a)') + Left' <= Permit + Fills(a)' * LargestSlot
  BY DEF Accounted
<1>1. LimiterTypeOK /\ ~crossed
  BY DEF LimiterInv, LimiterTypeOK, passTime
<1>2. Left' = Left /\ Left \in Nat /\ Left <= Permit
  BY <1>1, LeftType, LeftBounded DEF passTime, Left, LimiterInv
<1>3. now' \in SlotIds /\ now' = IF now = Partition - 1 THEN 0 ELSE now + 1
  <2>1. now \in 0 .. Partition - 1 /\ Partition \in Nat /\ Partition # 0
    BY <1>1, LimiterAssumption DEF SlotIds, LimiterTypeOK
  <2>2. now' = IF now = Partition - 1 THEN 0 ELSE now + 1
    BY <2>1, NextRemainder DEF passTime
  <2> QED BY <2>1, <2>2 DEF SlotIds
<1>4. used' = [i \in SlotIds |-> IF i = now' THEN 0 ELSE used[i]]
  BY DEF passTime
<1>5. \A j \in SlotIds : Age(j)' = IF j = now' THEN 0 ELSE Age(j) + 1
  <2> SUFFICES ASSUME NEW j \in SlotIds PROVE Age(j)' = IF j = now' THEN 0 ELSE Age(j) + 1
    OBVIOUS
  <2>1. now \in Nat /\ now <= Partition - 1 /\ Partition \in Nat /\ j \in Nat /\ j <= Partition - 1
    BY <1>1, LimiterAssumption DEF SlotIds, LimiterTypeOK
  <2>2. Age(j)' = IF j <= now' THEN now' - j ELSE now' + Partition - j
    BY DEF Age
  <2>3. Age(j) = IF j <= now THEN now - j ELSE now + Partition - j
    BY DEF Age
  <2>4. CASE now = Partition - 1
    BY <1>3, <2>1, <2>2, <2>3, <2>4
  <2>5. CASE now # Partition - 1
    BY <1>3, <2>1, <2>2, <2>3, <2>5
  <2> QED BY <2>4, <2>5
<1>6. Age(now') = Partition - 1
  BY <1>1, <1>3, LimiterAssumption DEF Age, SlotIds, LimiterTypeOK
<1> DEFINE past == Recent(a - 1)
<1>7. now' \notin past /\ Recent(a)' = past \cup {now'}
  <2>1. a \in Nat /\ a <= Partition - 1 /\ Partition \in Nat
    BY LimiterAssumption DEF SlotIds
  <2>2. now' \notin past
    BY <1>6, <2>1 DEF Recent
  <2>3. \A j \in SlotIds : Age(j) \in Nat
    BY <1>1, AgeType, LimiterAssumption DEF SlotIds
  <2>4. \A j \in SlotIds : Age(j)' <= a <=> j = now' \/ Age(j) <= a - 1
    BY <1>5, <2>1, <2>3
  <2>5. Recent(a)' = {j \in SlotIds : Age(j)' <= a}
    BY DEF Recent
  <2>6. past = {j \in SlotIds : Age(j) <= a - 1}
    BY DEF Recent
  <2> HIDE DEF past
  <2> QED BY <1>3, <2>2, <2>4, <2>5, <2>6
<1>8. \A j \in SlotIds : used[j] \in Nat /\ used'[j] \in Nat
  BY <1>1, <1>4, LimiterAssumption DEF LimiterTypeOK
<1>9. SumFunctionOnSet(used', Recent(a)') = SumFunctionOnSet(used, past)
  <2>1. IsFiniteSet(past) /\ past \subseteq SlotIds
    BY RecentFinite
  <2> HIDE DEF past
  <2>2. \A j \in past \cup {now'} : used'[j] \in Int
    BY <1>3, <1>8, <2>1
  <2>3. SumFunctionOnSet(used', past \cup {now'}) = used'[now'] + SumFunctionOnSet(used', past)
    BY <1>7, <2>1, <2>2, SumAdd
  <2>4. \A j \in past : used[j] \in Int /\ used'[j] = used[j]
    BY <1>4, <1>7, <1>8, <2>1
  <2>5. SumFunctionOnSet(used', past) = SumFunctionOnSet(used, past)
    BY <2>1, <2>4, SumSame
  <2>6. used'[now'] = 0 /\ SumFunctionOnSet(used, past) \in Int
    BY <1>3, <1>4, <2>1, <2>4, SumType
  <2> QED BY <1>7, <2>3, <2>5, <2>6
<1>10. Fills(a)' \in Nat
  <2>1. LimiterTypeOK => Fills(a) \in Nat
    BY FillsType
  <2>2. a \in Nat /\ slept' \in Nat /\ a \div TickInterval \in Nat
    <3>1. a \in Nat
      BY LimiterAssumption DEF SlotIds
    <3>2. slept' \in 0 .. TickInterval
      BY DEF LimiterTypeOK, TickInterval
    <3> QED BY <3>1, <3>2, TickIntervalType, Division
  <2>3. a >= slept' => (a - slept') \div TickInterval \in Nat
    <3>1. ASSUME NEW c \in Nat, a >= c PROVE (a - c) \div TickInterval \in Nat
      <4>1. a - c \in Nat
        BY <2>2, <3>1
      <4> QED BY <4>1, TickIntervalType, Division
    <3> QED BY <2>2, <3>1
  <2>4. Fills(a)' = IF ticker'.pc = "filling" THEN a \div TickInterval
                    ELSE IF a >= slept' THEN ((a - slept') \div TickInterval) + 1 ELSE 0
    BY DEF Fills
  <2> QED BY <2>2, <2>3, <2>4
<1>11. CASE a = 0
  <2>1. past = {}
    <3>1. \A j \in SlotIds : Age(j) \in Nat
      BY <1>1, AgeType, LimiterAssumption DEF SlotIds
    <3>2. \A j \in SlotIds : ~ (Age(j) <= a - 1)
      BY <1>11, <3>1
    <3> QED BY <3>2 DEF Recent
  <2>2. SumFunctionOnSet(used, past) = 0
    BY <2>1, SumEmpty
  <2>3. Fills(a)' * LargestSlot \in Nat
    BY <1>10, MoreFills
  <2> HIDE DEF past
  <2> QED BY <1>2, <1>9, <2>2, <2>3, LimiterAssumption
<1>12. CASE a # 0
  <2> DEFINE b == a - 1
  <2>1. b \in SlotIds /\ b \in Nat /\ a = b + 1
    BY <1>12, LimiterAssumption DEF SlotIds
  <2>2. SumFunctionOnSet(used, Recent(b)) + Left <= Permit + Fills(b) * LargestSlot
    BY <1>1, <2>1 DEF LimiterInv, Accounted
  <2>3. Fills(b) \in Nat /\ SumFunctionOnSet(used, Recent(b)) \in Nat
    BY <1>1, <2>1, FillsType, UsedType
  <2>4. Fills(b) <= Fills(a)'
    <3>1. ticker' = ticker /\ slept \in Nat /\ slept' \in Nat /\ slept <= TickInterval
      BY <1>1, TickIntervalType DEF passTime, LimiterTypeOK
    <3>2. CASE ticker.pc = "filling"
      <4>1. b \div TickInterval <= a \div TickInterval
        BY <2>1, TickIntervalType, DivisionMonotone
      <4> QED BY <3>1, <3>2, <4>1 DEF Fills
    <3>3. CASE ticker.pc # "filling" /\ slept < TickInterval
      <4>1. slept' = slept + 1
        BY <1>1, <3>3 DEF passTime, LimiterTypeOK
      <4>2. (a >= slept + 1 <=> b >= slept) /\ a - (slept + 1) = b - slept
        BY <2>1, <3>1
      <4> HIDE DEF b
      <4>3. Fills(b) = IF b >= slept THEN ((b - slept) \div TickInterval) + 1 ELSE 0
        BY <3>3 DEF Fills
      <4>4. Fills(a)' = IF a >= slept + 1 THEN ((a - (slept + 1)) \div TickInterval) + 1 ELSE 0
        BY <3>1, <3>3, <4>1 DEF Fills
      <4>5. Fills(a)' = Fills(b)
        BY <4>2, <4>3, <4>4
      <4> QED BY <2>3, <4>5
    <3>4. CASE ticker.pc # "filling" /\ ~ (slept < TickInterval)
      <4>1. slept' = slept
        BY <3>4 DEF passTime
      <4> DEFINE x == b - slept
                 y == a - slept
      <4>2. b >= slept => a >= slept /\ x \in Nat /\ y \in Nat /\ x <= y
        BY <2>1, <3>1
      <4>3. Fills(b) = IF b >= slept THEN (x \div TickInterval) + 1 ELSE 0
        BY <3>4 DEF Fills
      <4>4. Fills(a)' = IF a >= slept THEN (y \div TickInterval) + 1 ELSE 0
        BY <3>1, <3>4, <4>1 DEF Fills
      <4> HIDE DEF x, y, b
      <4>5. b >= slept => /\ x \div TickInterval \in Nat /\ y \div TickInterval \in Nat
                          /\ x \div TickInterval <= y \div TickInterval
        BY <4>2, TickIntervalType, Division, DivisionMonotone
      <4>6. CASE b >= slept
        BY <4>2, <4>3, <4>4, <4>5, <4>6
      <4>7. CASE ~ (b >= slept)
        BY <1>10, <4>3, <4>7
      <4> QED BY <4>6, <4>7
    <3> QED BY <3>2, <3>3, <3>4
  <2>5. /\ Fills(b) * LargestSlot \in Nat /\ Fills(a)' * LargestSlot \in Nat
        /\ Fills(b) * LargestSlot <= Fills(a)' * LargestSlot
    BY <1>10, <2>3, <2>4, MoreFills
  <2>6. SumFunctionOnSet(used', Recent(a)') = SumFunctionOnSet(used, Recent(b))
    BY <1>9
  <2> HIDE DEF b
  <2> QED BY <1>2, <2>2, <2>3, <2>5, <2>6, LimiterAssumption
<1> QED BY <1>11, <1>12

\* What is left changes by what one slot changes.
LEMMA LeftExcept ==
  ASSUME NEW i \in SlotIds,
         \A j \in SlotIds : permits[j] \in Int /\ permits'[j] \in Int /\ (j # i => permits'[j] = permits[j])
  PROVE  Left' = Left - permits[i] + permits'[i]
BY SlotsFinite, SumExcept DEF Left

\* A permit is taken: what was left is one less and what was used is at most one more.
LEMMA takeAccounted ==
  ASSUME LimiterInv, ~crossed, NEW i \in SlotIds, permits[i] > 0,
         permits' = [permits EXCEPT ![i] = permits[i] - 1], Use,
         UNCHANGED <<now, ticker, slept, crossed>>
  PROVE  Accounted' /\ \A j \in SlotIds : permits'[j] <= partition_(j)
<1>1. LimiterTypeOK /\ permits \in [SlotIds -> Int] /\ permits[i] \in Nat /\ now \in SlotIds
  BY LimiterAssumption DEF LimiterInv, LimiterTypeOK
<1>2. Left' = Left - 1 /\ Left \in Nat
  <2>1. Left' = Left - permits[i] + (permits[i] - 1)
    <3>1. \A j \in SlotIds : /\ permits[j] \in Int /\ permits'[j] \in Int
                             /\ j # i => permits'[j] = permits[j]
      BY <1>1
    <3>2. permits'[i] = permits[i] - 1
      BY <1>1
    <3>3. Left' = Left - permits[i] + permits'[i]
      BY <3>1, LeftExcept
    <3> QED BY <3>2, <3>3
  <2> QED BY <1>1, <2>1, LeftType
<1>3. ASSUME NEW a \in SlotIds
      PROVE  SumFunctionOnSet(used', Recent(a)') + Left' <= Permit + Fills(a)' * LargestSlot
  <2> DEFINE R == Recent(a)
             U == SumFunctionOnSet(used, R)
             V == SumFunctionOnSet(used', R)
  <2>1. Recent(a)' = R /\ Fills(a)' = Fills(a)
    BY DEF Recent, Age, Fills
  <2>2. U + Left <= Permit + Fills(a) * LargestSlot
    BY DEF LimiterInv, Accounted
  <2>3. IsFiniteSet(R) /\ R \subseteq SlotIds
    BY RecentFinite
  <2>4. \A j \in SlotIds : /\ used[j] \in Nat /\ used'[j] \in Nat
                           /\ j # now => used'[j] = used[j]
                           /\ used'[j] <= used[j] + 1
    BY <1>1, LimiterAssumption DEF LimiterTypeOK, Use
  <2>5. U \in Nat /\ V \in Nat
    <3>1. \A j \in R : used[j] \in Nat /\ used'[j] \in Nat
      BY <2>3, <2>4
    <3> HIDE DEF R
    <3> QED BY <2>3, <3>1, SumType
  <2>6. V <= U + 1
    <3>1. \A j \in R : used[j] \in Int /\ used'[j] \in Int
      BY <2>3, <2>4
    <3>2. CASE now \in R
      <4> DEFINE Q == R \ {now}
      <4>1. IsFiniteSet(Q) /\ Q \subseteq R
        BY <2>3, FS_Subset
      <4>2. \A j \in Q : used'[j] = used[j] /\ used[j] \in Int
        BY <2>3, <2>4, <3>1
      <4> HIDE DEF R
      <4>3. U = used[now] + SumFunctionOnSet(used, Q) /\ V = used'[now] + SumFunctionOnSet(used', Q)
        BY <2>3, <3>1, <3>2, SumRemove
      <4> HIDE DEF Q
      <4>4. SumFunctionOnSet(used', Q) = SumFunctionOnSet(used, Q) /\ SumFunctionOnSet(used, Q) \in Int
        BY <4>1, <4>2, SumSame, SumType
      <4>5. used'[now] <= used[now] + 1 /\ used[now] \in Nat /\ used'[now] \in Nat
        BY <1>1, <2>4
      <4> HIDE DEF U, V
      <4> QED BY <4>3, <4>4, <4>5
    <3>3. CASE now \notin R
      <4>1. \A j \in R : used'[j] = used[j]
        BY <2>3, <2>4, <3>3
      <4> HIDE DEF R
      <4>2. V = U
        BY <2>3, <3>1, <4>1, SumSame
      <4> HIDE DEF U, V
      <4> QED BY <2>5, <4>2
    <3> QED BY <3>2, <3>3
  <2>7. Fills(a) * LargestSlot \in Nat
    BY <1>1, FillsType, MoreFills
  <2>8. SumFunctionOnSet(used', Recent(a)') = V
    BY <2>1
  <2> HIDE DEF U, V, R
  <2> QED BY <1>2, <2>1, <2>2, <2>5, <2>6, <2>7, <2>8, LimiterAssumption
<1>4. \A j \in SlotIds : permits'[j] <= permits[j] /\ permits'[j] \in Int /\ permits[j] \in Int
  BY <1>1
<1>5. \A j \in SlotIds : permits[j] <= partition_(j) /\ partition_(j) \in Int
  BY PartitionType DEF LimiterInv
<1> QED BY <1>3, <1>4, <1>5 DEF Accounted

\* A slot is filled: one fill more, and no more than the permits of a slot.
LEMMA fillAccounted ==
  ASSUME LimiterInv, ~crossed, fillSlot
  PROVE  Accounted' /\ \A j \in SlotIds : permits'[j] <= partition_(j)
<1> DEFINE i == ticker.idx
           v == partition_(i)
<1>1. /\ LimiterTypeOK /\ permits \in [SlotIds -> Int] /\ i \in SlotIds /\ permits[i] \in Nat
      /\ v \in Int /\ v <= LargestSlot /\ LargestSlot \in Nat
  BY LimiterAssumption, PartitionType DEF LimiterInv, LimiterTypeOK
<1>2. permits' = [permits EXCEPT ![i] = v] /\ used' = used /\ now' = now
  BY DEF fillSlot
<1> HIDE DEF i, v
<1>3. Left' = Left - permits[i] + v
  <2>1. \A j \in SlotIds : /\ permits[j] \in Int /\ permits'[j] \in Int
                           /\ j # i => permits'[j] = permits[j]
    BY <1>1, <1>2
  <2>2. permits'[i] = v
    BY <1>1, <1>2
  <2> QED BY <1>1, <2>1, <2>2, LeftExcept
<1>4. Left \in Nat /\ Left' <= Left + LargestSlot /\ Left' \in Int
  BY <1>1, <1>3, LeftType
<1>5. ASSUME NEW a \in SlotIds
      PROVE  SumFunctionOnSet(used', Recent(a)') + Left' <= Permit + Fills(a)' * LargestSlot
  <2> DEFINE U == SumFunctionOnSet(used, Recent(a))
  <2>1. SumFunctionOnSet(used', Recent(a)') = U
    BY <1>2 DEF Recent, Age
  <2>2. U + Left <= Permit + Fills(a) * LargestSlot /\ U \in Nat
    BY <1>1, UsedType DEF LimiterInv, Accounted
  <2>3. a \in Nat /\ Fills(a) \in Nat
    BY <1>1, FillsType DEF SlotIds
  <2>4. Fills(a)' = Fills(a) + 1
    <3>1. slept = 0 /\ slept' = 0 /\ ticker.pc = "filling" /\ ticker'.pc = "asleep" /\ a - 0 = a /\ a >= 0
      BY <2>3 DEF LimiterInv, fillSlot
    <3> QED BY <3>1 DEF Fills
  <2>5. Fills(a)' * LargestSlot = Fills(a) * LargestSlot + LargestSlot /\ Fills(a) * LargestSlot \in Nat
    BY <2>3, <2>4, MoreFills
  <2> HIDE DEF U
  <2> QED BY <1>1, <1>4, <2>1, <2>2, <2>5, LimiterAssumption
<1>6. \A j \in SlotIds : permits'[j] <= partition_(j)
  <2>1. \A j \in SlotIds : partition_(j) \in Int /\ permits[j] <= partition_(j)
    BY PartitionType DEF LimiterInv
  <2> QED BY <1>1, <1>2, <2>1 DEF v
<1> QED BY <1>5, <1>6 DEF Accounted

\* The observer reads the clock: no permit moves, and the fills are the same.
LEMMA tickAccounted ==
  ASSUME LimiterInv, ~crossed, tick
  PROVE  Accounted'
<1>1. LimiterTypeOK /\ Left' = Left
  BY DEF LimiterInv, tick, Left
<1>2. ASSUME NEW a \in SlotIds PROVE Fills(a)' = Fills(a)
  <2>1. a \in Nat
    BY DEF SlotIds
  <2>2. Fills(a)' = a \div TickInterval
    BY DEF tick, Fills
  <2>3. Fills(a) = IF a >= TickInterval THEN ((a - TickInterval) \div TickInterval) + 1 ELSE 0
    BY DEF tick, Fills
  <2>4. CASE a >= TickInterval
    BY <2>1, <2>2, <2>3, <2>4, TickIntervalType, DivisionStep
  <2>5. CASE ~ (a >= TickInterval)
    <3> DEFINE q == a \div TickInterval
    <3>1. q \in Nat /\ a >= TickInterval * q
      BY <2>1, TickIntervalType, Division
    <3> HIDE DEF q
    <3>2. q = 0
      <4>1. q >= 1 => TickInterval * q >= TickInterval
        BY <3>1, TickIntervalType
      <4> QED BY <2>1, <2>5, <3>1, <4>1, TickIntervalType
    <3> QED BY <2>2, <2>3, <2>5, <3>2 DEF q
  <2> QED BY <2>4, <2>5
<1>3. ASSUME NEW a \in SlotIds PROVE SumFunctionOnSet(used', Recent(a)') = SumFunctionOnSet(used, Recent(a))
  BY DEF Recent, Age, tick
<1> QED BY <1>1, <1>2, <1>3 DEF LimiterInv, Accounted

\* Each step keeps the invariant.
LEMMA LimiterNextInv == LimiterInv /\ [LimiterNext]_limiterVars => LimiterInv'
<1> SUFFICES ASSUME LimiterInv, [LimiterNext]_limiterVars PROVE LimiterInv'
  OBVIOUS
<1>1. LimiterTypeOK /\ LimiterTypeOK'
  BY LimiterNextType DEF LimiterInv
<1>2. ASSUME (ticker'.pc = "filling" => slept' = 0), OneTaker',
             ~crossed' => /\ \A i \in SlotIds : permits'[i] <= partition_(i)
                          /\ TakerHasPermit'
                          /\ Accounted'
      PROVE  LimiterInv'
  BY <1>1, <1>2 DEF LimiterInv
<1>3. CASE passTime
  <2>1. (ticker'.pc = "filling" => slept' = 0) /\ OneTaker'
    BY <1>3 DEF LimiterInv, OneTaker, passTime
  <2>2. ASSUME ~crossed'
        PROVE  /\ \A i \in SlotIds : permits'[i] <= partition_(i)
               /\ TakerHasPermit'
    BY <1>1, <1>3, <2>2 DEF LimiterInv, TakerHasPermit, passTime, Free, LimiterTypeOK
  <2> QED BY <1>1, <1>2, <1>3, <2>1, <2>2, passTimeAccounted
<1>4. CASE tick
  <2>1. (ticker'.pc = "filling" => slept' = 0) /\ OneTaker'
    BY <1>4 DEF LimiterInv, OneTaker, tick
  <2>2. ASSUME ~crossed'
        PROVE  /\ \A i \in SlotIds : permits'[i] <= partition_(i)
               /\ TakerHasPermit'
    BY <1>4, <2>2 DEF LimiterInv, TakerHasPermit, tick
  <2>3. crossed' = crossed
    BY <1>4 DEF tick
  <2> QED BY <1>2, <1>4, <2>1, <2>2, <2>3, tickAccounted
<1>5. CASE fillSlot
  <2>1. \A w \in Workers : worker'[w].pc # "taking"
    BY <1>1, <1>5 DEF fillSlot, Woken, Free, LimiterTypeOK
  <2>2. ticker'.pc = "asleep" /\ crossed' = crossed
    BY <1>5 DEF fillSlot
  <2> QED BY <1>2, <1>5, <2>1, <2>2, fillAccounted DEF OneTaker, TakerHasPermit
<1>6. ASSUME NEW w \in Workers, readSlot(w) \/ acquire(w) PROVE LimiterInv'
  <2>1. ASSUME NEW at, Go(w, at), at # "taking"
        PROVE  /\ worker'[w].pc # "taking"
               /\ \A v \in Workers : worker'[v].pc = "taking" => v # w /\ worker[v].pc = "taking"
    BY <1>1, <2>1 DEF Go, LimiterTypeOK
  <2>2. CASE readSlot(w)
    <3>1. \A v \in Workers : worker'[v].pc = "taking" => worker[v].pc = "taking"
      BY <1>1, <2>2 DEF readSlot, LimiterTypeOK
    <3>2. UNCHANGED <<now, permits, ticker, slept, used, crossed>>
      BY <2>2 DEF readSlot
    <3>3. Accounted' = Accounted
      BY <3>2 DEF Accounted, Recent, Age, Fills, Left
    <3> QED BY <1>2, <3>1, <3>2, <3>3 DEF LimiterInv, OneTaker, TakerHasPermit
  <2>3. CASE acquireNow(w)
    <3> DEFINE i == Latest(worker[w].idx)
    <3>1. i \in SlotIds /\ permits[i] > 0
      BY <1>1, <2>3, LatestReusable DEF acquireNow, LimiterTypeOK
    <3>2. \A v \in Workers : worker'[v].pc # "taking"
      BY <2>1, <2>3 DEF acquireNow, Free
    <3>3. permits' = [permits EXCEPT ![i] = permits[i] - 1] /\ Use /\ UNCHANGED <<now, ticker, slept, crossed>>
      BY <2>3 DEF acquireNow
    <3> HIDE DEF i
    <3>4. ~crossed' => Accounted' /\ \A j \in SlotIds : permits'[j] <= partition_(j)
      BY <3>1, <3>3, takeAccounted
    <3> QED BY <1>2, <3>2, <3>3, <3>4 DEF LimiterInv, OneTaker, TakerHasPermit
  <2>4. CASE testSlot(w)
    <3>1. UNCHANGED <<now, permits, ticker, slept, used, crossed>>
      BY <2>4 DEF testSlot
    <3>2. \A v \in Workers : worker'[v].pc = "taking" => v = w /\ permits[now] > 0
      BY <1>1, <2>4 DEF testSlot, Go, Free, LimiterTypeOK
    <3>3. Accounted' = Accounted
      BY <3>1 DEF Accounted, Recent, Age, Fills, Left
    <3> QED BY <1>2, <3>1, <3>2, <3>3 DEF LimiterInv, OneTaker, TakerHasPermit
  <2>5. CASE takePermit(w)
    <3>1. \A v \in Workers : worker'[v].pc # "taking"
      BY <2>1, <2>5 DEF takePermit, LimiterInv, OneTaker
    <3>2. Use /\ UNCHANGED <<now, ticker, slept, crossed>>
      BY <2>5 DEF takePermit
    <3>3. ASSUME ~crossed
          PROVE  Accounted' /\ \A j \in SlotIds : permits'[j] <= partition_(j)
      <4>1. now \in SlotIds /\ permits[now] \in 0 .. Word - 1 /\ permits[now] > 0
        BY <1>1, <2>5, <3>3 DEF takePermit, LimiterInv, TakerHasPermit, LimiterTypeOK
      <4>2. (permits[now] + Word - 1) % Word = permits[now] - 1
        <5> DEFINE x == permits[now]
        <5>1. x \in Nat /\ x > 0 /\ x < Word /\ Word \in Nat
          BY <4>1, LimiterAssumption
        <5> HIDE DEF x
        <5>2. (x + Word - 1) % Word = x - 1
          BY <5>1
        <5> QED BY <5>2 DEF x
      <4>3. permits' = [permits EXCEPT ![now] = permits[now] - 1]
        BY <2>5, <4>2 DEF takePermit
      <4> QED BY <3>2, <3>3, <4>1, <4>3, takeAccounted
    <3> QED BY <1>2, <3>1, <3>2, <3>3 DEF LimiterInv, OneTaker, TakerHasPermit
  <2> QED BY <1>6, <2>2, <2>3, <2>4, <2>5 DEF acquire
<1>7. CASE UNCHANGED limiterVars
  BY <1>2, <1>7 DEF LimiterInv, limiterVars, OneTaker, TakerHasPermit, Accounted, Recent, Age, Fills, Left
<1> QED BY <1>3, <1>4, <1>5, <1>6, <1>7 DEF LimiterNext

\* Permits, threads and observer of RateLimiter keep their types; a count stays within
\* its word although takePermit may decrement an empty slot.
THEOREM LimiterTypeCorrect == LimiterSpec => []LimiterTypeOK
BY LimiterInitType, LimiterNextType, PTL DEF LimiterSpec

\* However late a tick fills its slot and whatever the past half of the cycle left, in
\* any second no more is consumed than the limit and what is filled within it, unless
\* a slot ended between a test of cv_.wait and its take (RateLimiter::acquire, tick).
THEOREM LimitCorrect == LimiterSpec => []ConsumedBounded
BY LimiterInitInv, LimiterNextInv, LimiterInvImplies, PTL DEF LimiterSpec

(***************************************************************************)
(* PullConsumer: what is pulled, in which order.                           *)
(***************************************************************************)

-----------------------------------------------------------------------------
(* The messages of an answer                                               *)

\* Accepted as a function of the number of items looked at.
AcceptStep(o, md5Works, g, i) ==
  IF i = 0 THEN <<>>
  ELSE IF DigestMatches(log[o + i], md5Works) THEN Append(g[i - 1], Message(o + i - 1))
  ELSE g[i - 1]

AcceptedUpTo(o, n, md5Works) == CHOOSE g : g = [i \in 0 .. n |-> AcceptStep(o, md5Works, g, i)]

\* Accepted is the last value of the recursive function.
LEMMA AcceptedIsLast ==
  ASSUME NEW o, NEW n, NEW md5Works
  PROVE  Accepted(o, n, md5Works) = AcceptedUpTo(o, n, md5Works)[n]
BY DEF Accepted, AcceptedUpTo, AcceptStep

\* The recursive function satisfies its equation for every number of items.
LEMMA AcceptedEquation ==
  ASSUME NEW o, NEW n \in Nat, NEW md5Works
  PROVE  \A i \in 0 .. n : AcceptedUpTo(o, n, md5Works)[i] = AcceptStep(o, md5Works, AcceptedUpTo(o, n, md5Works), i)
<1> DEFINE Good == {m \in Nat : \E g : g = [i \in 0 .. m |-> AcceptStep(o, md5Works, g, i)]}
<1>1. 0 \in Good
  <2> DEFINE g == [i \in 0 .. 0 |-> <<>>]
  <2>1. \A i \in 0 .. 0 : AcceptStep(o, md5Works, g, i) = <<>>
    BY DEF AcceptStep
  <2>2. g = [i \in 0 .. 0 |-> AcceptStep(o, md5Works, g, i)]
    BY <2>1
  <2> QED BY <2>2
<1>2. ASSUME NEW m \in Nat, m \in Good PROVE m + 1 \in Good
  <2>1. PICK g : g = [i \in 0 .. m |-> AcceptStep(o, md5Works, g, i)]
    BY <1>2
  <2> DEFINE h == [i \in 0 .. m + 1 |-> IF i \in 0 .. m THEN g[i] ELSE AcceptStep(o, md5Works, g, i)]
  <2>2. ASSUME NEW i \in 0 .. m + 1 PROVE h[i] = AcceptStep(o, md5Works, h, i)
    <3>1. i # 0 => i - 1 \in 0 .. m /\ i - 1 \in 0 .. m + 1
      OBVIOUS
    <3>2. i # 0 => h[i - 1] = g[i - 1]
      BY <3>1
    <3>3. i \in 0 .. m => g[i] = AcceptStep(o, md5Works, g, i)
      BY <2>1
    <3>4. h[i] = AcceptStep(o, md5Works, g, i)
      BY <3>3
    <3> HIDE DEF h
    <3> QED BY <3>2, <3>4 DEF AcceptStep
  <2>3. h = [i \in 0 .. m + 1 |-> AcceptStep(o, md5Works, h, i)]
    BY <2>2
  <2> HIDE DEF h
  <2> QED BY <2>3
<1>3. n \in Good
  <2> HIDE DEF Good
  <2>1. 0 .. n \subseteq Good
    BY <1>1, <1>2, InductionUpTo
  <2> QED BY <2>1
<1> DEFINE F == AcceptedUpTo(o, n, md5Works)
<1>4. F = [i \in 0 .. n |-> AcceptStep(o, md5Works, F, i)]
  BY <1>3 DEF AcceptedUpTo
<1> HIDE DEF F
<1>5. \A i \in 0 .. n : F[i] = AcceptStep(o, md5Works, F, i)
  BY <1>4
<1> QED BY <1>5 DEF F

\* What the application may get.
Received ==
  {[offset |-> o, body |-> wrapMessage(item).body, type |-> wrapMessage(item).type] : o \in Nat, item \in Items}

\* A sequence has the messages of offsets from .. to - 1 in their order: each as its item
\* says, and all but those in a set and those damaged.
Reads(s, from, to, except) ==
  /\ s \in Seq(Received)
  /\ \A k \in 1 .. Len(s) :
       /\ s[k].offset \in from .. to - 1
       /\ s[k] = Message(s[k].offset)
       /\ \E md5Works \in BOOLEAN : DigestMatches(log[s[k].offset + 1], md5Works)
  /\ \A k, l \in 1 .. Len(s) : k < l => s[k].offset < s[l].offset
  /\ \A o \in from .. to - 1 :
       o \in except \/ ~Sound(log[o + 1]) \/ \E k \in 1 .. Len(s) : s[k].offset = o

\* An item: what happened to its body, and what a consumer can make of it.
LEMMA ItemShape ==
  ASSUME NEW item \in Items
  PROVE  /\ item.sent \in Messages /\ item.type = item.sent.type
         /\ item.body.state \in {"intact", "altered", "empty"}
         /\ item.body.payload = item.sent.payload
         /\ item.digest.of.state = "intact"
         /\ item.body.state = "intact" => item.digest.of = item.body
         /\ \/ item.encoding = "GZIP" /\ item.body.form = "deflated"
            \/ item.encoding = "IDENTITY"
<1>1. PICK m \in Messages, d \in DigestType, state \in {"intact", "altered", "empty"} : item = Item(m, d, state)
  BY DEF Items
<1> DEFINE w == wrapSendMessageRequest(m)
<1>2. /\ w.type = m.type
      /\ \/ w.encoding = "GZIP" /\ w.body = [payload |-> m.payload, form |-> "deflated", state |-> "intact"]
         \/ w.encoding = "IDENTITY" /\ w.body = [payload |-> m.payload, form |-> "plain", state |-> "intact"]
  BY DEF wrapSendMessageRequest, compress, Body
<1>3. /\ item.type = w.type /\ item.encoding = w.encoding /\ item.sent = m
      /\ item.body = [w.body EXCEPT !.state = state] /\ item.digest.of = w.body
  BY <1>1 DEF Item
<1> HIDE DEF w
<1>4. /\ item.body.state = state /\ item.body.payload = m.payload /\ item.body.form = w.body.form
      /\ state = "intact" => item.body = w.body
  BY <1>2, <1>3
<1> QED BY <1>2, <1>3, <1>4

\* An intact item passes the digest check, whether MD5 works or not.
LEMMA SoundMatches ==
  ASSUME NEW item \in Items, Sound(item), NEW md5Works
  PROVE  DigestMatches(item, md5Works)
<1>1. item.digest.of = item.body
  BY ItemShape DEF Sound
<1> QED BY <1>1 DEF DigestMatches

\* What wrapMessage makes of an item of the log is a received message.
LEMMA MessageReceived ==
  ASSUME log \in Seq(Items), NEW o \in Nat, o < Len(log)
  PROVE  /\ log[o + 1] \in Items
         /\ Message(o) \in Received
         /\ Message(o).offset = o
<1>1. log[o + 1] \in Items
  OBVIOUS
<1> QED BY <1>1 DEF Message, Received

\* Nothing is read from an empty stretch.
LEMMA ReadsEmpty ==
  ASSUME NEW o \in Nat, NEW except
  PROVE  Reads(<<>>, o, o, except)
BY DEF Reads

\* The next item is accepted, or passed over.
LEMMA ReadsStep ==
  ASSUME log \in Seq(Items), NEW from \in Nat, NEW to \in Nat, from <= to, to < Len(log),
         NEW s, Reads(s, from, to, {}), NEW md5Works \in BOOLEAN
  PROVE  Reads(IF DigestMatches(log[to + 1], md5Works) THEN Append(s, Message(to)) ELSE s, from, to + 1, {})
<1>1. log[to + 1] \in Items /\ Message(to) \in Received /\ Message(to).offset = to
  BY MessageReceived
<1>2. s \in Seq(Received) /\ Len(s) \in Nat
  BY DEF Reads
<1>3. \A o \in from .. (to + 1) - 1 : o = to \/ o \in from .. to - 1
  OBVIOUS
<1>4. CASE ~DigestMatches(log[to + 1], md5Works)
  <2>1. ~Sound(log[to + 1])
    BY <1>1, <1>4, SoundMatches
  <2>2. \A k \in 1 .. Len(s) : s[k].offset \in from .. (to + 1) - 1
    BY DEF Reads
  <2> QED BY <1>2, <1>3, <1>4, <2>1, <2>2 DEF Reads
<1>5. CASE DigestMatches(log[to + 1], md5Works)
  <2> DEFINE t == Append(s, Message(to))
  <2>1. /\ t \in Seq(Received) /\ Len(t) = Len(s) + 1 /\ t[Len(s) + 1] = Message(to)
        /\ \A k \in 1 .. Len(s) : t[k] = s[k]
    BY <1>1, <1>2
  <2>2. \A k \in 1 .. Len(t) : k = Len(s) + 1 \/ k \in 1 .. Len(s)
    BY <1>2, <2>1
  <2> HIDE DEF t
  <2>3. ASSUME NEW k \in 1 .. Len(t)
        PROVE  /\ t[k].offset \in from .. (to + 1) - 1
               /\ t[k] = Message(t[k].offset)
               /\ \E m \in BOOLEAN : DigestMatches(log[t[k].offset + 1], m)
    <3>1. CASE k = Len(s) + 1
      BY <1>1, <1>5, <2>1, <3>1
    <3>2. CASE k \in 1 .. Len(s)
      <4>1. t[k] = s[k]
        BY <2>1, <3>2
      <4>2. /\ s[k].offset \in from .. to - 1
            /\ s[k] = Message(s[k].offset)
            /\ \E m \in BOOLEAN : DigestMatches(log[s[k].offset + 1], m)
        BY <3>2 DEF Reads
      <4>3. s[k].offset \in from .. (to + 1) - 1
        BY <4>2
      <4> QED BY <4>1, <4>2, <4>3
    <3> QED BY <2>2, <3>1, <3>2
  <2>4. ASSUME NEW k \in 1 .. Len(t), NEW l \in 1 .. Len(t), k < l PROVE t[k].offset < t[l].offset
    <3>1. k \in 1 .. Len(s)
      BY <1>2, <2>1, <2>4
    <3>2. t[k].offset \in Nat /\ t[k].offset < to
      <4>1. t[k] = s[k]
        BY <2>1, <3>1
      <4>2. s[k].offset \in from .. to - 1
        BY <3>1 DEF Reads
      <4> QED BY <4>1, <4>2
    <3>3. CASE l = Len(s) + 1
      BY <1>1, <2>1, <3>2, <3>3
    <3>4. CASE l \in 1 .. Len(s)
      BY <2>1, <2>4, <3>1, <3>4 DEF Reads
    <3> QED BY <2>2, <3>3, <3>4
  <2>5. ASSUME NEW o \in from .. (to + 1) - 1
        PROVE  o \in {} \/ ~Sound(log[o + 1]) \/ \E k \in 1 .. Len(t) : t[k].offset = o
    <3>1. CASE o = to
      <4>1. Len(s) + 1 \in 1 .. Len(t)
        BY <1>2, <2>1
      <4> QED BY <1>1, <2>1, <3>1, <4>1
    <3>2. CASE o \in from .. to - 1
      <4>1. ~Sound(log[o + 1]) \/ \E k \in 1 .. Len(s) : s[k].offset = o
        BY <3>2 DEF Reads
      <4>2. \A k \in 1 .. Len(s) : k \in 1 .. Len(t)
        BY <1>2, <2>1
      <4> QED BY <2>1, <4>1, <4>2
    <3> QED BY <1>3, <3>1, <3>2
  <2>6. Reads(t, from, to + 1, {})
    BY <2>1, <2>3, <2>4, <2>5 DEF Reads
  <2> QED BY <1>5, <2>6 DEF t
<1> QED BY <1>4, <1>5

\* An answer has the messages of its items.
LEMMA AcceptedReads ==
  ASSUME log \in Seq(Items), NEW o \in Nat, NEW n \in Nat, o + n <= Len(log), NEW md5Works \in BOOLEAN
  PROVE  Reads(Accepted(o, n, md5Works), o, o + n, {})
<1> DEFINE F == AcceptedUpTo(o, n, md5Works)
           A == {i \in 0 .. n : Reads(F[i], o, o + i, {})}
<1>1. \A i \in 0 .. n : F[i] = AcceptStep(o, md5Works, F, i)
  BY AcceptedEquation
<1> HIDE DEF F
<1>2. 0 \in A
  <2>1. F[0] = <<>> /\ o + 0 = o /\ 0 \in 0 .. n
    BY <1>1 DEF AcceptStep
  <2> QED BY <2>1, ReadsEmpty
<1>3. ASSUME NEW i \in 0 .. n - 1, i \in A PROVE i + 1 \in A
  <2> DEFINE to == o + i
  <2>1. /\ i + 1 \in 0 .. n /\ i + 1 # 0 /\ (i + 1) - 1 = i /\ o + (i + 1) = to + 1
        /\ o + (i + 1) - 1 = to
        /\ to \in Nat /\ o <= to /\ to < Len(log)
    OBVIOUS
  <2>2. F[i + 1] = IF DigestMatches(log[to + 1], md5Works) THEN Append(F[i], Message(to)) ELSE F[i]
    BY <1>1, <2>1 DEF AcceptStep
  <2>3. Reads(F[i], o, to, {})
    BY <1>3
  <2> HIDE DEF to
  <2>4. Reads(F[i + 1], o, to + 1, {})
    BY <2>1, <2>2, <2>3, ReadsStep
  <2> QED BY <2>1, <2>4
<1>4. 0 .. n \subseteq A
  <2> HIDE DEF A
  <2> QED BY <1>2, <1>3, InductionUpTo
<1>5. Reads(F[n], o, o + n, {})
  BY <1>4
<1> QED BY <1>5, AcceptedIsLast DEF F

-----------------------------------------------------------------------------
(* What the application has read                                           *)

\* The log only grows.
LEMMA LogKept ==
  ASSUME log \in Seq(Items), NEW item \in Items, log' = Append(log, item)
  PROVE  \A o \in Nat : o < Len(log) => log'[o + 1] = log[o + 1] /\ Message(o)' = Message(o)
<1>1. \A o \in Nat : o < Len(log) => o + 1 \in 1 .. Len(log)
  OBVIOUS
<1>2. \A o \in Nat : o < Len(log) => log'[o + 1] = log[o + 1]
  BY <1>1
<1> QED BY <1>2 DEF Message

\* Two parts of the queue are read one after the other.
LEMMA ReadsConcat ==
  ASSUME NEW mid \in Nat, NEW to \in Nat, mid <= to, NEW except,
         NEW s, Reads(s, 0, mid, except), NEW t, Reads(t, mid, to, {})
  PROVE  Reads(s \o t, 0, to, except)
<1> DEFINE u == s \o t
<1>1. s \in Seq(Received) /\ t \in Seq(Received) /\ Len(s) \in Nat /\ Len(t) \in Nat
  BY DEF Reads
<1>2. /\ u \in Seq(Received) /\ Len(u) = Len(s) + Len(t)
      /\ \A k \in 1 .. Len(s) : u[k] = s[k]
      /\ \A k \in 1 .. Len(t) : u[Len(s) + k] = t[k]
  BY <1>1
<1> HIDE DEF u
<1>3. ASSUME NEW k \in 1 .. Len(u)
      PROVE  \/ k \in 1 .. Len(s) /\ u[k] = s[k]
             \/ k - Len(s) \in 1 .. Len(t) /\ u[k] = t[k - Len(s)]
  <2>1. CASE k <= Len(s)
    BY <1>1, <1>2, <2>1
  <2>2. CASE ~ (k <= Len(s))
    <3>1. k - Len(s) \in 1 .. Len(t) /\ Len(s) + (k - Len(s)) = k
      BY <1>1, <1>2, <2>2
    <3> QED BY <1>2, <3>1
  <2> QED BY <2>1, <2>2
<1>4. ASSUME NEW k \in 1 .. Len(u)
      PROVE  /\ u[k].offset \in 0 .. to - 1
             /\ u[k] = Message(u[k].offset)
             /\ \E m \in BOOLEAN : DigestMatches(log[u[k].offset + 1], m)
  <2>1. CASE k \in 1 .. Len(s) /\ u[k] = s[k]
    <3>1. /\ s[k].offset \in 0 .. mid - 1
          /\ s[k] = Message(s[k].offset)
          /\ \E m \in BOOLEAN : DigestMatches(log[s[k].offset + 1], m)
      BY <2>1 DEF Reads
    <3>2. s[k].offset \in 0 .. to - 1
      BY <3>1
    <3> QED BY <2>1, <3>1, <3>2
  <2>2. CASE k - Len(s) \in 1 .. Len(t) /\ u[k] = t[k - Len(s)]
    <3> DEFINE l == k - Len(s)
    <3> HIDE DEF l
    <3>1. /\ t[l].offset \in mid .. to - 1
          /\ t[l] = Message(t[l].offset)
          /\ \E m \in BOOLEAN : DigestMatches(log[t[l].offset + 1], m)
      BY <2>2 DEF Reads, l
    <3>2. t[l].offset \in 0 .. to - 1
      BY <3>1
    <3> QED BY <2>2, <3>1, <3>2 DEF l
  <2> QED BY <1>3, <2>1, <2>2
<1>5. ASSUME NEW k \in 1 .. Len(u), NEW l \in 1 .. Len(u), k < l PROVE u[k].offset < u[l].offset
  <2>1. CASE l \in 1 .. Len(s) /\ u[l] = s[l]
    <3>1. k \in 1 .. Len(s)
      BY <1>1, <1>5, <2>1
    <3> QED BY <1>2, <1>5, <2>1, <3>1 DEF Reads
  <2>2. CASE l - Len(s) \in 1 .. Len(t) /\ u[l] = t[l - Len(s)]
    <3>1. u[l].offset \in mid .. to - 1
      BY <2>2 DEF Reads
    <3>2. CASE k \in 1 .. Len(s) /\ u[k] = s[k]
      <4>1. u[k].offset \in 0 .. mid - 1
        BY <3>2 DEF Reads
      <4> QED BY <3>1, <4>1
    <3>3. CASE k - Len(s) \in 1 .. Len(t) /\ u[k] = t[k - Len(s)]
      <4>1. k - Len(s) < l - Len(s)
        BY <1>1, <1>5
      <4> QED BY <2>2, <3>3, <4>1 DEF Reads
    <3> QED BY <1>3, <3>2, <3>3
  <2> QED BY <1>3, <2>1, <2>2
<1>6. ASSUME NEW o \in 0 .. to - 1
      PROVE  o \in except \/ ~Sound(log[o + 1]) \/ \E k \in 1 .. Len(u) : u[k].offset = o
  <2>1. CASE o < mid
    <3>1. o \in 0 .. mid - 1
      BY <2>1
    <3>2. o \in except \/ ~Sound(log[o + 1]) \/ \E k \in 1 .. Len(s) : s[k].offset = o
      BY <3>1 DEF Reads
    <3>3. \A k \in 1 .. Len(s) : k \in 1 .. Len(u)
      BY <1>1, <1>2
    <3> QED BY <1>2, <3>2, <3>3
  <2>2. CASE ~ (o < mid)
    <3>1. o \in mid .. to - 1
      BY <2>2
    <3>2. ~Sound(log[o + 1]) \/ \E k \in 1 .. Len(t) : t[k].offset = o
      BY <3>1 DEF Reads
    <3>3. \A k \in 1 .. Len(t) : Len(s) + k \in 1 .. Len(u)
      BY <1>1, <1>2
    <3> QED BY <1>2, <3>2, <3>3
  <2> QED BY <2>1, <2>2
<1>7. Reads(u, 0, to, except)
  BY <1>2, <1>4, <1>5, <1>6 DEF Reads
<1> QED BY <1>7 DEF u

\* The position is moved past offsets that were deleted.
LEMMA ReadsPast ==
  ASSUME NEW at \in Int, NEW to \in Int, at <= to, NEW except, NEW more,
         \A o \in 0 .. to - 1 : o >= at => o \in more,
         NEW s, Reads(s, 0, at, except)
  PROVE  Reads(s, 0, to, except \cup more)
<1>1. \A o \in 0 .. at - 1 : o \in 0 .. to - 1
  OBVIOUS
<1>2. \A o \in 0 .. to - 1 : o \in 0 .. at - 1 \/ o \in more
  OBVIOUS
<1> QED BY <1>1, <1>2 DEF Reads

\* The greater of two numbers.
LEMMA MaxOfTwo ==
  ASSUME NEW a \in Int, NEW b \in Int
  PROVE  Max({a, b}) = IF a >= b THEN a ELSE b
<1>1. \E x \in {a, b} : \A y \in {a, b} : x >= y
  OBVIOUS
<1>2. Max({a, b}) \in {a, b} /\ \A y \in {a, b} : Max({a, b}) >= y
  BY <1>1 DEF Max
<1> QED BY <1>2

\* The smaller of two numbers.
LEMMA MinOfTwo ==
  ASSUME NEW a \in Int, NEW b \in Int
  PROVE  Min({a, b}) <= a /\ Min({a, b}) <= b /\ Min({a, b}) \in Int
<1>1. \E x \in {a, b} : \A y \in {a, b} : x <= y
  OBVIOUS
<1>2. Min({a, b}) \in {a, b} /\ \A y \in {a, b} : Min({a, b}) <= y
  BY <1>1 DEF Min
<1> QED BY <1>2

-----------------------------------------------------------------------------
(* The inductive invariant                                                 *)

PullShape ==
  /\ log \in Seq(Items)
  /\ first \in Nat /\ first <= Len(log)
  /\ position \in Int /\ -1 <= position /\ position <= Len(log)

\* A pull on its way is one from the position, and has no result yet.
Asked ==
  /\ request = -1 \/ request = position
  /\ request # -1 => ~pull.completed /\ pc \in {"wait", "asleep"}

\* A result that was not used yet goes on from the position.
ResultReads ==
  (pc \in {"wait", "asleep"} /\ pull.completed /\ pull.ok) =>
    /\ position \in Nat
    /\ pull.next \in Nat /\ position <= pull.next /\ pull.next <= Len(log)
    /\ Reads(pull.messages, position, pull.next, {})

PullInv ==
  /\ PullShape
  /\ Asked
  /\ Reads(pulled, 0, position, unread)
  /\ ResultReads

\* A new consumer has read nothing.
LEMMA PullInitInv == PullInit => PullInv
<1> SUFFICES ASSUME PullInit PROVE PullInv
  OBVIOUS
<1>1. PullShape
  BY DEF PullInit, PullShape
<1>2. Reads(pulled, 0, position, unread)
  <2>1. 0 .. (-1) - 1 = {} /\ <<>> \in Seq(Received) /\ Len(<<>>) = 0 /\ 1 .. 0 = {}
    OBVIOUS
  <2> QED BY <2>1 DEF PullInit, Reads
<1> QED BY <1>1, <1>2 DEF PullInit, PullInv, Asked, ResultReads, NotCompleted

\* What holds of a result that the code makes.
GoodResult(result) ==
  /\ result.completed
  /\ result.ok => /\ position \in Nat
                  /\ result.next \in Nat /\ position <= result.next /\ result.next <= Len(log)
                  /\ Reads(result.messages, position, result.next, {})

\* The application takes a result over and goes on from its next offset.
LEMMA useInv ==
  ASSUME PullInv, NEW result, GoodResult(result), use(result), request' = -1,
         UNCHANGED <<log, first, unread>>
  PROVE  PullInv'
<1>1. log' = log /\ first' = first /\ unread' = unread /\ pc' \in {"pull", "query"}
  BY DEF use
<1>2. Asked' /\ ResultReads'
  BY <1>1 DEF Asked, ResultReads
<1>3. CASE result.ok
  <2>1. pulled' = pulled \o result.messages /\ position' = result.next
    BY <1>3 DEF use
  <2>2. Reads(pulled \o result.messages, 0, result.next, unread)
    BY <1>3, ReadsConcat DEF GoodResult, PullInv
  <2>3. Reads(pulled, 0, position, unread)'
    BY <1>1, <2>1, <2>2 DEF Reads, Message
  <2>4. PullShape'
    BY <1>1, <1>3, <2>1 DEF PullInv, PullShape, GoodResult
  <2> QED BY <1>2, <2>3, <2>4 DEF PullInv
<1>4. CASE ~result.ok
  <2>1. pulled' = pulled /\ position' = position
    BY <1>4 DEF use
  <2>2. Reads(pulled, 0, position, unread)'
    BY <1>1, <2>1 DEF Reads, Message, PullInv
  <2>3. PullShape'
    BY <1>1, <2>1 DEF PullInv, PullShape
  <2> QED BY <1>2, <2>2, <2>3 DEF PullInv
<1> QED BY <1>3, <1>4

\* A good result is kept for the application.
LEMMA onCompletionInv ==
  ASSUME PullInv, NEW result, GoodResult(result), onCompletion(result), request' = -1,
         UNCHANGED <<log, first, unread>>
  PROVE  PullInv'
<1>1. CASE synchronous
  <2>1. pull' = result /\ UNCHANGED <<pulled, position, log, first, unread>>
    BY <1>1 DEF onCompletion
  <2>2. Reads(pulled, 0, position, unread)' /\ PullShape' /\ Asked'
    BY <2>1 DEF Reads, Message, PullInv, PullShape, Asked
  <2>3. ResultReads'
    BY <2>1 DEF GoodResult, ResultReads, Reads, Message
  <2> QED BY <2>2, <2>3 DEF PullInv
<1>2. CASE ~synchronous
  BY <1>2, useInv DEF onCompletion
<1> QED BY <1>1, <1>2

\* What is left of the invariant when neither the reading nor the log changes.
LEMMA PullKept ==
  ASSUME PullInv, UNCHANGED <<position, log, pulled, unread>>,
         first' \in Nat, first' <= Len(log), Asked', ResultReads'
  PROVE  PullInv'
BY DEF PullInv, PullShape, Reads, Message

\* Every step of application, callbacks and broker keeps PullInv.
LEMMA PullNextInv == PullInv /\ [PullNext]_pullVars => PullInv'
<1> SUFFICES ASSUME PullInv, [PullNext]_pullVars PROVE PullInv'
  OBVIOUS
<1>1. PullShape /\ Asked /\ ResultReads /\ Reads(pulled, 0, position, unread)
  BY DEF PullInv
<1>2. ASSUME UNCHANGED <<position, log, pulled, unread>>, UNCHANGED <<pull, request>>,
             UNCHANGED pc \/ (request = -1 /\ pc' \notin {"wait", "asleep"}),
             first' \in Nat, first' <= Len(log)
      PROVE  PullInv'
  <2>1. Asked' /\ ResultReads'
    BY <1>1, <1>2 DEF Asked, ResultReads, Reads, Message
  <2> QED BY <1>2, <2>1, PullKept
<1>3. first \in Nat /\ first <= Len(log) /\ (pc \notin {"wait", "asleep"} => request = -1)
  BY <1>1 DEF PullShape, Asked
<1>4. CASE append
  <2>1. PICK item \in Items : log' = Append(log, item)
    BY <1>4 DEF append
  <2>2. UNCHANGED <<synchronous, running, dangling, cached, pc, position, request, pull, first, pulled, unread>>
    BY <1>4 DEF append
  <2>3. PullShape' /\ Asked'
    BY <1>1, <2>1, <2>2 DEF PullShape, Asked
  <2>4. Reads(pulled, 0, position, unread)'
    <3>1. \A o \in 0 .. position - 1 : log'[o + 1] = log[o + 1] /\ Message(o)' = Message(o)
      <4>1. \A o \in 0 .. position - 1 : o \in Nat /\ o < Len(log)
        BY <1>1 DEF PullShape
      <4> QED BY <1>1, <2>1, <4>1, LogKept DEF PullShape
    <3> QED BY <1>1, <2>2, <3>1 DEF Reads
  <2>5. ResultReads'
    <3> SUFFICES ASSUME pc \in {"wait", "asleep"}, pull.completed, pull.ok
                 PROVE  pull.next <= Len(log)' /\ Reads(pull.messages, position, pull.next, {})'
      BY <1>1, <2>2 DEF ResultReads
    <3>1. /\ position \in Nat /\ pull.next \in Nat /\ pull.next <= Len(log)
          /\ Reads(pull.messages, position, pull.next, {})
      BY <1>1 DEF ResultReads
    <3>2. \A o \in position .. pull.next - 1 : log'[o + 1] = log[o + 1] /\ Message(o)' = Message(o)
      <4>1. \A o \in position .. pull.next - 1 : o \in Nat /\ o < Len(log)
        BY <1>1, <3>1 DEF PullShape
      <4> QED BY <1>1, <2>1, <4>1, LogKept DEF PullShape
    <3>3. Len(log') = Len(log) + 1 /\ Len(log) \in Nat
      BY <1>1, <2>1 DEF PullShape
    <3>4. Reads(pull.messages, position, pull.next, {})'
      BY <2>2, <3>1, <3>2 DEF Reads
    <3>5. pull.next <= Len(log')
      BY <3>1, <3>3
    <3> QED BY <3>4, <3>5
  <2> QED BY <2>3, <2>4, <2>5 DEF PullInv
<1>5. CASE delete
  <2>1. first' \in Nat /\ first' <= Len(log)
    BY <1>1, <1>5 DEF delete, PullShape
  <2> QED BY <1>2, <1>5, <2>1 DEF delete
<1>6. CASE shutdown
  BY <1>2, <1>3, <1>6 DEF shutdown
<1>7. CASE queuesFor
  BY <1>2, <1>3, <1>7 DEF queuesFor
<1>8. CASE queryOffset
  BY <1>2, <1>3, <1>8 DEF queryOffset
<1>9. ASSUME NEW ok \in BOOLEAN, onRoute(ok) PROVE PullInv'
  BY <1>2, <1>3, <1>9 DEF onRoute
<1>10. ASSUME NEW ok \in BOOLEAN, onOffset(ok) PROVE PullInv'
  <2>1. CASE ~ok
    BY <1>2, <1>3, <1>10, <2>1 DEF onOffset
  <2>2. CASE ok
    <3> DEFINE to == Max({position, first})
               more == Max({position, 0}) .. first - 1
    <3>1. /\ position' = to /\ unread' = unread \cup more /\ pc' = "pull"
          /\ UNCHANGED <<request, pull, log, first, pulled>> /\ request = -1
      BY <1>3, <1>10, <2>2 DEF onOffset
    <3>2. /\ position \in Int /\ first \in Int /\ position <= Len(log) /\ -1 <= position
          /\ Len(log) \in Nat
      BY <1>1 DEF PullShape
    <3>3. /\ to = IF position >= first THEN position ELSE first
          /\ Max({position, 0}) = IF position >= 0 THEN position ELSE 0
      BY <3>2, MaxOfTwo
    <3>4. to \in Int /\ position <= to /\ to <= Len(log) /\ -1 <= to
      BY <1>3, <3>2, <3>3
    <3>5. \A o \in 0 .. to - 1 : o >= position => o \in more
      BY <1>3, <3>2, <3>3
    <3> HIDE DEF to, more
    <3>6. Reads(pulled, 0, to, unread \cup more)
      BY <1>1, <3>2, <3>4, <3>5, ReadsPast
    <3>7. Reads(pulled, 0, position, unread)'
      BY <3>1, <3>6 DEF Reads, Message
    <3>8. PullShape' /\ Asked' /\ ResultReads'
      BY <1>1, <3>1, <3>4 DEF PullShape, Asked, ResultReads
    <3> QED BY <3>7, <3>8 DEF PullInv
  <2> QED BY <2>1, <2>2
<1>11. CASE pullMessage
  <2>1. ~pull'.completed
    BY <1>11 DEF pullMessage, NotCompleted
  <2>2. Asked' /\ ResultReads'
    BY <1>11, <2>1 DEF pullMessage, Asked, ResultReads
  <2> QED BY <1>3, <1>11, <2>2, PullKept DEF pullMessage
<1>12. ASSUME NEW n \in 0 .. MaxBatch, NEW md5Works \in BOOLEAN, onAnswer(n, md5Works) PROVE PullInv'
  <2>1. CASE n > 0 /\ ~running
    <3>1. request' = -1 /\ UNCHANGED <<pc, position, pull, pulled, log, first, unread>>
      BY <1>12, <2>1 DEF onAnswer
    <3>2. Asked' /\ ResultReads'
      BY <1>1, <3>1 DEF Asked, ResultReads, Reads, Message
    <3> QED BY <1>3, <3>1, <3>2, PullKept
  <2>2. CASE ~ (n > 0 /\ ~running)
    <3> DEFINE result == PullResult(Accepted(request, n, md5Works), Len(log), request + n)
    <3>1. onCompletion(result) /\ request' = -1 /\ UNCHANGED <<log, first, unread>>
      BY <1>12, <2>2 DEF onAnswer
    <3>2. n \in Nat /\ log \in Seq(Items) /\ Len(log) \in Nat /\ request \in Nat /\ request = position
      BY <1>1, <1>12, PullAssumption DEF onAnswer, PullShape, Asked
    <3>3. request + n <= Len(log)
      <4>1. Min({MaxBatch, Len(log) - request}) <= Len(log) - request /\ Min({MaxBatch, Len(log) - request}) \in Int
        <5>1. MaxBatch \in Int /\ Len(log) - request \in Int
          BY <3>2, PullAssumption
        <5> QED BY <5>1, MinOfTwo
      <4>2. n <= Min({MaxBatch, Len(log) - request})
        BY <1>12 DEF onAnswer
      <4> DEFINE min == Min({MaxBatch, Len(log) - request})
      <4> HIDE DEF min
      <4>3. min <= Len(log) - request /\ min \in Int /\ n <= min
        BY <4>1, <4>2 DEF min
      <4> QED BY <3>2, <4>3
    <3>4. Reads(Accepted(request, n, md5Works), request, request + n, {})
      BY <3>2, <3>3, AcceptedReads
    <3>5. result.completed /\ result.messages = Accepted(request, n, md5Works) /\ result.next = request + n
      BY DEF PullResult
    <3>6. GoodResult(result)
      <4> HIDE DEF result
      <4> QED BY <3>2, <3>3, <3>4, <3>5 DEF GoodResult
    <3> HIDE DEF result
    <3> QED BY <3>1, <3>6, onCompletionInv
  <2> QED BY <2>1, <2>2
<1>13. CASE onFailure
  <2> DEFINE result == [NotCompleted EXCEPT !.completed = TRUE]
  <2>1. GoodResult(result)
    BY DEF GoodResult, NotCompleted
  <2>2. onCompletion(result) /\ request' = -1 /\ UNCHANGED <<log, first, unread>>
    BY <1>13 DEF onFailure
  <2> HIDE DEF result
  <2> QED BY <2>1, <2>2, onCompletionInv
<1>14. CASE await
  <2>1. CASE pull.completed
    <3>1. use(pull) /\ UNCHANGED <<log, first, unread>> /\ request' = -1
      BY <1>1, <1>14, <2>1 DEF await, Asked
    <3>2. GoodResult(pull)
      BY <1>1, <1>14, <2>1 DEF GoodResult, ResultReads, await
    <3> QED BY <3>1, <3>2, useInv
  <2>2. CASE ~pull.completed
    <3>1. Asked' /\ ResultReads'
      BY <1>1, <1>14, <2>2 DEF await, Asked, ResultReads
    <3> QED BY <1>3, <1>14, <2>2, <3>1, PullKept DEF await
  <2> QED BY <2>1, <2>2
<1>15. CASE UNCHANGED pullVars
  BY <1>2, <1>3, <1>15 DEF pullVars
<1> QED BY <1>4, <1>5, <1>6, <1>7, <1>8, <1>9, <1>10, <1>11, <1>12, <1>13, <1>14, <1>15 DEF PullNext

\* PullInv gives the order of what was pulled.
LEMMA PullInvInOrder == PullInv => PulledInOrder
<1> SUFFICES ASSUME PullInv PROVE PulledInOrder
  OBVIOUS
<1>1. DOMAIN pulled = 1 .. Len(pulled)
  BY DEF PullInv, Reads
<1> QED BY <1>1 DEF PullInv, Reads, PulledInOrder, Pulled

\* What is made of an item that passes the check.
LEMMA ItemIntact ==
  ASSUME NEW item \in Items, NEW md5Works, DigestMatches(item, md5Works)
  PROVE  \/ wrapMessage(item).body = item.sent.payload /\ wrapMessage(item).type = item.sent.type
         \/ item.body.state = "empty" /\ wrapMessage(item).body = NoPayload
         \/ item.body.state = "altered" /\ item.digest.type \notin {"CRC32", "SHA1"}
<1>1. CASE item.body.state = "intact"
  <2>1. wrapMessage(item).body = item.sent.payload
    <3>1. CASE item.encoding = "GZIP" /\ item.body.form = "deflated"
      <4>1. wrapMessage(item).body = uncompress(item.body)
        BY <3>1 DEF wrapMessage
      <4>2. uncompress(item.body) = item.body.payload
        BY <1>1, <3>1 DEF uncompress
      <4> QED BY <4>1, <4>2, ItemShape
    <3>2. CASE item.encoding = "IDENTITY"
      BY <1>1, <3>2, ItemShape DEF wrapMessage, identity
    <3> QED BY <3>1, <3>2, ItemShape
  <2>2. wrapMessage(item).type = item.sent.type
    BY ItemShape, PullAssumption DEF wrapMessage
  <2> QED BY <2>1, <2>2
<1>2. CASE item.body.state = "empty"
  BY <1>2, ItemShape DEF wrapMessage, uncompress, identity
<1>3. CASE item.body.state = "altered"
  <2>1. item.digest.of # item.body
    BY <1>3, ItemShape
  <2> QED BY <1>3, <2>1 DEF DigestMatches, Computed
<1> QED BY <1>1, <1>2, <1>3, ItemShape

\* PullInv gives the content of what was pulled.
LEMMA PullInvIntact == PullInv => PulledIntact
<1> SUFFICES ASSUME PullInv, NEW i \in DOMAIN pulled
             PROVE  LET item == log[pulled[i].offset + 1]
                    IN  \/ pulled[i].body = item.sent.payload /\ pulled[i].type = item.sent.type
                        \/ item.body.state = "empty" /\ pulled[i].body = NoPayload
                        \/ item.body.state = "altered" /\ item.digest.type \notin {"CRC32", "SHA1"}
  BY DEF PulledIntact
<1> DEFINE o == pulled[i].offset
           item == log[o + 1]
<1>1. i \in 1 .. Len(pulled)
  BY DEF PullInv, Reads
<1>2. /\ o \in 0 .. position - 1
      /\ pulled[i] = Message(o)
      /\ \E md5Works \in BOOLEAN : DigestMatches(log[o + 1], md5Works)
  BY <1>1 DEF PullInv, Reads
<1>3. o \in Nat /\ o < Len(log) /\ log \in Seq(Items)
  BY <1>2 DEF PullInv, PullShape
<1>4. item \in Items
  BY <1>3, MessageReceived
<1>5. pulled[i].body = wrapMessage(item).body /\ pulled[i].type = wrapMessage(item).type
  BY <1>2 DEF Message
<1> HIDE DEF item, o
<1>6. \/ pulled[i].body = item.sent.payload /\ pulled[i].type = item.sent.type
      \/ item.body.state = "empty" /\ pulled[i].body = NoPayload
      \/ item.body.state = "altered" /\ item.digest.type \notin {"CRC32", "SHA1"}
  BY <1>2, <1>4, <1>5, ItemIntact DEF item
<1> QED BY <1>6 DEF item, o

\* Following the next offset of each result reads the queue in order and passes over
\* nothing but damaged and deleted messages, whatever the broker appends and deletes
\* and whichever pulls fail (PullConsumerImpl::pull, AwaitPullCallback).
THEOREM PullInOrder == PullSpec => []PulledInOrder
BY PullInitInv, PullNextInv, PullInvInOrder, PTL DEF PullSpec

\* What the application gets is what the producer sent, unless the body was lost or the
\* item had no digest that could be checked (ClientManagerImpl::wrapMessage).
THEOREM PullIntact == PullSpec => []PulledIntact
BY PullInitInv, PullNextInv, PullInvIntact, PTL DEF PullSpec

==============================================================================
