---------------------------- MODULE RoutingProofs ----------------------------
(***************************************************************************)
(* Proofs about the brokers and queues that a client works with: the route *)
(* cache with its callers, for every set of callers and topics, every      *)
(* interleaving of their threads and every answer of the name server       *)
(* (RouteTable); the partitions a send may choose from (EndpointHealth);   *)
(* and how a process queue comes and goes with the cycles that receive for *)
(* it, for any number of cycles and scans (ReceiveCycle).                  *)
(***************************************************************************)
EXTENDS RouteTable, EndpointHealth, ReceiveCycle, DataProofs,
        FiniteSetTheorems, SequenceTheorems, TLAPS

(***************************************************************************)
(* RouteTable: requests in flight and the callers that share them.         *)
(***************************************************************************)

-----------------------------------------------------------------------------
(* The inductive invariant, in parts.                                      *)

\* The call ended without a name server: its callback is never called.
Abandoned(c) == pc[c] = "done" /\ answer[c] = <<>>

\* What a caller knows of the route at each point of its work.
ResponseInv ==
  \A c \in Callers :
    /\ pc[c] = "hit" => response[c] \in Routes
    /\ pc[c] \in {"joined", "fetch", "sent"} \/ Abandoned(c) => response[c] = NoRoute
    /\ pc[c] \in {"ready", "collect", "apply"} => response[c] \in Responses

\* A caller is in the entry of its topic only, and waits there for an answer.
MemberInv ==
  \A t \in Topics : \A c \in inflight_route_requests[t] :
    t = TopicOf[c] /\ answer[c] = <<>> /\ (pc[c] = "joined" \/ Fetching(c) \/ Abandoned(c))

\* The caller that made an entry and has not taken it out stays in it, and there
\* is no other one in the same entry.
OwnerInv ==
  \A c \in Callers : Fetching(c) \/ Abandoned(c) =>
    /\ c \in inflight_route_requests[TopicOf[c]]
    /\ \A d \in inflight_route_requests[TopicOf[c]] : d = c \/ pc[d] = "joined"

\* No entry is left without the caller that made it.
OwnedInv ==
  \A t \in Topics : inflight_route_requests[t] # {} =>
    \E c \in inflight_route_requests[t] : Fetching(c) \/ Abandoned(c)

\* The callers taken out of an entry wait for one callback thread, and for no
\* entry any more.
PendingInv ==
  \A c \in Callers : \A d \in pending[c] :
    /\ pc[c] = "apply"
    /\ answer[d] = <<>>
    /\ d \notin inflight_route_requests[TopicOf[d]]
    /\ d = c \/ pc[d] = "joined"
    /\ \A e \in Callers : d \in pending[e] => e = c

\* Only a call that is over, or one that serves others, has been answered.
AnswerInv ==
  \A c \in Callers :
    /\ answer[c] # <<>> => pc[c] \in {"done", "apply"}
    /\ pc[c] = "apply" => c \in pending[c] \/ answer[c] # <<>>

\* Only a list that is fetched can be missing, and only with an empty name in it
\* does a list that is not fetched leave a call without a name server.
ListInv ==
  /\ ~dynamic => name_server_list \in Lists
  /\ \A c \in Callers : Abandoned(c) => MayLackName

RouteInv ==
  /\ TypeOK /\ ResponseInv /\ MemberInv /\ OwnerInv /\ OwnedInv
  /\ PendingInv /\ AnswerInv /\ ListInv

\* current() is empty only with an empty name in the list.
LEMMA NameMissing ==
  ASSUME name_server_list \in Lists, index \in 0..(NameServers - 1), ~current
  PROVE  MayLackName
<1> DEFINE n == Len(name_server_list)
           i == (index % n) + 1
<1>1. name_server_list \in Seq({"host", ""}) /\ name_server_list # <<>>
  BY ListAssumption
<1>2. n \in Nat /\ n > 0
  <2>1. n \in Nat
    BY <1>1, LenProperties
  <2>2. n # 0
    BY <1>1, EmptySeq
  <2> QED BY <2>1, <2>2
<1>3. index \in Nat
  BY RouteAssumption
<1>4. i \in 1..n
  <2> HIDE DEF n
  <2>1. index % n \in 0..(n - 1)
    BY <1>2, <1>3
  <2> QED BY <1>2, <2>1
<1>5. name_server_list[i] = ""
  BY <1>2 DEF current
<1> QED BY <1>4, <1>5 DEF MayLackName

\* Every step of a caller, a callback thread or a timer keeps the invariant.
LEMMA RouteInductive == RouteInv /\ [Next]_vars => RouteInv'
<1> SUFFICES ASSUME RouteInv, [Next]_vars PROVE RouteInv'
  OBVIOUS
<1> USE RouteAssumption DEF RouteInv, Responses
<1> DEFINE callerVars == <<inflight_route_requests, pc, response, pending, answer>>
<1>1. ASSUME TypeOK', ListInv', UNCHANGED callerVars PROVE RouteInv'
  <2>1. \A c \in Callers : (Fetching(c)' <=> Fetching(c)) /\ (Abandoned(c)' <=> Abandoned(c))
    BY <1>1 DEF Fetching, Abandoned
  <2>2. ResponseInv' /\ MemberInv' /\ OwnerInv' /\ PendingInv' /\ AnswerInv'
    BY <1>1 DEF TypeOK, ResponseInv, MemberInv, OwnerInv, PendingInv, AnswerInv, Fetching, Abandoned
  <2>3. OwnedInv'
    BY <1>1, <2>1 DEF TypeOK, OwnedInv
  <2> QED BY <1>1, <2>2, <2>3
<1>2. ASSUME NEW c \in Callers, getRouteFor(c) PROVE RouteInv'
  <2>1. TypeOK'
    BY <1>2 DEF TypeOK, ResponseInv, getRouteFor, Goto, resolver
  <2>2. ResponseInv'
    BY <1>2 DEF TypeOK, ResponseInv, PendingInv, AnswerInv, Abandoned, getRouteFor, Goto
  <2>3. MemberInv'
    BY <1>2 DEF TypeOK, MemberInv, OwnerInv, PendingInv, AnswerInv, Fetching, Abandoned, getRouteFor, Goto
  <2>4. OwnerInv'
    BY <1>2 DEF TypeOK, MemberInv, OwnerInv, PendingInv, AnswerInv, Fetching, Abandoned, getRouteFor, Goto
  <2>5. OwnedInv'
    <3>1. \A d \in Callers : Fetching(d) \/ Abandoned(d) => Fetching(d)' \/ Abandoned(d)'
      BY <1>2 DEF getRouteFor, Goto, Fetching, Abandoned, AnswerInv, TypeOK
    <3>2. inflight_route_requests' = inflight_route_requests
      BY <1>2 DEF getRouteFor, Goto
    <3> QED BY <3>1, <3>2 DEF OwnedInv, TypeOK
  <2>6. PendingInv'
    BY <1>2 DEF TypeOK, MemberInv, OwnerInv, PendingInv, AnswerInv, Fetching, Abandoned, getRouteFor, Goto
  <2>7. AnswerInv'
    BY <1>2 DEF TypeOK, OwnerInv, PendingInv, AnswerInv, Fetching, getRouteFor, Goto
  <2>8. ListInv'
    BY <1>2 DEF TypeOK, ListInv, MayLackName, AnswerInv, Abandoned, getRouteFor, Goto, resolver
  <2> QED BY <2>1, <2>2, <2>3, <2>4, <2>5, <2>6, <2>7, <2>8
<1>3. ASSUME NEW c \in Callers, join(c) PROVE RouteInv'
  <2>1. TypeOK'
    <3>1. CASE topic_route_table[TopicOf[c]] = NoRoute
      <4>1. \E to \in {"fetch", "joined"} : pc' = [pc EXCEPT ![c] = to]
        BY <1>3, <3>1 DEF join, Goto
      <4>2. pc' \in [Callers -> {"idle", "miss", "hit", "joined", "fetch", "sent", "ready",
                                "collect", "apply", "done"}]
        BY <4>1 DEF TypeOK
      <4>3. inflight_route_requests' \in [Topics -> SUBSET Callers]
        <5>1. inflight_route_requests' = [inflight_route_requests EXCEPT
                ![TopicOf[c]] = inflight_route_requests[TopicOf[c]] \cup {c}]
          BY <1>3, <3>1 DEF join
        <5> QED BY <5>1 DEF TypeOK
      <4>4. response' \in [Callers -> Responses \cup {NoRoute}]
        BY <1>3, <3>1 DEF TypeOK, join
      <4> QED BY <1>3, <4>2, <4>3, <4>4 DEF TypeOK, join, resolver
    <3>2. CASE topic_route_table[TopicOf[c]] # NoRoute
      BY <1>3, <3>2 DEF TypeOK, join, Goto, resolver
    <3> QED BY <3>1, <3>2
  <2>2. ResponseInv'
    BY <1>3 DEF TypeOK, ResponseInv, PendingInv, AnswerInv, Abandoned, join, Goto
  <2>3. MemberInv'
    <3>1. pc[c] = "miss" /\ answer' = answer /\ answer[c] = <<>>
      BY <1>3 DEF join, AnswerInv, TypeOK
    <3>2. \A t \in Topics : c \notin inflight_route_requests[t]
      BY <3>1 DEF MemberInv, Fetching, Abandoned, TypeOK
    <3>3. PICK to \in {"hit", "fetch", "joined"} :
            /\ pc' = [pc EXCEPT ![c] = to]
            /\ \/ inflight_route_requests' = inflight_route_requests
               \/ /\ to # "hit"
                  /\ inflight_route_requests' = [inflight_route_requests EXCEPT
                       ![TopicOf[c]] = inflight_route_requests[TopicOf[c]] \cup {c}]
      BY <1>3 DEF join, Goto
    <3>4. ASSUME NEW t \in Topics, NEW d \in inflight_route_requests'[t]
          PROVE  /\ t = TopicOf[d] /\ answer'[d] = <<>>
                 /\ pc'[d] = "joined" \/ Fetching(d)' \/ Abandoned(d)'
      <4>1. d \in Callers
        BY <3>3, <3>4 DEF TypeOK
      <4>2. CASE d = c
        BY <3>1, <3>2, <3>3, <3>4, <4>2 DEF TypeOK, Fetching
      <4>3. CASE d # c
        <5>1. inflight_route_requests'[t] \subseteq inflight_route_requests[t] \cup {c}
          BY <3>3 DEF TypeOK
        <5>2. pc'[d] = pc[d] /\ answer'[d] = answer[d]
          BY <3>1, <3>3, <4>1, <4>3 DEF TypeOK
        <5> QED BY <3>4, <4>3, <5>1, <5>2 DEF MemberInv, Fetching, Abandoned
      <4> QED BY <4>2, <4>3
    <3> QED BY <3>4 DEF MemberInv
  <2>4. OwnerInv'
    BY <1>3 DEF TypeOK, MemberInv, OwnerInv, PendingInv, AnswerInv, Fetching, Abandoned, join, Goto
  <2>5. OwnedInv'
    <3> DEFINE t == TopicOf[c]
    <3>1. CASE topic_route_table[t] = NoRoute
      <4>1. /\ pc[c] = "miss"
            /\ pc' = [pc EXCEPT ![c] = IF inflight_route_requests[t] = {} THEN "fetch" ELSE "joined"]
            /\ inflight_route_requests' =
                 [inflight_route_requests EXCEPT ![t] = inflight_route_requests[t] \cup {c}]
            /\ answer' = answer
        BY <1>3, <3>1 DEF join, Goto
      <4>2. \A d \in Callers : Fetching(d) \/ Abandoned(d) => Fetching(d)' \/ Abandoned(d)'
        BY <4>1 DEF Fetching, Abandoned, TypeOK
      <4>3. inflight_route_requests[t] = {} => Fetching(c)'
        BY <4>1 DEF Fetching, TypeOK
      <4> QED BY <4>1, <4>2, <4>3 DEF OwnedInv, TypeOK
    <3>2. CASE topic_route_table[t] # NoRoute
      <4>1. /\ pc[c] = "miss" /\ pc' = [pc EXCEPT ![c] = "hit"]
            /\ UNCHANGED <<inflight_route_requests, answer>>
        BY <1>3, <3>2 DEF join, Goto
      <4>2. \A d \in Callers : Fetching(d) \/ Abandoned(d) => Fetching(d)' \/ Abandoned(d)'
        BY <4>1 DEF Fetching, Abandoned, TypeOK
      <4> QED BY <4>1, <4>2 DEF OwnedInv, TypeOK
    <3> QED BY <3>1, <3>2
  <2>6. PendingInv'
    BY <1>3 DEF TypeOK, MemberInv, OwnerInv, PendingInv, AnswerInv, Fetching, Abandoned, join, Goto
  <2>7. AnswerInv'
    <3>1. pc[c] = "miss" /\ answer' = answer /\ pending' = pending
      BY <1>3 DEF join
    <3>2. \E to \in {"hit", "fetch", "joined"} : pc' = [pc EXCEPT ![c] = to]
      BY <1>3 DEF join, Goto
    <3> QED BY <3>1, <3>2 DEF TypeOK, AnswerInv
  <2>8. ListInv'
    BY <1>3 DEF TypeOK, ListInv, MayLackName, AnswerInv, Abandoned, join, Goto, resolver
  <2> QED BY <2>1, <2>2, <2>3, <2>4, <2>5, <2>6, <2>7, <2>8
<1>4. ASSUME NEW c \in Callers, hit(c) PROVE RouteInv'
  <2>1. TypeOK'
    BY <1>4 DEF TypeOK, ResponseInv, hit, Goto, resolver
  <2>2. ResponseInv'
    BY <1>4 DEF TypeOK, ResponseInv, PendingInv, AnswerInv, Abandoned, hit, Goto
  <2>3. MemberInv'
    BY <1>4 DEF TypeOK, MemberInv, OwnerInv, PendingInv, AnswerInv, Fetching, Abandoned, hit, Goto
  <2>4. OwnerInv'
    BY <1>4 DEF TypeOK, MemberInv, OwnerInv, PendingInv, AnswerInv, Fetching, Abandoned, hit, Goto
  <2>5. OwnedInv'
    <3>1. \A d \in Callers : Fetching(d) \/ Abandoned(d) => Fetching(d)' \/ Abandoned(d)'
      BY <1>4 DEF hit, Goto, Fetching, Abandoned, AnswerInv, TypeOK
    <3>2. inflight_route_requests' = inflight_route_requests
      BY <1>4 DEF hit, Goto
    <3> QED BY <3>1, <3>2 DEF OwnedInv, TypeOK
  <2>6. PendingInv'
    BY <1>4 DEF TypeOK, MemberInv, OwnerInv, PendingInv, AnswerInv, Fetching, Abandoned, hit, Goto
  <2>7. AnswerInv'
    BY <1>4 DEF TypeOK, OwnerInv, PendingInv, AnswerInv, Fetching, hit, Goto
  <2>8. ListInv'
    <3>1. answer' = [answer EXCEPT ![c] = Append(answer[c], response[c])]
      BY <1>4 DEF hit
    <3>2. answer'[c] # <<>>
      BY <3>1 DEF TypeOK
    <3>3. \A d \in Callers : Abandoned(d)' => Abandoned(d)
      BY <1>4, <3>1, <3>2 DEF TypeOK, Abandoned, hit, Goto
    <3> QED BY <1>4, <3>3 DEF ListInv, MayLackName, hit, resolver
  <2> QED BY <2>1, <2>2, <2>3, <2>4, <2>5, <2>6, <2>7, <2>8
<1>5. ASSUME NEW c \in Callers, fetchRouteFor(c) PROVE RouteInv'
  <2>0. /\ pc[c] = "fetch"
        /\ \E to \in {"sent", "done"} : pc' = [pc EXCEPT ![c] = to]
        /\ UNCHANGED <<topic_route_table, inflight_route_requests, response, pending,
                       answer, refresh, index, dynamic, name_server_list>>
    BY <1>5 DEF fetchRouteFor, Goto, resolver
  <2>1. TypeOK'
    BY <2>0 DEF TypeOK, ResponseInv
  <2>2. ResponseInv'
    BY <2>0 DEF TypeOK, ResponseInv, PendingInv, AnswerInv, Abandoned
  <2>3. MemberInv'
    BY <2>0 DEF TypeOK, MemberInv, OwnerInv, PendingInv, AnswerInv, Fetching, Abandoned
  <2>4. OwnerInv'
    BY <2>0 DEF TypeOK, MemberInv, OwnerInv, PendingInv, AnswerInv, Fetching, Abandoned
  <2>5. OwnedInv'
    <3>1. \A d \in Callers : Fetching(d) \/ Abandoned(d) => Fetching(d)' \/ Abandoned(d)'
      BY <2>0 DEF Fetching, Abandoned, AnswerInv, TypeOK
    <3>2. inflight_route_requests' = inflight_route_requests
      BY <2>0
    <3> QED BY <3>1, <3>2 DEF OwnedInv, TypeOK
  <2>6. PendingInv'
    BY <2>0 DEF TypeOK, MemberInv, OwnerInv, PendingInv, AnswerInv, Fetching, Abandoned
  <2>7. AnswerInv'
    BY <2>0 DEF TypeOK, OwnerInv, PendingInv, AnswerInv, Fetching
  <2>8. ListInv'
    <3>1. dynamic' = dynamic /\ name_server_list' = name_server_list
      BY <1>5 DEF fetchRouteFor, resolver
    <3>2. ~current => MayLackName
      <4>1. CASE ~dynamic
        BY <4>1, NameMissing DEF ListInv, TypeOK
      <4> QED BY <4>1 DEF MayLackName
    <3> QED BY <1>5, <3>1, <3>2 DEF TypeOK, ListInv, MayLackName, AnswerInv, Abandoned, fetchRouteFor, Goto
  <2> QED BY <2>1, <2>2, <2>3, <2>4, <2>5, <2>6, <2>7, <2>8
<1>6. ASSUME NEW c \in Callers, NEW res \in Responses, resolveRoute(c, res) PROVE RouteInv'
  <2>1. TypeOK'
    BY <1>6 DEF TypeOK, ResponseInv, resolveRoute, Goto, nextNameServer, resolver
  <2>2. ResponseInv'
    BY <1>6 DEF TypeOK, ResponseInv, PendingInv, AnswerInv, Abandoned, resolveRoute, Goto, nextNameServer
  <2>3. MemberInv'
    BY <1>6 DEF TypeOK, MemberInv, OwnerInv, PendingInv, AnswerInv, Fetching, Abandoned, resolveRoute, Goto, nextNameServer
  <2>4. OwnerInv'
    BY <1>6 DEF TypeOK, MemberInv, OwnerInv, PendingInv, AnswerInv, Fetching, Abandoned, resolveRoute, Goto, nextNameServer
  <2>5. OwnedInv'
    <3>1. \A d \in Callers : Fetching(d) \/ Abandoned(d) => Fetching(d)' \/ Abandoned(d)'
      BY <1>6 DEF resolveRoute, Goto, nextNameServer, Fetching, Abandoned, AnswerInv, TypeOK
    <3>2. inflight_route_requests' = inflight_route_requests
      BY <1>6 DEF resolveRoute, Goto, nextNameServer
    <3> QED BY <3>1, <3>2 DEF OwnedInv, TypeOK
  <2>6. PendingInv'
    BY <1>6 DEF TypeOK, MemberInv, OwnerInv, PendingInv, AnswerInv, Fetching, Abandoned, resolveRoute, Goto, nextNameServer
  <2>7. AnswerInv'
    BY <1>6 DEF TypeOK, OwnerInv, PendingInv, AnswerInv, Fetching, resolveRoute, Goto, nextNameServer
  <2>8. ListInv'
    BY <1>6 DEF TypeOK, ListInv, MayLackName, AnswerInv, Abandoned, resolveRoute, Goto, nextNameServer, resolver
  <2> QED BY <2>1, <2>2, <2>3, <2>4, <2>5, <2>6, <2>7, <2>8
<1>7. ASSUME NEW c \in Callers, onTopicRouteReady(c) PROVE RouteInv'
  <2>1. TypeOK'
    BY <1>7 DEF TypeOK, ResponseInv, onTopicRouteReady, updateRouteCache, Goto, resolver
  <2>2. ResponseInv'
    BY <1>7 DEF TypeOK, ResponseInv, PendingInv, AnswerInv, Abandoned, onTopicRouteReady, updateRouteCache, Goto
  <2>3. MemberInv'
    BY <1>7 DEF TypeOK, MemberInv, OwnerInv, PendingInv, AnswerInv, Fetching, Abandoned, onTopicRouteReady, updateRouteCache, Goto
  <2>4. OwnerInv'
    BY <1>7 DEF TypeOK, MemberInv, OwnerInv, PendingInv, AnswerInv, Fetching, Abandoned, onTopicRouteReady, updateRouteCache, Goto
  <2>5. OwnedInv'
    <3>1. \A d \in Callers : Fetching(d) \/ Abandoned(d) => Fetching(d)' \/ Abandoned(d)'
      BY <1>7 DEF onTopicRouteReady, updateRouteCache, Goto, Fetching, Abandoned, AnswerInv, TypeOK
    <3>2. inflight_route_requests' = inflight_route_requests
      BY <1>7 DEF onTopicRouteReady, updateRouteCache, Goto
    <3> QED BY <3>1, <3>2 DEF OwnedInv, TypeOK
  <2>6. PendingInv'
    BY <1>7 DEF TypeOK, MemberInv, OwnerInv, PendingInv, AnswerInv, Fetching, Abandoned, onTopicRouteReady, updateRouteCache, Goto
  <2>7. AnswerInv'
    BY <1>7 DEF TypeOK, OwnerInv, PendingInv, AnswerInv, Fetching, onTopicRouteReady, updateRouteCache, Goto
  <2>8. ListInv'
    BY <1>7 DEF TypeOK, ListInv, MayLackName, AnswerInv, Abandoned, onTopicRouteReady, updateRouteCache, Goto, resolver
  <2> QED BY <2>1, <2>2, <2>3, <2>4, <2>5, <2>6, <2>7, <2>8
<1>8. ASSUME NEW c \in Callers, takePending(c) PROVE RouteInv'
  <2>1. TypeOK'
    BY <1>8 DEF TypeOK, ResponseInv, takePending, Goto, resolver
  <2>2. ResponseInv'
    BY <1>8 DEF TypeOK, ResponseInv, PendingInv, AnswerInv, Abandoned, takePending, Goto
  <2>3. MemberInv'
    BY <1>8 DEF TypeOK, MemberInv, OwnerInv, PendingInv, AnswerInv, Fetching, Abandoned, takePending, Goto
  <2>4. OwnerInv'
    BY <1>8 DEF TypeOK, MemberInv, OwnerInv, PendingInv, AnswerInv, Fetching, Abandoned, takePending, Goto
  <2>5. OwnedInv'
    <3>1. \A d \in Callers : TopicOf[d] # TopicOf[c] =>
            (Fetching(d) \/ Abandoned(d) => Fetching(d)' \/ Abandoned(d)')
      BY <1>8 DEF takePending, Goto, Fetching, Abandoned, TypeOK
    <3>2. \A t \in Topics, d \in Callers : d \in inflight_route_requests[t] => TopicOf[d] = t
      BY DEF MemberInv, TypeOK
    <3>3. inflight_route_requests' = [inflight_route_requests EXCEPT ![TopicOf[c]] = {}]
      BY <1>8 DEF takePending
    <3> QED BY <3>1, <3>2, <3>3 DEF OwnedInv, TypeOK
  <2>6. PendingInv'
    BY <1>8 DEF TypeOK, MemberInv, OwnerInv, PendingInv, AnswerInv, Fetching, Abandoned, takePending, Goto
  <2>7. AnswerInv'
    BY <1>8 DEF TypeOK, OwnerInv, PendingInv, AnswerInv, Fetching, takePending, Goto
  <2>8. ListInv'
    BY <1>8 DEF TypeOK, ListInv, MayLackName, AnswerInv, Abandoned, takePending, Goto, resolver
  <2> QED BY <2>1, <2>2, <2>3, <2>4, <2>5, <2>6, <2>7, <2>8
<1>9. ASSUME NEW c \in Callers, NEW d \in Callers, applyCallback(c, d) PROVE RouteInv'
  <2>1. TypeOK'
    <3>1. response[c] \in Responses
      BY <1>9 DEF ResponseInv, applyCallback
    <3>2. Append(answer[d], response[c]) \in Seq(Responses)
      BY <3>1 DEF TypeOK
    <3>3. answer' \in [Callers -> Seq(Responses)]
      BY <1>9, <3>2 DEF TypeOK, applyCallback
    <3> QED BY <1>9, <3>3 DEF TypeOK, applyCallback, resolver
  <2>2. ResponseInv'
    BY <1>9 DEF TypeOK, ResponseInv, PendingInv, AnswerInv, Abandoned, applyCallback
  <2>3. MemberInv'
    BY <1>9 DEF TypeOK, MemberInv, OwnerInv, PendingInv, AnswerInv, Fetching, Abandoned, applyCallback
  <2>4. OwnerInv'
    BY <1>9 DEF TypeOK, MemberInv, OwnerInv, PendingInv, AnswerInv, Fetching, Abandoned, applyCallback
  <2>5. OwnedInv'
    <3>1. d \notin inflight_route_requests[TopicOf[d]] /\ pc[c] = "apply"
      BY <1>9 DEF PendingInv, applyCallback
    <3>2. \A t \in Topics : d \notin inflight_route_requests[t] /\ c \notin inflight_route_requests[t]
      BY <3>1 DEF MemberInv, Fetching, Abandoned, TypeOK
    <3>3. \A e \in Callers \ {c, d} :
            Fetching(e) \/ Abandoned(e) => Fetching(e)' \/ Abandoned(e)'
      BY <1>9 DEF applyCallback, Fetching, Abandoned, TypeOK
    <3>4. inflight_route_requests' = inflight_route_requests
      BY <1>9 DEF applyCallback
    <3> QED BY <3>2, <3>3, <3>4 DEF OwnedInv, TypeOK
  <2>6. PendingInv'
    BY <1>9 DEF TypeOK, MemberInv, OwnerInv, PendingInv, AnswerInv, Fetching, Abandoned, applyCallback
  <2>7. AnswerInv'
    BY <1>9 DEF TypeOK, OwnerInv, PendingInv, AnswerInv, Fetching, applyCallback
  <2>8. ListInv'
    <3>1. answer'[d] # <<>>
      <4>1. answer[d] = <<>>
        BY <1>9 DEF PendingInv, applyCallback
      <4>2. answer'[d] = Append(answer[d], response[c])
        BY <1>9 DEF TypeOK, applyCallback
      <4> QED BY <4>1, <4>2
    <3>2. \A e \in Callers : Abandoned(e)' => Abandoned(e)
      <4>1. pending[c] = {d} /\ c # d => answer[c] # <<>>
        BY <1>9 DEF TypeOK, AnswerInv, applyCallback
      <4> QED BY <1>9, <3>1, <4>1 DEF TypeOK, Abandoned, applyCallback
    <3> QED BY <1>9, <3>2 DEF TypeOK, ListInv, MayLackName, applyCallback, resolver
  <2> QED BY <2>1, <2>2, <2>3, <2>4, <2>5, <2>6, <2>7, <2>8
<1>10. ASSUME fetch PROVE RouteInv'
  <2>1. TypeOK'
    BY <1>10 DEF TypeOK, KnownLists, fetch, fetchNameServerAddresses, onNameServerListFetched
  <2>2. ListInv'
    BY <1>10 DEF ListInv, MayLackName, Abandoned, fetch, fetchNameServerAddresses, onNameServerListFetched
  <2>3. UNCHANGED callerVars
    BY <1>10 DEF fetch, fetchNameServerAddresses, onNameServerListFetched
  <2> QED BY <1>1, <2>1, <2>2, <2>3
<1>11. ASSUME updateRouteInfo PROVE RouteInv'
  <2>1. TypeOK'
    BY <1>11 DEF TypeOK, updateRouteInfo, resolver
  <2>2. ListInv'
    BY <1>11 DEF ListInv, MayLackName, Abandoned, updateRouteInfo, resolver
  <2>3. UNCHANGED callerVars
    BY <1>11 DEF updateRouteInfo, resolver
  <2> QED BY <1>1, <2>1, <2>2, <2>3
<1>12. ASSUME NEW t \in Topics, refreshRoute(t) PROVE RouteInv'
  <2>1. TypeOK'
    BY <1>12 DEF TypeOK, refreshRoute, resolver
  <2>2. ListInv'
    BY <1>12 DEF ListInv, MayLackName, Abandoned, refreshRoute, resolver
  <2>3. UNCHANGED callerVars
    BY <1>12 DEF refreshRoute, resolver
  <2> QED BY <1>1, <2>1, <2>2, <2>3
<1>13. ASSUME NEW t \in Topics, NEW res \in Responses, onRefreshed(t, res) PROVE RouteInv'
  <2>1. TypeOK'
    BY <1>13 DEF TypeOK, onRefreshed, updateRouteCache, nextNameServer, resolver
  <2>2. ListInv'
    BY <1>13 DEF ListInv, MayLackName, Abandoned, onRefreshed, updateRouteCache, nextNameServer, resolver
  <2>3. UNCHANGED callerVars
    BY <1>13 DEF onRefreshed, updateRouteCache, nextNameServer, resolver
  <2> QED BY <1>1, <2>1, <2>2, <2>3
<1>14. ASSUME UNCHANGED vars PROVE RouteInv'
  <2>1. TypeOK'
    BY <1>14 DEF TypeOK, vars, resolver
  <2>2. ListInv'
    BY <1>14 DEF ListInv, MayLackName, Abandoned, vars, resolver
  <2>3. UNCHANGED callerVars
    BY <1>14 DEF vars, resolver
  <2> QED BY <1>1, <2>1, <2>2, <2>3
<1> QED BY <1>2, <1>3, <1>4, <1>5, <1>6, <1>7, <1>8, <1>9, <1>10, <1>11, <1>12, <1>13, <1>14
        DEF Next, serve

\* The invariant holds initially.
LEMMA RouteInitial == Init => RouteInv
BY RouteAssumption DEF Init, initialLists, KnownLists, RouteInv, TypeOK, ResponseInv, MemberInv, OwnerInv,
   OwnedInv, PendingInv, AnswerInv, ListInv, MayLackName, Fetching, Abandoned, Responses

\* Every state of the route table and its callers satisfies it.
LEMMA RouteInvariant == Spec => []RouteInv
BY RouteInitial, RouteInductive, PTL DEF Spec

\* The variables keep their types: no callback is ever given anything but a
\* route or an error.
THEOREM TypeCorrect == Spec => []TypeOK
<1>1. RouteInv => TypeOK
  BY DEF RouteInv
<1> QED BY <1>1, RouteInvariant, PTL

-----------------------------------------------------------------------------
\* Whatever callers, callback threads, the refresh timer and the discovery of
\* name servers do, a topic has one request of getRouteFor on its way at most, the
\* assertion of onTopicRouteReady holds, and only an entry whose request found no
\* name server is left behind, for which the list must be a fetched one or have an
\* empty name in it.
THEOREM RequestsAreShared == Spec => []OneRequestPerEntry
<1>1. RouteInv => OneRequestPerEntry
  <2> SUFFICES ASSUME RouteInv, NEW t \in Topics
               PROVE  LET fetching == {c \in Callers : TopicOf[c] = t /\ Fetching(c)}
                      IN  /\ fetching \subseteq inflight_route_requests[t]
                          /\ Cardinality(fetching) <= 1
                          /\ (fetching = {} /\ inflight_route_requests[t] # {})
                               => (Forgotten(t) /\ MayLackName)
    BY DEF OneRequestPerEntry
  <2> DEFINE fetching == {c \in Callers : TopicOf[c] = t /\ Fetching(c)}
  <2>1. fetching \subseteq inflight_route_requests[t]
    BY DEF RouteInv, OwnerInv
  <2>2. Cardinality(fetching) <= 1
    <3>1. CASE fetching = {}
      BY <3>1, FS_EmptySet
    <3>2. ASSUME NEW c \in fetching PROVE fetching = {c}
      BY <2>1 DEF RouteInv, OwnerInv, Fetching
    <3>3. \A c : Cardinality({c}) = 1
      BY FS_Singleton
    <3> HIDE DEF fetching
    <3>4. CASE fetching # {}
      <4>1. PICK c \in fetching : TRUE
        BY <3>4
      <4>2. Cardinality(fetching) = 1
        BY <3>2, <3>3, <4>1
      <4> QED BY <4>2
    <3> QED BY <3>1, <3>4
  <2>3. ASSUME fetching = {}, inflight_route_requests[t] # {} PROVE Forgotten(t) /\ MayLackName
    <3>1. PICK c \in inflight_route_requests[t] : Fetching(c) \/ Abandoned(c)
      BY <2>3 DEF RouteInv, OwnedInv
    <3>2. c \in Callers /\ TopicOf[c] = t
      BY DEF RouteInv, TypeOK, MemberInv
    <3>3. Abandoned(c)
      BY <2>3, <3>1, <3>2
    <3>4. response[c] = NoRoute /\ MayLackName
      BY <3>2, <3>3 DEF RouteInv, ResponseInv, ListInv
    <3> QED BY <3>3, <3>4 DEF Forgotten, Abandoned
  <2> QED BY <2>1, <2>2, <2>3
<1> QED BY <1>1, RouteInvariant, PTL

-----------------------------------------------------------------------------
(* getRouteFor implements RouteLookup.                                     *)

Calling == {c \in Callers : pc[c] # "idle" /\ answer[c] = <<>>}

\* Every step is a call, an answer of one caller that has not been answered, or
\* none of the two.
LEMMA LookupStep == RouteInv /\ [Next]_vars => [Lookup!Next]_(Lookup!vars)
<1> SUFFICES ASSUME RouteInv, [Next]_vars PROVE [Lookup!Next]_(Lookup!vars)
  OBVIOUS
<1> USE RouteAssumption DEF RouteInv
<1>1. ASSUME answer' = answer, Calling' = Calling PROVE UNCHANGED Lookup!vars
  BY <1>1 DEF Lookup!vars, Calling
<1>2. ASSUME NEW c \in Callers, pc[c] # "idle",
             \E to \in {"hit", "joined", "fetch", "sent", "ready", "collect", "apply", "done"} :
               pc' = [pc EXCEPT ![c] = to],
             answer' = answer
      PROVE  UNCHANGED Lookup!vars
  <2>1. Calling' = Calling
    BY <1>2 DEF Calling, TypeOK
  <2> QED BY <1>1, <1>2, <2>1
<1>3. ASSUME NEW c \in Callers, c \in Calling, NEW a \in Responses,
             answer' = [answer EXCEPT ![c] = Append(@, a)],
             \A d \in Callers : pc'[d] = "idle" <=> pc[d] = "idle"
      PROVE  Lookup!Next
  <2>1. answer[c] = <<>>
    BY <1>3 DEF Calling
  <2>2. answer' = [answer EXCEPT ![c] = <<a>>]
    BY <1>3, <2>1 DEF TypeOK
  <2>3. Calling' = Calling \ {c}
    BY <1>3, <2>2 DEF Calling, TypeOK
  <2> QED BY <1>3, <2>2, <2>3 DEF Lookup!Next, Lookup!Answer, Calling
<1>4. ASSUME NEW c \in Callers, getRouteFor(c) PROVE Lookup!Next
  <2>1. pc[c] = "idle" /\ answer[c] = <<>> /\ answer' = answer
    BY <1>4 DEF getRouteFor, AnswerInv, TypeOK
  <2>2. \E to \in {"miss", "hit"} : pc' = [pc EXCEPT ![c] = to]
    BY <1>4 DEF getRouteFor, Goto
  <2>3. c \notin Calling /\ Calling' = Calling \cup {c}
    BY <2>1, <2>2 DEF Calling, TypeOK
  <2> QED BY <2>1, <2>3 DEF Lookup!Next, Lookup!Call, Calling
<1>5. ASSUME NEW c \in Callers, hit(c) PROVE Lookup!Next
  <2>1. pc[c] = "hit" /\ c \in Calling
    BY <1>5 DEF hit, AnswerInv, TypeOK, Calling
  <2>2. response[c] \in Responses
    BY <2>1 DEF ResponseInv, Responses
  <2>3. \A d \in Callers : pc'[d] = "idle" <=> pc[d] = "idle"
    BY <1>5, <2>1 DEF hit, Goto, TypeOK
  <2>4. answer' = [answer EXCEPT ![c] = Append(@, response[c])]
    BY <1>5 DEF hit
  <2> QED BY <1>3, <2>1, <2>2, <2>3, <2>4
<1>6. ASSUME NEW c \in Callers, NEW d \in Callers, applyCallback(c, d) PROVE Lookup!Next
  <2>1. pc[c] = "apply" /\ answer[d] = <<>> /\ (d = c \/ pc[d] = "joined")
    BY <1>6 DEF applyCallback, PendingInv
  <2>2. d \in Calling /\ response[c] \in Responses
    BY <2>1 DEF Calling, ResponseInv
  <2>3. \A e \in Callers : pc'[e] = "idle" <=> pc[e] = "idle"
    BY <1>6, <2>1 DEF applyCallback, TypeOK
  <2>4. answer' = [answer EXCEPT ![d] = Append(@, response[c])]
    BY <1>6 DEF applyCallback
  <2> QED BY <1>3, <2>2, <2>3, <2>4
<1>7. ASSUME NEW c \in Callers,
             \/ join(c) \/ fetchRouteFor(c) \/ onTopicRouteReady(c) \/ takePending(c)
             \/ \E res \in Responses : resolveRoute(c, res)
      PROVE  UNCHANGED Lookup!vars
  <2>1. pc[c] # "idle" /\ answer' = answer
    BY <1>7 DEF join, fetchRouteFor, onTopicRouteReady, takePending, resolveRoute
  <2>2. \E to \in {"hit", "joined", "fetch", "sent", "ready", "collect", "apply", "done"} :
          pc' = [pc EXCEPT ![c] = to]
    BY <1>7 DEF join, fetchRouteFor, onTopicRouteReady, takePending, resolveRoute, Goto
  <2> QED BY <1>2, <2>1, <2>2
<1>8. ASSUME \/ fetch
             \/ updateRouteInfo
             \/ \E t \in Topics : refreshRoute(t) \/ \E res \in Responses : onRefreshed(t, res)
             \/ UNCHANGED vars
      PROVE  UNCHANGED Lookup!vars
  <2>1. UNCHANGED <<pc, answer>>
    BY <1>8 DEF fetch, updateRouteInfo, refreshRoute, onRefreshed, vars
  <2> QED BY <1>1, <2>1 DEF Calling
<1> QED BY <1>4, <1>5, <1>6, <1>7, <1>8 DEF Next, serve

\* getRouteFor implements RouteLookup: whichever thread a callback is left to, it
\* is called once at most, with a route or an error, and never before its call.
THEOREM LookupImplemented == Spec => AnswersOnce
<1>1. Init => Lookup!Init
  BY DEF Init, Lookup!Init
<1> QED BY <1>1, RouteInvariant, LookupStep, PTL DEF Spec, AnswersOnce, Lookup!Spec

(***************************************************************************)
(* EndpointHealth: the candidates for a send.                              *)
(***************************************************************************)

-----------------------------------------------------------------------------
(* The writable partitions of a route                                      *)

\* writable as a function of the number of partitions looked at.
KeepStep(list, g, i) ==
  IF i = 0 THEN <<>>
  ELSE IF Writable(list[i]) THEN Append(g[i - 1], list[i]) ELSE g[i - 1]

KeptUpTo(list) == CHOOSE g : g = [i \in 0 .. Len(list) |-> KeepStep(list, g, i)]

\* writable is the last value of the recursive function.
LEMMA WritableIsLast ==
  ASSUME NEW list
  PROVE  writable(list) = KeptUpTo(list)[Len(list)]
BY DEF writable, KeptUpTo, KeepStep

\* The recursive function satisfies its equation for every partition.
LEMMA KeptEquation ==
  ASSUME NEW list, Len(list) \in Nat
  PROVE  \A i \in 0 .. Len(list) : KeptUpTo(list)[i] = KeepStep(list, KeptUpTo(list), i)
<1> DEFINE n == Len(list)
           Good == {m \in Nat : \E g : g = [i \in 0 .. m |-> KeepStep(list, g, i)]}
<1>1. 0 \in Good
  <2> DEFINE g == [i \in 0 .. 0 |-> <<>>]
  <2>1. \A i \in 0 .. 0 : KeepStep(list, g, i) = <<>>
    BY DEF KeepStep
  <2>2. g = [i \in 0 .. 0 |-> KeepStep(list, g, i)]
    BY <2>1
  <2> QED BY <2>2
<1>2. ASSUME NEW m \in Nat, m \in Good PROVE m + 1 \in Good
  <2>1. PICK g : g = [i \in 0 .. m |-> KeepStep(list, g, i)]
    BY <1>2
  <2> DEFINE h == [i \in 0 .. m + 1 |-> IF i \in 0 .. m THEN g[i] ELSE KeepStep(list, g, i)]
  <2>2. ASSUME NEW i \in 0 .. m + 1 PROVE h[i] = KeepStep(list, h, i)
    <3>1. i # 0 => i - 1 \in 0 .. m /\ i - 1 \in 0 .. m + 1
      OBVIOUS
    <3>2. i # 0 => h[i - 1] = g[i - 1]
      BY <3>1
    <3>3. i \in 0 .. m => g[i] = KeepStep(list, g, i)
      BY <2>1
    <3>4. h[i] = KeepStep(list, g, i)
      BY <3>3
    <3> HIDE DEF h
    <3> QED BY <3>2, <3>4 DEF KeepStep
  <2>3. h = [i \in 0 .. m + 1 |-> KeepStep(list, h, i)]
    BY <2>2
  <2> HIDE DEF h
  <2> QED BY <2>3
<1>3. n \in Good
  <2> HIDE DEF Good
  <2>1. 0 .. n \subseteq Good
    BY <1>1, <1>2, InductionUpTo
  <2> QED BY <2>1
<1> DEFINE F == KeptUpTo(list)
<1>4. F = [i \in 0 .. n |-> KeepStep(list, F, i)]
  BY <1>3 DEF KeptUpTo
<1> HIDE DEF F
<1>5. \A i \in 0 .. n : F[i] = KeepStep(list, F, i)
  BY <1>4
<1> QED BY <1>5 DEF F

\* They are partitions of the route, and all of them writable.
LEMMA WritableOnly ==
  ASSUME NEW P, NEW list \in Seq(P)
  PROVE  /\ writable(list) \in Seq(P)
         /\ \A k \in 1 .. Len(writable(list)) : Writable(writable(list)[k])
<1> DEFINE n == Len(list)
           F == KeptUpTo(list)
           Fine(s) == s \in Seq(P) /\ \A k \in 1 .. Len(s) : Writable(s[k])
           A == {i \in 0 .. n : Fine(F[i])}
<1>1. n \in Nat /\ \A i \in 0 .. n : F[i] = KeepStep(list, F, i)
  BY KeptEquation
<1> HIDE DEF F
<1>2. 0 \in A
  <2>1. F[0] = <<>> /\ 0 \in 0 .. n
    BY <1>1 DEF KeepStep
  <2>2. <<>> \in Seq(P) /\ Len(<<>>) = 0 /\ 1 .. 0 = {}
    OBVIOUS
  <2>3. Fine(F[0])
    BY <2>1, <2>2
  <2> HIDE DEF Fine
  <2> QED BY <2>1, <2>3
<1>3. ASSUME NEW i \in 0 .. n - 1, i \in A PROVE i + 1 \in A
  <2>1. i + 1 \in 0 .. n /\ i + 1 # 0 /\ (i + 1) - 1 = i /\ i + 1 \in 1 .. Len(list)
    BY <1>1
  <2>2. F[i + 1] = IF Writable(list[i + 1]) THEN Append(F[i], list[i + 1]) ELSE F[i]
    BY <1>1, <2>1 DEF KeepStep
  <2>3. Fine(F[i]) /\ list[i + 1] \in P
    BY <1>3, <2>1
  <2>4. Fine(F[i + 1])
    <3>1. CASE Writable(list[i + 1])
      <4> DEFINE s == F[i]
                 t == Append(s, list[i + 1])
      <4> HIDE DEF s
      <4>1. /\ t \in Seq(P) /\ Len(t) = Len(s) + 1 /\ Len(s) \in Nat
            /\ \A k \in 1 .. Len(t) : t[k] = IF k \in 1 .. Len(s) THEN s[k] ELSE list[i + 1]
        BY <2>3 DEF s
      <4>2. Fine(s)
        BY <2>3 DEF s
      <4>3. F[i + 1] = t
        BY <2>2, <3>1 DEF s
      <4> HIDE DEF t
      <4> QED BY <3>1, <4>1, <4>2, <4>3
    <3>2. CASE ~Writable(list[i + 1])
      BY <2>2, <2>3, <3>2
    <3> QED BY <3>1, <3>2
  <2> QED BY <2>1, <2>4
<1>4. 0 .. n \subseteq A
  <2> HIDE DEF A, n
  <2> QED BY <1>1, <1>2, <1>3, InductionUpTo
<1>5. Fine(F[n])
  BY <1>1, <1>4
<1> QED BY <1>5, WritableIsLast DEF F

-----------------------------------------------------------------------------
(* The candidates                                                          *)

\* takeMessageQueues as a function of the number of rounds.
TakeStep(list, iso, first, count, g, i) ==
  IF i = 0 THEN <<>> ELSE takeRound(g[i - 1], Visited(list, first, i - 1), iso, count)

TakenUpTo(list, iso, first, count) ==
  CHOOSE g : g = [i \in 0 .. Len(list) |-> TakeStep(list, iso, first, count, g, i)]

\* takeMessageQueues is the last value of the recursive function.
LEMMA TakenIsLast ==
  ASSUME NEW list, NEW iso, NEW first, NEW count
  PROVE  takeMessageQueues(list, iso, first, count) = TakenUpTo(list, iso, first, count)[Len(list)]
BY DEF takeMessageQueues, TakenUpTo, TakeStep

\* The recursive function satisfies its equation for every round.
LEMMA TakenEquation ==
  ASSUME NEW list, NEW iso, NEW first, NEW count, Len(list) \in Nat
  PROVE  \A i \in 0 .. Len(list) :
           TakenUpTo(list, iso, first, count)[i]
             = TakeStep(list, iso, first, count, TakenUpTo(list, iso, first, count), i)
<1> DEFINE n == Len(list)
           Step(g, i) == TakeStep(list, iso, first, count, g, i)
           Good == {m \in Nat : \E g : g = [i \in 0 .. m |-> Step(g, i)]}
<1>0. ASSUME NEW g, NEW h, NEW i, i # 0 => h[i - 1] = g[i - 1] PROVE Step(g, i) = Step(h, i)
  BY <1>0 DEF TakeStep
<1>1. 0 \in Good
  <2> DEFINE g == [i \in 0 .. 0 |-> <<>>]
  <2>1. \A i \in 0 .. 0 : Step(g, i) = <<>>
    BY DEF TakeStep
  <2>2. g = [i \in 0 .. 0 |-> Step(g, i)]
    BY <2>1
  <2> QED BY <2>2
<1>2. ASSUME NEW m \in Nat, m \in Good PROVE m + 1 \in Good
  <2> HIDE DEF Step
  <2>1. PICK g : g = [i \in 0 .. m |-> Step(g, i)]
    BY <1>2
  <2> DEFINE h == [i \in 0 .. m + 1 |-> IF i \in 0 .. m THEN g[i] ELSE Step(g, i)]
  <2>2. ASSUME NEW i \in 0 .. m + 1 PROVE h[i] = Step(h, i)
    <3>1. i # 0 => i - 1 \in 0 .. m /\ i - 1 \in 0 .. m + 1
      OBVIOUS
    <3>2. i # 0 => h[i - 1] = g[i - 1]
      BY <3>1
    <3>3. i \in 0 .. m => g[i] = Step(g, i)
      BY <2>1
    <3>4. h[i] = Step(g, i)
      BY <3>3
    <3> HIDE DEF h
    <3> QED BY <1>0, <3>2, <3>4
  <2>3. h = [i \in 0 .. m + 1 |-> Step(h, i)]
    BY <2>2
  <2> HIDE DEF h
  <2> QED BY <2>3
<1>3. n \in Good
  <2> HIDE DEF Good
  <2>1. 0 .. n \subseteq Good
    BY <1>1, <1>2, InductionUpTo
  <2> QED BY <2>1
<1> DEFINE F == TakenUpTo(list, iso, first, count)
<1>4. F = [i \in 0 .. n |-> Step(F, i)]
  BY <1>3 DEF TakenUpTo
<1> HIDE DEF F, Step
<1>5. \A i \in 0 .. n : F[i] = Step(F, i)
  BY <1>4
<1> QED BY <1>5 DEF F, Step

\* After i rounds: partitions of the list on different brokers, none of them isolated,
\* and enough of them or one of the broker of every partition seen that is not isolated.
Chosen(s, list, iso, first, count, i) ==
  /\ s \in Seq({list[j] : j \in 1 .. Len(list)})
  /\ \A k \in 1 .. Len(s) : \E j \in 1 .. Len(list) : s[k] = list[j] /\ list[j].address \notin iso
  /\ \A k, l \in 1 .. Len(s) : s[k].broker = s[l].broker => k = l
  /\ \/ s # <<>> /\ Len(s) >= count
     \/ \A v \in 0 .. i - 1 :
          \/ Visited(list, first, v).address \in iso
          \/ \E k \in 1 .. Len(s) : s[k].broker = Visited(list, first, v).broker

\* The number at which the index wraps is an integer.
LEMMA ModulusType ==
  IndexModulus \in Int
BY IndexAssumption DEF IndexModulus

\* Each round visits a partition of the list.
LEMMA VisitedInList ==
  ASSUME NEW list, Len(list) \in Nat, Len(list) > 0, NEW first \in 0 .. IndexModulus - 1, NEW i \in Nat
  PROVE  \E j \in 1 .. Len(list) : Visited(list, first, i) = list[j]
<1> DEFINE a == first + i
           x == a % IndexModulus
           y == x % Len(list)
<1>1. a \in Nat /\ IndexModulus \in Nat /\ IndexModulus # 0
  BY ModulusType
<1>2. x \in Nat
  <2> HIDE DEF a
  <2> QED BY <1>1, Division
<1>3. y \in Nat /\ y < Len(list)
  <2> HIDE DEF x
  <2> QED BY <1>2, Division
<1>4. Visited(list, first, i) = list[1 + y]
  BY DEF Visited
<1> HIDE DEF y
<1>5. 1 + y \in 1 .. Len(list)
  BY <1>3
<1> QED BY <1>4, <1>5

\* A round keeps what is said of the candidates.
LEMMA ChosenStep ==
  ASSUME NEW list, Len(list) \in Nat, NEW iso, NEW first \in 0 .. IndexModulus - 1, NEW count \in Nat,
         NEW i \in 0 .. Len(list) - 1, NEW s, Chosen(s, list, iso, first, count, i)
  PROVE  Chosen(takeRound(s, Visited(list, first, i), iso, count), list, iso, first, count, i + 1)
<1> DEFINE p == Visited(list, first, i)
           known == \E k \in 1 .. Len(s) : s[k].broker = p.broker
           full == s # <<>> /\ Len(s) >= count
           P == {list[j] : j \in 1 .. Len(list)}
<1>1. s \in Seq(P) /\ Len(s) \in Nat /\ DOMAIN s = 1 .. Len(s)
  BY DEF Chosen
<1>2. takeRound(s, p, iso, count) = IF full \/ known \/ p.address \in iso THEN s ELSE Append(s, p)
  BY <1>1 DEF takeRound
<1>3. PICK j \in 1 .. Len(list) : p = list[j]
  BY VisitedInList
<1>4. \A v \in 0 .. (i + 1) - 1 : v = i \/ v \in 0 .. i - 1
  OBVIOUS
<1> HIDE DEF p
<1>5. CASE full
  <2>1. takeRound(s, p, iso, count) = s
    BY <1>2, <1>5
  <2>2. Chosen(s, list, iso, first, count, i + 1)
    BY <1>5 DEF Chosen
  <2> QED BY <2>1, <2>2 DEF p
<1>6. CASE ~full /\ (known \/ p.address \in iso)
  <2>1. \A v \in 0 .. (i + 1) - 1 :
          \/ Visited(list, first, v).address \in iso
          \/ \E k \in 1 .. Len(s) : s[k].broker = Visited(list, first, v).broker
    BY <1>4, <1>6 DEF Chosen, p
  <2>2. takeRound(s, p, iso, count) = s
    BY <1>2, <1>6
  <2>3. Chosen(s, list, iso, first, count, i + 1)
    BY <2>1 DEF Chosen
  <2> QED BY <2>2, <2>3 DEF p
<1>7. CASE ~full /\ ~known /\ p.address \notin iso
  <2> DEFINE t == Append(s, p)
  <2>1. /\ t \in Seq(P) /\ Len(t) = Len(s) + 1 /\ t[Len(s) + 1] = p
        /\ \A k \in 1 .. Len(s) : t[k] = s[k] /\ k \in 1 .. Len(t)
        /\ Len(s) + 1 \in 1 .. Len(t)
    <3>1. p \in P
      BY <1>3
    <3> HIDE DEF p, P
    <3>2. /\ t \in Seq(P) /\ Len(t) = Len(s) + 1 /\ t[Len(s) + 1] = p
          /\ \A k \in 1 .. Len(s) : t[k] = s[k]
      BY <1>1, <3>1, AppendProperties
    <3> QED BY <1>1, <3>2
  <2>2. \A k \in 1 .. Len(t) : k = Len(s) + 1 \/ k \in 1 .. Len(s)
    BY <1>1, <2>1
  <2>3. takeRound(s, p, iso, count) = t
    BY <1>2, <1>7
  <2> HIDE DEF t
  <2>4. \A k \in 1 .. Len(t) : \E x \in 1 .. Len(list) : t[k] = list[x] /\ list[x].address \notin iso
    <3>1. p = list[j] /\ list[j].address \notin iso
      BY <1>3, <1>7
    <3>2. \A k \in 1 .. Len(s) : \E x \in 1 .. Len(list) : s[k] = list[x] /\ list[x].address \notin iso
      BY DEF Chosen
    <3>3. ASSUME NEW k \in 1 .. Len(t)
          PROVE  \E x \in 1 .. Len(list) : t[k] = list[x] /\ list[x].address \notin iso
      <4>1. CASE k = Len(s) + 1
        BY <2>1, <3>1, <4>1
      <4>2. CASE k \in 1 .. Len(s)
        <5>1. t[k] = s[k]
          BY <2>1, <4>2
        <5>2. PICK x \in 1 .. Len(list) : s[k] = list[x] /\ list[x].address \notin iso
          BY <3>2, <4>2
        <5> QED BY <5>1, <5>2
      <4> QED BY <2>2, <4>1, <4>2
    <3> QED BY <3>3
  <2>5. ASSUME NEW k \in 1 .. Len(t), NEW l \in 1 .. Len(t), t[k].broker = t[l].broker PROVE k = l
    <3>1. ASSUME NEW m \in 1 .. Len(s) PROVE t[m].broker # p.broker
      BY <1>7, <2>1, <3>1
    <3>2. \A m, o \in 1 .. Len(s) : t[m].broker = t[o].broker => m = o
      BY <2>1 DEF Chosen
    <3> QED BY <2>1, <2>2, <2>5, <3>1, <3>2
  <2>6. \A v \in 0 .. (i + 1) - 1 :
          \/ Visited(list, first, v).address \in iso
          \/ \E k \in 1 .. Len(t) : t[k].broker = Visited(list, first, v).broker
    <3>1. ASSUME NEW v \in 0 .. i - 1
          PROVE  \/ Visited(list, first, v).address \in iso
                 \/ \E k \in 1 .. Len(t) : t[k].broker = Visited(list, first, v).broker
      <4>1. \/ Visited(list, first, v).address \in iso
            \/ \E k \in 1 .. Len(s) : s[k].broker = Visited(list, first, v).broker
        BY <1>7 DEF Chosen
      <4> QED BY <2>1, <4>1
    <3>2. \E k \in 1 .. Len(t) : t[k].broker = Visited(list, first, i).broker
      BY <2>1 DEF p
    <3> QED BY <1>4, <3>1, <3>2
  <2>7. Chosen(t, list, iso, first, count, i + 1)
    BY <2>1, <2>4, <2>5, <2>6 DEF Chosen
  <2> QED BY <2>3, <2>7 DEF p
<1> QED BY <1>5, <1>6, <1>7 DEF p

\* So does the loop.
LEMMA CandidatesChosen ==
  ASSUME NEW list, Len(list) \in Nat, NEW iso, NEW first \in 0 .. IndexModulus - 1, NEW count \in Nat
  PROVE  Chosen(takeMessageQueues(list, iso, first, count), list, iso, first, count, Len(list))
<1> DEFINE n == Len(list)
           F == TakenUpTo(list, iso, first, count)
           A == {i \in 0 .. n : Chosen(F[i], list, iso, first, count, i)}
<1>1. \A i \in 0 .. n : F[i] = TakeStep(list, iso, first, count, F, i)
  BY TakenEquation
<1> HIDE DEF F
<1>2. 0 \in A
  <2>1. F[0] = <<>> /\ 0 \in 0 .. n
    BY <1>1 DEF TakeStep
  <2>2. <<>> \in Seq({list[j] : j \in 1 .. n}) /\ Len(<<>>) = 0 /\ 1 .. 0 = {} /\ 0 .. 0 - 1 = {}
    OBVIOUS
  <2>3. Chosen(<<>>, list, iso, first, count, 0)
    BY <2>2 DEF Chosen
  <2> QED BY <2>1, <2>3
<1>3. ASSUME NEW i \in 0 .. n - 1, i \in A PROVE i + 1 \in A
  <2>1. i + 1 \in 0 .. n /\ i + 1 # 0 /\ (i + 1) - 1 = i
    OBVIOUS
  <2>2. F[i + 1] = takeRound(F[i], Visited(list, first, i), iso, count)
    BY <1>1, <2>1 DEF TakeStep
  <2>3. Chosen(F[i], list, iso, first, count, i)
    BY <1>3
  <2>4. Chosen(F[i + 1], list, iso, first, count, i + 1)
    BY <2>2, <2>3, ChosenStep
  <2> QED BY <2>1, <2>4
<1>4. 0 .. n \subseteq A
  <2> HIDE DEF A
  <2> QED BY <1>2, <1>3, InductionUpTo
<1>5. Chosen(F[n], list, iso, first, count, n)
  BY <1>4
<1> QED BY <1>5, TakenIsLast DEF F

\* Without a wrap the rounds visit the whole list.
LEMMA VisitsAll ==
  ASSUME NEW list, Len(list) \in Nat, NEW first \in 0 .. IndexModulus - 1,
         first + Len(list) <= IndexModulus, NEW j \in 1 .. Len(list)
  PROVE  \E v \in 0 .. Len(list) - 1 : Visited(list, first, v) = list[j]
<1> DEFINE n == Len(list)
           r == first % n
           q == first \div n
           v == IF j - 1 >= r THEN j - 1 - r ELSE j - 1 + n - r
<1>1. n \in Nat /\ n # 0 /\ first \in Nat /\ IndexModulus \in Nat
  BY ModulusType
<1>2. r \in Nat /\ r < n /\ q \in Nat /\ first = n * q + r
  BY <1>1, Division
<1> HIDE DEF r, q
<1>3. v \in 0 .. n - 1
  BY <1>1, <1>2
<1>4. (first + v) % IndexModulus = first + v
  <2> DEFINE a == first + v
  <2>1. a \in Nat /\ a < IndexModulus
    BY <1>1, <1>3
  <2> HIDE DEF a
  <2>2. a % IndexModulus = a
    BY <1>1, <2>1, SmallRemainder
  <2> QED BY <2>2 DEF a
<1>5. (first + v) % n = j - 1
  <2> DEFINE a == first + v
             d == j - 1
  <2>1. d \in Nat /\ d < n
    BY <1>1
  <2>2. a \in Nat
    <3> HIDE DEF v
    <3> QED BY <1>1, <1>3
  <2>3. n * (q + 1) = n * q + n /\ n * q \in Nat /\ q + 1 \in Nat
    <3> HIDE DEF n
    <3> QED BY <1>1, <1>2
  <2>4. CASE d >= r
    <3>1. v = d - r
      BY <2>4
    <3> HIDE DEF v, n, d
    <3>2. a = n * q + d
      BY <1>2, <2>1, <2>3, <3>1
    <3> HIDE DEF a
    <3> QED BY <1>1, <1>2, <2>1, <2>2, <3>2, RemainderUnique DEF a, d
  <2>5. CASE ~ (d >= r)
    <3>1. v = d + n - r
      BY <2>5
    <3> HIDE DEF v, n, d
    <3>2. a = n * (q + 1) + d
      BY <1>1, <1>2, <2>1, <2>3, <3>1
    <3> HIDE DEF a
    <3> QED BY <1>1, <2>1, <2>2, <2>3, <3>2, RemainderUnique DEF a, d
  <2> QED BY <2>4, <2>5
<1>6. Visited(list, first, v) = list[1 + (j - 1)]
  BY <1>4, <1>5 DEF Visited
<1> HIDE DEF v
<1>7. 1 + (j - 1) = j
  OBVIOUS
<1> QED BY <1>3, <1>6, <1>7

-----------------------------------------------------------------------------
(* The publish info of a producer                                          *)

\* A partition list of writable partitions.
Usable(list) ==
  /\ \E P : list \in Seq(P)
  /\ \A i \in 1 .. Len(list) : Writable(list[i])

\* CandidatesComplete, of one list.
Complete(list, iso, first, count) ==
  LET candidates == takeMessageQueues(list, iso, first, count)
      usable == {i \in DOMAIN list : list[i].address \notin iso}
      brokers == {list[i].broker : i \in usable}
      chosen == {candidates[k].broker : k \in DOMAIN candidates}
  IN  /\ \A k \in DOMAIN candidates :
           /\ candidates[k].brokerId = MASTER_BROKER_ID
           /\ \E i \in usable : candidates[k] = list[i]
      /\ Cardinality(chosen) = Len(candidates)
      /\ first + Len(list) <= IndexModulus =>
           Len(candidates) >= count \/ chosen = brokers

\* The candidates of a list of writable partitions are complete.
LEMMA UsableCandidates ==
  ASSUME NEW list, Usable(list), NEW iso, NEW first \in 0 .. IndexModulus - 1, NEW count \in Nat
  PROVE  Complete(list, iso, first, count)
<1> DEFINE candidates == takeMessageQueues(list, iso, first, count)
           usable == {i \in DOMAIN list : list[i].address \notin iso}
           brokers == {list[i].broker : i \in usable}
           chosen == {candidates[k].broker : k \in DOMAIN candidates}
<1>1. Len(list) \in Nat /\ DOMAIN list = 1 .. Len(list)
  BY DEF Usable
<1>2. Chosen(candidates, list, iso, first, count, Len(list))
  BY <1>1, CandidatesChosen
<1> HIDE DEF candidates
<1>3. Len(candidates) \in Nat /\ DOMAIN candidates = 1 .. Len(candidates)
  BY <1>2 DEF Chosen
<1>4. ASSUME NEW k \in DOMAIN candidates
      PROVE  /\ candidates[k].brokerId = MASTER_BROKER_ID
             /\ \E i \in usable : candidates[k] = list[i]
  <2>1. PICK j \in 1 .. Len(list) : candidates[k] = list[j] /\ list[j].address \notin iso
    BY <1>2, <1>3 DEF Chosen
  <2>2. Writable(list[j])
    BY DEF Usable
  <2> QED BY <1>1, <2>1, <2>2 DEF Writable
<1>5. Cardinality(chosen) = Len(candidates)
  <2> DEFINE n == Len(candidates)
             f == [k \in 1 .. n |-> candidates[k].broker]
  <2>1. f \in Bijection(1 .. n, chosen)
    <3>1. f \in [1 .. n -> chosen] /\ \A k, l \in 1 .. n : f[k] = f[l] => k = l
      BY <1>2, <1>3 DEF Chosen
    <3>2. \A b \in chosen : \E k \in 1 .. n : f[k] = b
      BY <1>3
    <3> HIDE DEF f, chosen
    <3> QED BY <3>1, <3>2 DEF Bijection, Injection, Surjection, IsInjective
  <2>2. IsFiniteSet(1 .. n) /\ Cardinality(1 .. n) = n
    <3>1. n \in Nat /\ n \in Int /\ 1 \in Int /\ n - 1 + 1 = n /\ (1 > n => n = 0)
      BY <1>3
    <3> HIDE DEF n
    <3>2. IsFiniteSet(1 .. n) /\ Cardinality(1 .. n) = IF 1 > n THEN 0 ELSE n - 1 + 1
      BY <3>1, FS_Interval
    <3> QED BY <3>1, <3>2
  <2> HIDE DEF f, chosen
  <2> QED BY <2>1, <2>2, FS_Bijection DEF ExistsBijection
<1>6. ASSUME first + Len(list) <= IndexModulus, ~ (Len(candidates) >= count)
      PROVE  chosen = brokers
  <2>1. chosen \subseteq brokers
    BY <1>4
  <2>2. ASSUME NEW j \in usable PROVE list[j].broker \in chosen
    <3>1. j \in 1 .. Len(list)
      BY <1>1
    <3>2. PICK v \in 0 .. Len(list) - 1 : Visited(list, first, v) = list[j]
      BY <1>1, <1>6, <3>1, VisitsAll
    <3>3. \/ Visited(list, first, v).address \in iso
          \/ \E k \in 1 .. Len(candidates) : candidates[k].broker = Visited(list, first, v).broker
      BY <1>2, <1>6 DEF Chosen
    <3> QED BY <1>3, <3>2, <3>3
  <2> QED BY <2>1, <2>2
<1>7. /\ \A k \in DOMAIN candidates :
           /\ candidates[k].brokerId = MASTER_BROKER_ID
           /\ \E i \in usable : candidates[k] = list[i]
      /\ Cardinality(chosen) = Len(candidates)
      /\ first + Len(list) <= IndexModulus => Len(candidates) >= count \/ chosen = brokers
  <2> HIDE DEF usable, chosen, brokers
  <2> QED BY <1>4, <1>5, <1>6
<1> QED BY <1>7 DEF candidates, Complete

\* updatePublishInfo makes a usable list of any route.
LEMMA PublishUsable ==
  ASSUME NEW r \in TopicRoutes
  PROVE  Usable(updatePublishInfo(<<>>, r))
<1> DEFINE P == {r[i] : i \in DOMAIN r}
<1>1. r \in Seq(P)
  BY HealthAssumption
<1> HIDE DEF P
<1>2. /\ writable(r) \in Seq(P)
      /\ \A k \in 1 .. Len(writable(r)) : Writable(writable(r)[k])
  BY <1>1, WritableOnly
<1>3. <<>> \in Seq(P) /\ Len(<<>>) = 0 /\ 1 .. 0 = {}
  OBVIOUS
<1>4. Usable(<<>>) /\ Usable(writable(r))
  BY <1>2, <1>3 DEF Usable
<1> QED BY <1>4 DEF updatePublishInfo

\* Routes come from the name server, and a partition list from a route.
HealthInv ==
  /\ route \in [Clients -> TopicRoutes \cup {None}]
  /\ publish = [c \in Producers |-> publish[c]]
  /\ \A c \in Producers : publish[c] # None => Usable(publish[c])

\* There is no publish info at the beginning.
LEMMA HealthInitInv == HealthInit => HealthInv
BY DEF HealthInit, HealthInv

\* Every publish info has writable partitions.
LEMMA HealthNextInv == HealthInv /\ [HealthNext]_healthVars => HealthInv'
<1> SUFFICES ASSUME HealthInv, [HealthNext]_healthVars PROVE HealthInv'
  OBVIOUS
<1>1. ASSUME UNCHANGED <<route, publish>> PROVE HealthInv'
  BY <1>1 DEF HealthInv
<1>2. ASSUME NEW c \in Clients, cacheRoute(c) PROVE HealthInv'
  BY <1>2 DEF HealthInv, cacheRoute
<1>3. ASSUME NEW c \in Producers, asyncPublishInfo(c) PROVE HealthInv'
  <2>1. route[c] \in TopicRoutes
    BY <1>3, HealthAssumption DEF asyncPublishInfo, HealthInv
  <2>2. Usable(updatePublishInfo(<<>>, route[c]))
    BY <2>1, PublishUsable
  <2>3. publish' = [publish EXCEPT ![c] = updatePublishInfo(<<>>, route[c])] /\ route' = route
    BY <1>3 DEF asyncPublishInfo
  <2> QED BY <2>2, <2>3 DEF HealthInv
<1>4. CASE \/ \E c \in Clients : shutdown(c)
           \/ \E c \in Producers :
                \/ send(c)
                \/ \E e \in Endpoints :
                     isolateEndpoint(c, e) \/ \E ok \in BOOLEAN : onHealthCheckResponse(c, e, ok)
           \/ HeartbeatStep \/ HealthCheckStep
           \/ \E e \in Endpoints : channelShutdown(e)
           \/ UNCHANGED healthVars
  <2>1. UNCHANGED <<route, publish>>
    BY <1>4 DEF shutdown, send, isolateEndpoint, onHealthCheckResponse, HeartbeatStep, doHeartbeat,
                heartbeat, HealthCheckStep, collectHosts, cleanOfflineRpcClients,
                onRemoteEndpointRemoval, healthCheck, channelShutdown, healthVars
  <2> QED BY <1>1, <2>1
<1> QED BY <1>2, <1>3, <1>4 DEF HealthNext

\* A send chooses from the publish info.
LEMMA HealthInvImplies == HealthInv => CandidatesComplete
<1> SUFFICES ASSUME HealthInv, NEW c \in Producers, NEW first \in 0 .. IndexModulus - 1, publish[c] # None
             PROVE  Complete(publish[c], isolated[c], first, MaxAttempts)
  BY DEF CandidatesComplete, Complete, takeMessageQueuesRoundRobin
<1>1. Usable(publish[c])
  BY DEF HealthInv
<1>2. MaxAttempts \in Nat
  BY HealthAssumption
<1> QED BY <1>1, <1>2, UsableCandidates

\* Whatever is isolated, whichever route the publish info was made of and wherever the
\* first starts, takeMessageQueues gives masters of different brokers, none isolated,
\* and misses no broker it could have taken unless the first wraps around.
THEOREM CandidatesAreComplete == HealthSpec => []CandidatesComplete
BY HealthInitInv, HealthNextInv, HealthInvImplies, PTL DEF HealthSpec

(***************************************************************************)
(* ReceiveCycle: process queues and the cycles that receive for them.      *)
(***************************************************************************)

\* There are more names than cycles: a new object has one that no cycle uses, so
\* that no request on the wire mistakes it for the object it was sent for.
LEMMA NewInstance ==
  ASSUME CycleTypeOK, NEW resolved \in BOOLEAN
  PROVE  /\ getOrCreateProcessQueue(resolved) \in Instances
         /\ getOrCreateProcessQueue(resolved) # NoInstance
         /\ table # NoInstance => getOrCreateProcessQueue(resolved) = table
<1>1. CASE table # NoInstance
  BY <1>1, CycleAssumption DEF CycleTypeOK, getOrCreateProcessQueue
<1>2. CASE table = NoInstance
  <2> DEFINE names == IF resolved THEN Instances \ Unresolved ELSE Unresolved
  <2>1. names \subseteq Instances /\ Cardinality(names) > Cardinality(Cycles)
    BY CycleAssumption
  <2>2. getOrCreateProcessQueue(resolved) = CHOOSE i \in names : \A c \in Cycles : cycle[c].instance # i
    BY <1>2 DEF getOrCreateProcessQueue
  <2> HIDE DEF names
  <2>3. \E i \in names : \A c \in Cycles : cycle[c].instance # i
    <3> SUFFICES ASSUME \A i \in names : \E c \in Cycles : cycle[c].instance = i
                 PROVE  FALSE
      OBVIOUS
    <3> DEFINE user == [i \in names |-> CHOOSE c \in Cycles : cycle[c].instance = i]
    <3>1. \A i \in names : user[i] \in Cycles /\ cycle[user[i]].instance = i
      OBVIOUS
    <3>2. user \in [names -> Cycles]
      BY <3>1
    <3> HIDE DEF user
    <3>3. IsFiniteSet(names) /\ IsFiniteSet(Cycles)
      BY <2>1, CycleAssumption, FS_Subset
    <3>4. Cardinality(Cycles) < Cardinality(names)
      BY <2>1, <3>3, FS_CardinalityType
    <3>5. \E i, j \in names : i # j /\ user[i] = user[j]
      BY <3>2, <3>3, <3>4, FS_PigeonHole
    <3> QED BY <3>1, <3>5
  <2> QED BY <1>2, <2>1, <2>2, <2>3, CycleAssumption
<1> QED BY <1>1, <1>2

CycleInv == CycleTypeOK /\ IdleHasNoRequest

\* A cycle moves to a point of its work with an object.
LEMMA GoStep ==
  ASSUME CycleTypeOK, NEW c \in Cycles, NEW at \in CyclePoints, NEW i \in Instances, Go(c, at, i)
  PROVE  /\ cycle' \in [Cycles -> [pc : CyclePoints \cup {"none"},
                                   instance : Instances \cup {NoInstance}]]
         /\ \A d \in Cycles : cycle'[d].pc = "none" <=> cycle'[d].instance = NoInstance
         /\ cycle'[c].pc = at /\ cycle'[c].instance = i
         /\ \A d \in Cycles : d # c => cycle'[d] = cycle[d]
BY CycleAssumption DEF CycleTypeOK, Go, CyclePoints

\* A cycle ends.
LEMMA EndStep ==
  ASSUME CycleTypeOK, NEW c \in Cycles, End(c)
  PROVE  /\ cycle' \in [Cycles -> [pc : CyclePoints \cup {"none"},
                                   instance : Instances \cup {NoInstance}]]
         /\ \A d \in Cycles : cycle'[d].pc = "none" <=> cycle'[d].instance = NoInstance
         /\ cycle'[c] = NoCycle
         /\ \A d \in Cycles : d # c => cycle'[d] = cycle[d]
BY CycleAssumption DEF CycleTypeOK, End, NoCycle

\* The end of a cycle leaves an idle object without a request.
LEMMA EndKeeps ==
  ASSUME CycleInv, NEW c \in Cycles, End(c), UNCHANGED <<settings, table>>, expired' => expired,
         expired' \in BOOLEAN, assignment' \in AssignmentAnswers, active' \in BOOLEAN, scanning' \in BOOLEAN,
         scan' \in [Scans -> ScanPoints]
  PROVE  CycleInv'
<1>1. CycleTypeOK'
  BY EndStep DEF CycleInv, CycleTypeOK, settings
<1>2. IdleHasNoRequest'
  BY EndStep DEF CycleInv, IdleHasNoRequest, NoCycle, settings
<1> QED BY <1>1, <1>2 DEF CycleInv

\* So does a cycle that goes on, if what it does there is compatible.
LEMMA GoKeeps ==
  ASSUME CycleInv, NEW c \in Cycles, NEW at \in CyclePoints, NEW i \in Instances, Go(c, at, i),
         UNCHANGED <<settings, table>>, expired' => expired,
         i = table => ~expired' \/ (at = "query" /\ policy = "PULL"),
         expired' \in BOOLEAN, assignment' \in AssignmentAnswers, active' \in BOOLEAN, scanning' \in BOOLEAN,
         scan' \in [Scans -> ScanPoints]
  PROVE  CycleInv'
<1>1. CycleTypeOK'
  BY GoStep DEF CycleInv, CycleTypeOK, settings
<1>2. IdleHasNoRequest'
  <2> SUFFICES ASSUME expired',
                      NEW d \in Cycles, cycle'[d].instance = table
               PROVE  policy = "PULL" /\ cycle'[d].pc = "query"
    BY DEF CycleInv, IdleHasNoRequest, settings
  <2>1. CASE d = c
    BY <2>1, GoStep DEF CycleInv
  <2>2. CASE d # c
    BY <2>2, GoStep DEF CycleInv, IdleHasNoRequest
  <2> QED BY <2>1, <2>2
<1> QED BY <1>1, <1>2 DEF CycleInv

\* receiveMessage: the cycle goes on with the entry of the table, or ends.
LEMMA ReceiveMessageKeeps ==
  ASSUME CycleInv, NEW c \in Cycles, NEW resolved \in BOOLEAN, receiveMessage(c, resolved),
         UNCHANGED <<settings, assignment, active, scanning>>,
         scan' \in [Scans -> ScanPoints]
  PROVE  CycleInv'
<1>1. CASE ~active
  <2>1. End(c) /\ UNCHANGED <<table, expired>>
    BY <1>1 DEF receiveMessage
  <2> QED BY <2>1, EndKeeps DEF CycleInv, CycleTypeOK
<1>2. CASE active
  <2> DEFINE i == getOrCreateProcessQueue(resolved)
             sent == resolved /\ ~readOffset
  <2>1. /\ table' = i
        /\ IF sent THEN Go(c, FirstRequest, i) ELSE End(c)
        /\ expired' = (expired /\ table = i /\ ~(resolved /\ policy = "POLLING"))
    BY <1>2 DEF receiveMessage
  <2>2. i \in Instances /\ (table # NoInstance => i = table)
    BY NewInstance DEF CycleInv
  <2>3. FirstRequest \in CyclePoints /\ (policy = "PULL" => FirstRequest = "query")
    BY DEF FirstRequest, CyclePoints
  <2>4. sent => resolved
    OBVIOUS
  <2> HIDE DEF i, sent
  <2>5. CASE i = table
    <3>1. CASE sent
      <4>1. ~expired' \/ policy = "PULL"
        BY <2>1, <2>4, <3>1 DEF CycleInv, CycleTypeOK
      <4> QED BY <2>1, <2>2, <2>3, <2>5, <3>1, <4>1, GoKeeps DEF CycleInv, CycleTypeOK
    <3>2. CASE ~sent
      BY <2>1, <2>5, <3>2, EndKeeps DEF CycleInv, CycleTypeOK
    <3> QED BY <3>1, <3>2
  <2>6. CASE i # table
    <3>1. expired' = FALSE
      BY <2>1, <2>6
    <3>2. CASE sent
      BY <2>1, <2>2, <2>3, <3>1, <3>2, GoStep DEF CycleInv, CycleTypeOK, IdleHasNoRequest, settings
    <3>3. CASE ~sent
      BY <2>1, <2>2, <3>1, <3>3, EndStep DEF CycleInv, CycleTypeOK, IdleHasNoRequest, settings
    <3> QED BY <3>2, <3>3
  <2> QED BY <2>5, <2>6
<1> QED BY <1>1, <1>2

\* Every step of scans, cycles and shutdown keeps CycleInv.
LEMMA CycleInductive == CycleInv /\ [CycleNext]_cycleVars => CycleInv'
<1> SUFFICES ASSUME CycleInv, [CycleNext]_cycleVars PROVE CycleInv'
  OBVIOUS
<1>1. \A c \in Cycles : cycle[c].pc # "none" => cycle[c].instance \in Instances
  BY DEF CycleInv, CycleTypeOK
<1>2. CASE \/ rebalance \/ updateOffset \/ shutdownBase \/ UNCHANGED cycleVars
           \/ \E k \in Scans : scanAssignments(k)
  <2>1. UNCHANGED <<policy, table, expired, cycle>>
    BY <1>2 DEF rebalance, updateOffset, shutdownBase, scanAssignments, cycleVars, settings
  <2>2. /\ assignment' \in AssignmentAnswers /\ active' \in BOOLEAN /\ scanning' \in BOOLEAN
        /\ offset_store' \in {"empty", "full"}
    <3>1. CASE rebalance
      BY Zenon, <3>1 DEF CycleInv, CycleTypeOK, rebalance, settings
    <3>2. CASE updateOffset
      BY Zenon, <3>2 DEF CycleInv, CycleTypeOK, updateOffset
    <3>3. CASE shutdownBase
      BY Zenon, <3>3 DEF CycleInv, CycleTypeOK, shutdownBase, settings
    <3>4. CASE UNCHANGED cycleVars
      BY Zenon, <3>4 DEF CycleInv, CycleTypeOK, cycleVars, settings
    <3>5. CASE \E k \in Scans : scanAssignments(k)
      BY Zenon, <3>5 DEF CycleInv, CycleTypeOK, scanAssignments, settings
    <3> QED BY <1>2, <3>1, <3>2, <3>3, <3>4, <3>5
  <2>3. scan' \in [Scans -> ScanPoints]
    BY <1>2 DEF CycleInv, CycleTypeOK, ScanPoints, rebalance, updateOffset, shutdownBase,
                scanAssignments, cycleVars
  <2>4. CycleTypeOK'
    BY <2>1, <2>2, <2>3 DEF CycleInv, CycleTypeOK
  <2>5. IdleHasNoRequest'
    BY <2>1 DEF CycleInv, IdleHasNoRequest
  <2> QED BY <2>4, <2>5 DEF CycleInv
<1>3. CASE shutdownScan
  BY <1>3 DEF CycleInv, CycleTypeOK, IdleHasNoRequest, shutdownScan, settings
<1>4. CASE expire
  BY <1>4 DEF CycleInv, CycleTypeOK, IdleHasNoRequest, expire, settings
<1>5. ASSUME NEW k \in Scans, syncProcessQueue(k) PROVE CycleInv'
  <2>1. expired' = FALSE
    BY <1>5 DEF CycleInv, CycleTypeOK, syncProcessQueue
  <2>2. CycleTypeOK'
    BY <1>5, <2>1 DEF CycleInv, CycleTypeOK, ScanPoints, syncProcessQueue, settings
  <2> QED BY <2>1, <2>2 DEF CycleInv, IdleHasNoRequest
<1>6. ASSUME NEW k \in Scans, NEW c \in Cycles, startReceiving(k, c) PROVE CycleInv'
  <2>1. scan' \in [Scans -> ScanPoints]
    BY <1>6 DEF CycleInv, CycleTypeOK, ScanPoints, startReceiving
  <2>2. (scan[k] = "start") \in BOOLEAN
    OBVIOUS
  <2> QED BY <1>6, <2>1, <2>2, ReceiveMessageKeeps DEF startReceiving
<1>7. ASSUME NEW c \in Cycles, onAnswer(c) PROVE CycleInv'
  <2>1. CASE onGone(c)
    <3>1. cycle[c].instance # table /\ cycle[c].instance \in Instances
      BY <1>1, <2>1 DEF onGone, Alive
    <3> QED BY <2>1, <3>1, EndKeeps, GoKeeps DEF onGone, CycleInv, CycleTypeOK, CyclePoints
  <2>2. CASE onSuccess(c)
    <3>1. cycle[c].instance = table => ~expired
      BY <2>2 DEF onSuccess, CycleInv, IdleHasNoRequest
    <3> QED BY <1>1, <2>2, <3>1, EndKeeps, GoKeeps DEF onSuccess, CycleInv, CycleTypeOK, CyclePoints
  <2>3. CASE onFailure(c)
    <3>1. cycle[c].instance = table => ~expired
      BY <2>3 DEF onFailure, CycleInv, IdleHasNoRequest
    <3> QED BY <1>1, <2>3, <3>1, GoKeeps DEF onFailure, CycleInv, CycleTypeOK, CyclePoints
  <2>4. ASSUME NEW ok \in BOOLEAN, onOffset(c, ok) PROVE CycleInv'
    BY <1>1, <2>4, EndKeeps, GoKeeps DEF onOffset, CycleInv, CycleTypeOK, CyclePoints
  <2> QED BY <1>7, <2>1, <2>2, <2>3, <2>4 DEF onAnswer
<1>8. ASSUME NEW c \in Cycles, receiveMessageLater(c) \/ checkThrottle(c) PROVE CycleInv'
  <2>1. CASE receiveMessageLater(c)
    <3>1. cycle[c].instance = table => ~expired
      BY <2>1 DEF receiveMessageLater, CycleInv, IdleHasNoRequest
    <3> QED BY <1>1, <2>1, <3>1, GoKeeps DEF receiveMessageLater, CycleInv, CycleTypeOK, CyclePoints
  <2>2. CASE checkThrottle(c)
    BY <1>1, <2>2, GoKeeps DEF checkThrottle, CycleInv, CycleTypeOK, CyclePoints
  <2> QED BY <1>8, <2>1, <2>2
<1>9. ASSUME NEW c \in Cycles, receiveMessageImmediately(c) PROVE CycleInv'
  <2>1. (cycle[c].instance \notin Unresolved) \in BOOLEAN
    OBVIOUS
  <2>2. scan' \in [Scans -> ScanPoints] /\ UNCHANGED <<settings, assignment, active, scanning>>
    BY <1>9 DEF receiveMessageImmediately, CycleInv, CycleTypeOK
  <2>3. CASE Alive(cycle[c].instance)
    BY <1>9, <2>1, <2>2, <2>3, ReceiveMessageKeeps DEF receiveMessageImmediately
  <2>4. CASE ~Alive(cycle[c].instance)
    BY <1>9, <2>2, <2>4, EndKeeps DEF receiveMessageImmediately, CycleInv, CycleTypeOK
  <2> QED BY <2>3, <2>4
<1> QED BY <1>2, <1>3, <1>4, <1>5, <1>6, <1>7, <1>8, <1>9 DEF CycleNext, checkThrottleThenReceive

\* CycleInv is an invariant.
LEMMA CycleInvariant == CycleSpec => []CycleInv
<1>1. CycleInit => CycleInv
  <2> SUFFICES ASSUME CycleInit PROVE CycleInv
    OBVIOUS
  <2>1. /\ cycle \in [Cycles -> [pc : CyclePoints \cup {"none"},
                                instance : Instances \cup {NoInstance}]]
        /\ \A c \in Cycles : cycle[c].pc = "none" /\ cycle[c].instance = NoInstance
    BY DEF CycleInit, NoCycle
  <2>2. scan \in [Scans -> ScanPoints]
    BY DEF CycleInit, ScanPoints
  <2>3. CycleTypeOK
    BY <2>1, <2>2 DEF CycleInit, CycleTypeOK
  <2> QED BY <2>3 DEF CycleInit, CycleInv, IdleHasNoRequest
<1> QED BY <1>1, CycleInductive, PTL DEF CycleSpec

\* ReceiveCycle is type-correct; in particular a cycle that is not over has an
\* object, and a new object always finds a name that no cycle uses.
THEOREM CycleTypeCorrect == CycleSpec => []CycleTypeOK
BY CycleInvariant, PTL DEF CycleInv

\* syncProcessQueue never removes a process queue for being idle while a request
\* for it is on the wire or its timer is pending: whoever sends or throttles has
\* reset the idle time of the object that is in the table then.
THEOREM IdleQueuesHaveNoRequest == CycleSpec => []IdleHasNoRequest
BY CycleInvariant, PTL DEF CycleInv

\* After PushConsumerImpl::shutdown no cycle begins and no process queue is
\* created, whatever the scan and the callbacks were doing (receiveMessage).
THEOREM NothingStartsWhenStopped == CycleSpec => NothingStartsStopped
<1>1. CycleInv /\ [CycleNext]_cycleVars =>
        [~active => /\ ~active' /\ table' \in {table, NoInstance}
                    /\ \A c \in Cycles : cycle[c] = NoCycle => cycle'[c] = NoCycle]_cycleVars
  <2> SUFFICES ASSUME CycleInv, CycleNext, ~active
               PROVE  /\ ~active' /\ table' \in {table, NoInstance}
                      /\ \A c \in Cycles : cycle[c] = NoCycle => cycle'[c] = NoCycle
    BY Zenon
  <2>1. ASSUME NEW c \in Cycles, NEW at, NEW i, Go(c, at, i), cycle[c].pc # "none"
        PROVE  \A d \in Cycles : cycle[d] = NoCycle => cycle'[d] = NoCycle
    BY <2>1 DEF Go, NoCycle, CycleInv, CycleTypeOK
  <2>2. ASSUME NEW c \in Cycles, End(c)
        PROVE  \A d \in Cycles : cycle[d] = NoCycle => cycle'[d] = NoCycle
    BY <2>2 DEF End, NoCycle, CycleInv, CycleTypeOK
  <2>3. CASE rebalance \/ updateOffset \/ shutdownScan \/ shutdownBase \/ expire
    BY <2>3 DEF rebalance, updateOffset, shutdownScan, shutdownBase, expire
  <2>4. ASSUME NEW k \in Scans, scanAssignments(k) \/ syncProcessQueue(k)
        PROVE  active' = active /\ table' \in {table, NoInstance} /\ cycle' = cycle
    BY <2>4 DEF scanAssignments, syncProcessQueue
  <2>5. ASSUME NEW k \in Scans, NEW c \in Cycles, startReceiving(k, c)
        PROVE  active' = active /\ table' = table /\ End(c)
    BY <2>5 DEF startReceiving, receiveMessage
  <2>6. ASSUME NEW c \in Cycles, onAnswer(c) \/ receiveMessageLater(c) \/ checkThrottleThenReceive(c)
        PROVE  /\ active' = active /\ table' = table
               /\ End(c) \/ \E at \in CyclePoints : cycle[c].pc # "none" /\ Go(c, at, cycle[c].instance)
    <3>1. CASE onGone(c) \/ onSuccess(c) \/ onFailure(c)
      BY <3>1 DEF onGone, onSuccess, onFailure, CyclePoints
    <3>2. ASSUME NEW ok \in BOOLEAN, onOffset(c, ok)
          PROVE  /\ active' = active /\ table' = table
                 /\ End(c) \/ \E at \in CyclePoints : cycle[c].pc # "none" /\ Go(c, at, cycle[c].instance)
      BY <3>2 DEF onOffset, CyclePoints
    <3>3. CASE receiveMessageLater(c) \/ checkThrottle(c)
      BY <3>3 DEF receiveMessageLater, checkThrottle, CyclePoints
    <3>4. CASE receiveMessageImmediately(c)
      BY <3>4 DEF receiveMessageImmediately, receiveMessage
    <3> QED BY <2>6, <3>1, <3>2, <3>3, <3>4 DEF onAnswer, checkThrottleThenReceive
  <2> QED BY <2>1, <2>2, <2>3, <2>4, <2>5, <2>6 DEF CycleNext
<1> QED BY <1>1, CycleInvariant, PTL DEF CycleSpec, NothingStartsStopped

==============================================================================
