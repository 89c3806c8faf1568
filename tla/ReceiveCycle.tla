---------------------------- MODULE ReceiveCycle ----------------------------
(***************************************************************************)
(* How PushConsumerImpl keeps receiving from one message queue.  The scan  *)
(* of assignments creates a ProcessQueueImpl in process_queue_table_ and   *)
(* starts a cycle of receive requests on it; AsyncReceiveMessageCallback   *)
(* keeps the cycle going; the scan removes the process queue when the      *)
(* queue is assigned to another client or the process queue is idle for    *)
(* too long.  A cycle ends when its process queue is gone.                 *)
(***************************************************************************)
EXTENDS Naturals, FiniteSets

CONSTANTS
  Instances,   \* names for ProcessQueueImpl objects, used again once free
  Unresolved,  \* those of objects whose message queue has no service address
  Cycles,      \* bound on the cycles that exist at a time
  Scans,       \* bound on the answers to queryAssignment processed at a time
  NoInstance   \* no entry in the table

ASSUME CycleAssumption ==
  /\ IsFiniteSet(Instances) /\ IsFiniteSet(Cycles)
  /\ NoInstance \notin Instances
  /\ Unresolved \subseteq Instances
  /\ Cardinality(Unresolved) > Cardinality(Cycles)
  /\ Cardinality(Instances \ Unresolved) > Cardinality(Cycles)

VARIABLES
  policy,      \* receive_message_policy_, set when the consumer starts
  offset_store, \* it has no offset of the queue (or there is no store), or has one
  assignment,  \* what the load balancer says of the queue
  active,      \* active()
  scanning,    \* the scan task is scheduled and the consume service runs
  table,       \* the queue's entry in process_queue_table_
  expired,     \* the entry has been idle for too long
  cycle,       \* the cycles: the object each works on, and where it is
  scan         \* the answers to queryAssignment being processed

settings == <<policy, offset_store>>
cycleVars == <<settings, assignment, active, scanning, table, expired, cycle, scan>>

\* The queue is this client's, or this client's without an address, or another's.
AssignmentAnswers == {"assigned", "unresolved", "unassigned"}

ScanPoints == {"idle", "start", "startUnresolved"} \cup AssignmentAnswers

\* Where a cycle is that is not over.
CyclePoints == {"query", "wire", "handling", "timer", "throttled"}

NoCycle == [pc |-> "none", instance |-> NoInstance]

CycleTypeOK ==
  /\ policy \in {"POLLING", "PULL"}
  /\ offset_store \in {"empty", "full"}
  /\ assignment \in AssignmentAnswers
  /\ active \in BOOLEAN
  /\ scanning \in BOOLEAN
  /\ table \in Instances \cup {NoInstance}
  /\ expired \in BOOLEAN
  /\ cycle \in [Cycles -> [pc : CyclePoints \cup {"none"},
                           instance : Instances \cup {NoInstance}]]
  /\ \A c \in Cycles : cycle[c].pc = "none" <=> cycle[c].instance = NoInstance
  /\ scan \in [Scans -> ScanPoints]

CycleInit ==
  /\ policy \in {"POLLING", "PULL"}
  /\ offset_store \in IF policy = "PULL" THEN {"empty", "full"} ELSE {"empty"}
  /\ assignment \in AssignmentAnswers
  /\ active = TRUE
  /\ scanning = TRUE
  /\ table = NoInstance
  /\ expired = FALSE
  /\ cycle = [c \in Cycles |-> NoCycle]
  /\ scan = [k \in Scans |-> "idle"]

\* The table and the callbacks that are executing hold shared pointers, a
\* request or a timer does not.
Alive(i) ==
  \/ table = i
  \/ \E c \in Cycles : cycle[c].instance = i /\ cycle[c].pc \in {"query", "handling"}

Go(c, pc, i) == cycle' = [cycle EXCEPT ![c] = [pc |-> pc, instance |-> i]]

End(c) == cycle' = [cycle EXCEPT ![c] = NoCycle]

-----------------------------------------------------------------------------
(* receiveMessage *)

\* The entry, or a new object when there is none.  Queues are equal whatever
\* their addresses are.
getOrCreateProcessQueue(resolved) ==
  IF table # NoInstance THEN table
  ELSE CHOOSE i \in IF resolved THEN Instances \ Unresolved ELSE Unresolved :
         \A c \in Cycles : cycle[c].instance # i

\* PULL asks for an offset first, POLLING pops messages at once.
FirstRequest == IF policy = "PULL" THEN "query" ELSE "wire"

\* readOffset finds an offset: nothing is asked and nothing received.
readOffset == policy = "PULL" /\ offset_store = "full"

\* Mutant: the state of the consumer is not looked at.
receiveMessage_Unguarded(c, resolved) ==
  LET i == getOrCreateProcessQueue(resolved)
  IN  /\ table' = i
      /\ IF resolved /\ ~readOffset THEN Go(c, FirstRequest, i) ELSE End(c)
      /\ expired' = (expired /\ table = i /\ ~(resolved /\ policy = "POLLING"))

\* Cycle c goes on with the queue's entry in the table, which may be another
\* object than the one it came from.  The object is made first; without an address
\* in the message queue at hand (resolved), or with an offset in the store, it
\* stays there and nothing is sent.  Sending a request resets the idle time, as
\* does creating the object.
receiveMessage(c, resolved) ==
  IF active
    THEN LET i == getOrCreateProcessQueue(resolved)
         IN  /\ table' = i
             /\ IF resolved /\ ~readOffset THEN Go(c, FirstRequest, i) ELSE End(c)
             /\ expired' = (expired /\ table = i /\ ~(resolved /\ policy = "POLLING"))
    ELSE End(c) /\ UNCHANGED <<table, expired>>

\* PULL: the offset to start from was asked of the broker.  An error ends the cycle.
onOffset(c, ok) ==
  /\ cycle[c].pc = "query"
  /\ IF ok THEN Go(c, "wire", cycle[c].instance) ELSE End(c)
  /\ expired' = (expired /\ ~(ok /\ cycle[c].instance = table))
  /\ UNCHANGED <<settings, assignment, active, scanning, table, scan>>

\* The consume service stores the offset it has come to.
updateOffset ==
  /\ policy = "PULL" /\ offset_store = "empty"
  /\ offset_store' = "full"
  /\ UNCHANGED <<policy, assignment, active, scanning, table, expired, cycle, scan>>

-----------------------------------------------------------------------------
(* AsyncReceiveMessageCallback *)

\* The answer finds its object gone: the cycle ends.  In PULL mode the callback
\* uses the object without looking, and may go on.
onGone(c) ==
  /\ cycle[c].pc = "wire"
  /\ ~Alive(cycle[c].instance)
  /\ \/ End(c)
     \/ policy = "PULL" /\ active /\ Go(c, "handling", cycle[c].instance)
  /\ UNCHANGED <<settings, assignment, active, scanning, table, expired, scan>>

\* A request to the empty address of its object can only fail.
onSuccess(c) ==
  /\ cycle[c].pc = "wire"
  /\ cycle[c].instance \notin Unresolved
  /\ Alive(cycle[c].instance)
  /\ IF active THEN Go(c, "handling", cycle[c].instance) ELSE End(c)
  /\ UNCHANGED <<settings, assignment, active, scanning, table, expired, scan>>

onFailure(c) ==
  /\ cycle[c].pc = "wire"
  /\ Alive(cycle[c].instance)
  /\ Go(c, "timer", cycle[c].instance)
  /\ UNCHANGED <<settings, assignment, active, scanning, table, expired, scan>>

\* Nothing found, or an error of the broker: the timer is set without a look at
\* the quota.
receiveMessageLater(c) ==
  /\ cycle[c].pc = "handling"
  /\ Go(c, "timer", cycle[c].instance)
  /\ UNCHANGED <<settings, assignment, active, scanning, table, expired, scan>>

\* The throttled case of checkThrottleThenReceive, which resets the idle time.
checkThrottle(c) ==
  /\ cycle[c].pc \in {"handling", "timer", "throttled"}
  /\ Alive(cycle[c].instance)
  /\ Go(c, "throttled", cycle[c].instance)
  /\ expired' = (expired /\ cycle[c].instance # table)
  /\ UNCHANGED <<settings, assignment, active, scanning, table, scan>>

\* The other one.
receiveMessageImmediately(c) ==
  /\ cycle[c].pc \in {"handling", "timer", "throttled"}
  /\ IF Alive(cycle[c].instance)
       THEN receiveMessage(c, cycle[c].instance \notin Unresolved)
       ELSE End(c) /\ UNCHANGED <<table, expired>>
  /\ UNCHANGED <<settings, assignment, active, scanning, scan>>

-----------------------------------------------------------------------------
(* Assignments *)

rebalance ==
  /\ assignment' \in AssignmentAnswers \ {assignment}
  /\ UNCHANGED <<settings, active, scanning, table, expired, cycle, scan>>

\* scanAssignments and the answer to its request.  The other queues of the topic
\* keep the assignment list from being empty, which would be ignored.
scanAssignments(k) ==
  /\ scan[k] = "idle"
  /\ scanning
  /\ active
  /\ scan' = [scan EXCEPT ![k] = assignment]
  /\ UNCHANGED <<settings, assignment, active, scanning, table, expired, cycle>>

\* The part of syncProcessQueue under the lock.
syncProcessQueue(k) ==
  /\ scan[k] \in AssignmentAnswers
  /\ table' = IF scan[k] = "unassigned" \/ expired THEN NoInstance ELSE table
  /\ expired' = (expired /\ table' # NoInstance)
  /\ scan' = [scan EXCEPT ![k] =
                IF table' # NoInstance \/ @ = "unassigned" THEN "idle"
                ELSE IF @ = "assigned" THEN "start" ELSE "startUnresolved"]
  /\ UNCHANGED <<settings, assignment, active, scanning, cycle>>

\* Mutant: the entry is created, but nothing is received.
startReceiving_CreatesOnly(k, c) ==
  /\ scan[k] \in {"start", "startUnresolved"}
  /\ cycle[c] = NoCycle
  /\ scan' = [scan EXCEPT ![k] = "idle"]
  /\ table' = IF active THEN getOrCreateProcessQueue(scan[k] = "start") ELSE table
  /\ expired' = FALSE
  /\ UNCHANGED <<settings, assignment, active, scanning, cycle>>

\* The part after it: a queue that was not in the table gets a cycle.
startReceiving(k, c) ==
  /\ scan[k] \in {"start", "startUnresolved"}
  /\ cycle[c] = NoCycle
  /\ scan' = [scan EXCEPT ![k] = "idle"]
  /\ receiveMessage(c, scan[k] = "start")
  /\ UNCHANGED <<settings, assignment, active, scanning>>

\* No request was sent and no throttling noticed for two minutes, longer than
\* any request, timer or callback takes and than a scan needs between its parts.
expire ==
  /\ table # NoInstance
  /\ ~expired
  /\ \A c \in Cycles : cycle[c].instance # table
  /\ \A k \in Scans : scan[k] \notin {"start", "startUnresolved"}
  /\ expired' = TRUE
  /\ UNCHANGED <<settings, assignment, active, scanning, table, cycle, scan>>

\* PushConsumerImpl::shutdown cancels the scan, clears the table and stops the
\* consume service; the state changes when that has stopped.
shutdownScan ==
  /\ scanning
  /\ scanning' = FALSE
  /\ table' = NoInstance
  /\ expired' = FALSE
  /\ UNCHANGED <<settings, assignment, active, cycle, scan>>

shutdownBase ==
  /\ ~scanning
  /\ active
  /\ active' = FALSE
  /\ UNCHANGED <<settings, assignment, scanning, table, expired, cycle, scan>>

-----------------------------------------------------------------------------
onAnswer(c) ==
  onGone(c) \/ onSuccess(c) \/ onFailure(c) \/ \E ok \in BOOLEAN : onOffset(c, ok)

\* checkThrottleThenReceive, in a callback or a timer.
checkThrottleThenReceive(c) == checkThrottle(c) \/ receiveMessageImmediately(c)

CycleNext ==
  \/ rebalance
  \/ updateOffset
  \/ \E k \in Scans :
       \/ scanAssignments(k)
       \/ syncProcessQueue(k)
       \/ \E c \in Cycles : startReceiving(k, c)
  \/ expire
  \/ \E c \in Cycles :
       onAnswer(c) \/ receiveMessageLater(c) \/ checkThrottleThenReceive(c)
  \/ shutdownScan \/ shutdownBase

\* The scan timer keeps firing, threads and timers keep running, every request has
\* a deadline, time passes, and the broker does not refuse to tell the offset for
\* ever.  Throttling ends for a consumer that pops while its consume service runs
\* (BackPressureEnds of ConsumeStandard); one that pulls may be throttled for ever:
\* a BROADCASTING one never gets quota back, a FIFO one leaves its queue bound.
CycleFairness ==
  /\ WF_cycleVars(shutdownBase)
  /\ WF_cycleVars(expire)
  /\ \A k \in Scans :
       /\ WF_cycleVars(scanAssignments(k))
       /\ WF_cycleVars(syncProcessQueue(k))
       /\ WF_cycleVars(\E c \in Cycles : startReceiving(k, c))
  /\ \A c \in Cycles :
       /\ WF_cycleVars(onAnswer(c))
       /\ SF_cycleVars(onOffset(c, TRUE))
       /\ WF_cycleVars(receiveMessageLater(c) \/ checkThrottleThenReceive(c))
       /\ WF_cycleVars(policy = "POLLING" /\ scanning /\ receiveMessageImmediately(c))

CycleSpec == CycleInit /\ [][CycleNext]_cycleVars /\ CycleFairness

-----------------------------------------------------------------------------
\* A request for the entry of the table is on the wire to an address.
Receiving ==
  \E c \in Cycles : cycle[c].pc = "wire" /\ cycle[c].instance = table /\ table \notin Unresolved

\* A cycle of the entry waits for its quota.
Throttled(c) == cycle[c].pc = "throttled" /\ cycle[c].instance = table

\* A queue that stays assigned, with an address, to a running consumer is
\* received from again and again, whatever assignments came before, with errors,
\* throttling, expiry, objects without an address and answers that find their
\* process queue gone.  The exceptions are those of PULL: an offset in the store,
\* with which PushConsumerImpl::receiveMessage sends nothing, and a cycle
\* throttled for good.
KeepsReceiving ==
  <>[](assignment = "assigned" /\ active /\ scanning /\ ~readOffset) =>
    []<>Receiving \/ <>[](policy = "PULL" /\ \E c \in Cycles : Throttled(c))

\* Once active() is false no cycle begins, and no process queue comes back into
\* the table that shutdown cleared, although an answer to queryAssignment may be
\* between its two parts and requests on the wire (receiveMessage).
NothingStartsStopped ==
  [][~active => /\ ~active' /\ table' \in {table, NoInstance}
                /\ \A c \in Cycles : cycle[c] = NoCycle => cycle'[c] = NoCycle]_cycleVars

\* After shutdown every cycle ends, although shutdown cancels none of them and
\* clears the table before active() turns false.  The exception is a cycle that put
\* its process queue back in between and is throttled: nothing consumes what fills
\* the quota any more, and checkThrottleThenReceive does not look at active().
ShutdownEndsCycles ==
  /\ ~scanning ~> [](\A c \in Cycles : cycle[c] = NoCycle \/ Throttled(c))
  /\ NothingStartsStopped

\* No request is on the wire and no timer pending for a process queue that counts
\* as idle: the scan that removes it makes no answer find its object gone.  A
\* cycle that waits for an offset has not sent its request yet.
IdleHasNoRequest ==
  expired =>
    /\ table # NoInstance
    /\ \A c \in Cycles : cycle[c].instance = table => policy = "PULL" /\ cycle[c].pc = "query"

=============================================================================
