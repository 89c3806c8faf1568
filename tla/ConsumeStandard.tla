--------------------------- MODULE ConsumeStandard ---------------------------
(***************************************************************************)
(* ConsumeStandardMessageService (with its base ConsumeMessageService and  *)
(* its ThreadPoolImpl) on one process queue: the dispatcher thread moves   *)
(* batches from the queue's cache to the pool, pool threads run the        *)
(* listener and settle each message, the receive cycle refills the cache   *)
(* while the queue is below its thresholds, the assignment scan may remove *)
(* the queue from the consumer's table, and the application starts the     *)
(* service and may shut it down at any moment.                             *)
(***************************************************************************)
EXTENDS ProcessQueue, Sequences, SequencesExt, FiniteSetsExt

CONSTANTS
  Workers,           \* threads of the pool
  ConsumeBatchSize,  \* consumer->consumeBatchSize()
  ReceiveBatchSize,  \* most messages one receive request returns
  Corrupted          \* messages that wrapMessage finds damaged

ASSUME ServiceAssumption ==
  /\ Workers # {}
  /\ ConsumeBatchSize \in Nat \ {0}
  /\ ReceiveBatchSize \in Nat \ {0}
  /\ Corrupted \subseteq Messages

VARIABLES
  inTable,     \* the queue is in process_queue_table_ of the consumer
  delivered,   \* messages received so far
  polling,     \* a receive request is on the wire
  state,       \* state_ of the service
  poolState,   \* state_ of the pool
  dispatcher,  \* where the dispatcher thread is
  stopper,     \* where the thread that called shutdown() is
  tasks,       \* consume tasks queued in the pool
  worker,      \* what each pool thread does
  acked,       \* messages for which an ack was sent
  nacked,      \* messages for which a nack was sent
  committed,   \* messages whose task ended in the BROADCASTING branch
  stored       \* the offset in the offset store; -1 when there is none

serviceVars == <<state, poolState, dispatcher, stopper>>
ackVars == <<acked, nacked, committed, stored>>
vars == <<queueVars, inTable, delivered, polling, serviceVars, tasks, worker, ackVars>>

Idle == [pc |-> "idle", msgs |-> {}, ok |-> FALSE]

TypeOK ==
  /\ QueueTypeOK
  /\ inTable \in BOOLEAN
  /\ delivered \in SUBSET Messages
  /\ polling \in BOOLEAN
  /\ state \in {"CREATED", "STARTING", "STARTED", "STOPPING", "STOPPED"}
  /\ poolState \in {"CREATED", "STARTED", "STOPPING", "STOPPED"}
  /\ dispatcher \in {"none", "check", "iterate", "take", "wait", "exited"}
  /\ stopper \in {"none", "base", "pool", "join", "done"}
  /\ tasks \in Seq(SUBSET Messages)
  /\ worker \in [Workers -> [pc : {"idle", "listen", "release", "ack", "commit"},
                             msgs : SUBSET Messages, ok : BOOLEAN]]
  /\ acked \in SUBSET Messages
  /\ nacked \in SUBSET Messages
  /\ committed \in SUBSET Messages
  /\ stored \in Nat \cup {-1}

Init ==
  /\ QueueInit
  /\ inTable = TRUE
  /\ delivered = {}
  /\ polling = FALSE
  /\ state = "CREATED"
  /\ poolState = "CREATED"
  /\ dispatcher = "none"
  /\ stopper = "none"
  /\ tasks = <<>>
  /\ worker = [w \in Workers |-> Idle]
  /\ acked = {}
  /\ nacked = {}
  /\ committed = {}
  /\ stored = -1

-----------------------------------------------------------------------------
(* Lifecycle *)

\* ConsumeMessageService::start; nothing observes the state between its steps
\* but shutdown(), which waits while it is STARTING.
startBase ==
  /\ state = "CREATED"
  /\ state' = "STARTING"
  /\ poolState' = "STARTED"
  /\ dispatcher' = "check"
  /\ UNCHANGED <<queueVars, inTable, delivered, polling, stopper, tasks, worker, ackVars>>

startDone ==
  /\ state = "STARTING"
  /\ state' = "STARTED"
  /\ UNCHANGED <<queueVars, inTable, delivered, polling, poolState, dispatcher, stopper,
                 tasks, worker, ackVars>>

\* The spin on STARTING is the guard; on a service never started the call
\* returns without effect and is not modelled.
shutdown ==
  /\ stopper = "none"
  /\ state = "STARTED"
  /\ state' = "STOPPING"
  /\ stopper' = "base"
  /\ UNCHANGED <<queueVars, inTable, delivered, polling, poolState, dispatcher, tasks,
                 worker, ackVars>>

\* ConsumeMessageService::shutdown, then ThreadPoolImpl::shutdown: the queued
\* tasks are abandoned, the running ones are waited for.
shutdownBase ==
  /\ stopper = "base"
  /\ state' = "STOPPED"
  /\ poolState' = "STOPPING"
  /\ stopper' = "pool"
  /\ UNCHANGED <<queueVars, inTable, delivered, polling, dispatcher, tasks, worker, ackVars>>

joinPool ==
  /\ stopper = "pool"
  /\ \A w \in Workers : worker[w] = Idle
  /\ poolState' = "STOPPED"
  /\ stopper' = "join"
  /\ UNCHANGED <<queueVars, inTable, delivered, polling, state, dispatcher, tasks, worker,
                 ackVars>>

joinDispatcher ==
  /\ stopper = "join"
  /\ dispatcher = "exited"
  /\ stopper' = "done"
  /\ UNCHANGED <<queueVars, inTable, delivered, polling, state, poolState, dispatcher, tasks,
                 worker, ackVars>>

-----------------------------------------------------------------------------
(* The receive cycle of the queue: AsyncReceiveMessageCallback *)

\* Called when cacheMessages has returned, or again by the one-second timer.  If
\* the queue is no longer in the table the request is one of another object.
checkThrottleThenReceive ==
  /\ state # "CREATED"
  /\ inTable
  /\ ~polling
  /\ Unlocked
  /\ ~shouldThrottle
  /\ polling' = TRUE
  /\ UNCHANGED <<queueVars, inTable, delivered, serviceVars, tasks, worker, ackVars>>

\* The table, the tasks in the pool and their threads hold shared pointers.
Alive == inTable \/ tasks # <<>> \/ \E w \in Workers : worker[w] # Idle

\* A damaged message is left out; the broker delivers it again some day.
processPopResult(items) == items \ Corrupted

\* A damaged message discards the whole answer.
processPullResult(items) == IF items \cap Corrupted = {} THEN items ELSE {}

\* A standard consumer polls in CLUSTERING mode and pulls in BROADCASTING mode.
ReceivedFrom(items) ==
  IF messageModel = "CLUSTERING" THEN processPopResult(items) ELSE processPullResult(items)

\* An error or a deadline is an answer without messages.
onSuccess(items) ==
  LET msgs == ReceivedFrom(items)
  IN  /\ polling
      /\ Alive
      /\ Cardinality(items) <= ReceiveBatchSize
      /\ \A m \in items, k \in delivered : m > k
      /\ polling' = FALSE
      /\ LockForCaching(msgs)
      /\ delivered' = delivered \cup msgs
      /\ UNCHANGED <<inTable, serviceVars, tasks, worker, ackVars>>

\* The callback finds the process queue gone.
dropAnswer ==
  /\ polling
  /\ ~Alive
  /\ polling' = FALSE
  /\ UNCHANGED <<queueVars, inTable, delivered, serviceVars, tasks, worker, ackVars>>

\* The queue was assigned to another client or is idle for too long, or the
\* consumer is shut down.  The dispatcher holds the same mutex while it takes
\* messages.  A receive cycle that races the shutdown may put the queue back, so
\* that the service may also stop with the queue in the table.
removeQueue ==
  /\ inTable
  /\ dispatcher # "take"
  /\ inTable' = FALSE
  /\ UNCHANGED <<queueVars, delivered, polling, serviceVars, tasks, worker, ackVars>>

\* A message the filter rejects is acknowledged at once.
Cache(m) ==
  /\ cacheMessage(m)
  /\ acked' = IF m \in Accepted THEN acked ELSE acked \cup {m}
  /\ UNCHANGED <<inTable, delivered, polling, serviceVars, tasks, worker, nacked, committed, stored>>

-----------------------------------------------------------------------------
(* The dispatcher thread *)

\* Mutant: the loop ends only if it meets the state STOPPING.
dispatchLoop_MissesStopped ==
  /\ dispatcher = "check"
  /\ dispatcher' = IF state = "STOPPING" THEN "exited" ELSE "iterate"
  /\ UNCHANGED <<queueVars, inTable, delivered, polling, state, poolState, stopper, tasks,
                 worker, ackVars>>

dispatchLoop ==
  /\ dispatcher = "check"
  /\ dispatcher' = IF state \in {"STOPPED", "STOPPING"} THEN "exited" ELSE "iterate"
  /\ UNCHANGED <<queueVars, inTable, delivered, polling, state, poolState, stopper, tasks,
                 worker, ackVars>>

\* WaitWithTimeout returns on signalDispatcher, on shutdown or after 100ms.
dispatchWake ==
  /\ dispatcher = "wait"
  /\ dispatcher' = "check"
  /\ UNCHANGED <<queueVars, inTable, delivered, polling, state, poolState, stopper, tasks,
                 worker, ackVars>>

\* Mutant: the dispatcher thread ends when there is nothing to do.
iterateProcessQueue_Ends ==
  /\ dispatcher = "iterate"
  /\ Unlocked
  /\ dispatcher' = IF inTable /\ hasPendingMessages THEN "take" ELSE "exited"
  /\ UNCHANGED <<queueVars, inTable, delivered, polling, state, poolState, stopper, tasks,
                 worker, ackVars>>

iterateProcessQueue ==
  /\ dispatcher = "iterate"
  /\ Unlocked
  /\ dispatcher' = IF inTable /\ hasPendingMessages THEN "take" ELSE "wait"
  /\ UNCHANGED <<queueVars, inTable, delivered, polling, state, poolState, stopper, tasks,
                 worker, ackVars>>

\* ThreadPoolImpl::submit drops the task when the pool is not STARTED.
submit(task) ==
  tasks' = IF poolState = "STARTED" THEN Append(tasks, task) ELSE tasks

\* One turn of the loop in submitConsumeTask.
submitConsumeTask ==
  LET msgs == Taken(ConsumeBatchSize)
  IN  /\ dispatcher = "take"
      /\ take(msgs)
      /\ IF msgs = {} THEN UNCHANGED tasks ELSE submit(msgs)
      /\ dispatcher' = IF HasMore(msgs) THEN "take" ELSE "wait"
      /\ UNCHANGED <<inTable, delivered, polling, state, poolState, stopper, worker, ackVars>>

-----------------------------------------------------------------------------
(* The pool threads: consumeTask *)

runTask(w) ==
  /\ poolState = "STARTED"
  /\ worker[w].pc = "idle"
  /\ tasks # <<>>
  /\ worker' = [worker EXCEPT ![w] = [pc |-> "listen", msgs |-> Head(tasks), ok |-> FALSE]]
  /\ tasks' = Tail(tasks)
  /\ UNCHANGED <<queueVars, inTable, delivered, polling, serviceVars, ackVars>>

\* The listener returns, or throws, which counts as FAILURE.
consumeMessage(w, ok) ==
  /\ worker[w].pc = "listen"
  /\ worker' = [worker EXCEPT ![w].ok = ok,
                  ![w].pc = IF messageModel = "CLUSTERING" THEN "release" ELSE "commit"]
  /\ UNCHANGED <<queueVars, inTable, delivered, polling, serviceVars, tasks, ackVars>>

\* Mutant: the quota of a message is released only on SUCCESS.
releaseMessage_OnSuccess(w) ==
  /\ worker[w].pc = "release"
  /\ IF worker[w].ok THEN releaseQuota(Min(worker[w].msgs)) ELSE UNCHANGED queueVars
  /\ worker' = [worker EXCEPT ![w].pc = "ack"]
  /\ UNCHANGED <<inTable, delivered, polling, serviceVars, tasks, ackVars>>

\* The loop over the batch: release the quota, then send ack or nack.
releaseMessage(w) ==
  /\ worker[w].pc = "release"
  /\ releaseQuota(Min(worker[w].msgs))
  /\ worker' = [worker EXCEPT ![w].pc = "ack"]
  /\ UNCHANGED <<inTable, delivered, polling, serviceVars, tasks, ackVars>>

\* One request each; its answer is only logged.
ack(m) == acked' = acked \cup {m} /\ UNCHANGED nacked

nack(m) == nacked' = nacked \cup {m} /\ UNCHANGED acked

settleMessage(w) ==
  LET m == Min(worker[w].msgs)
      rest == worker[w].msgs \ {m}
  IN  /\ worker[w].pc = "ack"
      /\ IF worker[w].ok THEN ack(m) ELSE nack(m)
      /\ worker' = [worker EXCEPT ![w] = IF rest = {} THEN Idle
                      ELSE [pc |-> "release", msgs |-> rest, ok |-> worker[w].ok]]
      /\ UNCHANGED <<queueVars, inTable, delivered, polling, serviceVars, tasks, committed,
                     stored>>

\* The BROADCASTING branch stores the committed offset and releases nothing.
commitOffset(w) ==
  /\ worker[w].pc = "commit"
  /\ Unlocked
  /\ stored' = IF hasCommittedOffset THEN committedOffset ELSE stored
  /\ committed' = committed \cup worker[w].msgs
  /\ worker' = [worker EXCEPT ![w] = Idle]
  /\ UNCHANGED <<queueVars, inTable, delivered, polling, serviceVars, tasks, acked, nacked>>

-----------------------------------------------------------------------------
consumeTask(w) ==
  \/ runTask(w)
  \/ \E ok \in BOOLEAN : consumeMessage(w, ok)
  \/ releaseMessage(w)
  \/ settleMessage(w)
  \/ commitOffset(w)

dispatch == dispatchLoop \/ dispatchWake \/ iterateProcessQueue \/ submitConsumeTask

Next ==
  \/ startBase \/ startDone
  \/ shutdown \/ shutdownBase \/ joinPool \/ joinDispatcher
  \/ checkThrottleThenReceive
  \/ \E items \in SUBSET Messages : onSuccess(items)
  \/ dropAnswer
  \/ removeQueue
  \/ \E m \in Messages : Cache(m)
  \/ dispatch
  \/ \E w \in Workers : consumeTask(w)

\* Every thread keeps running and the listener returns; nothing forces the
\* broker to answer or the application to call shutdown.
Fairness ==
  /\ WF_vars(startDone)
  /\ WF_vars(shutdownBase) /\ WF_vars(joinPool) /\ WF_vars(joinDispatcher)
  /\ WF_vars(\E m \in Messages : Cache(m))
  /\ WF_vars(dispatch)
  /\ \A w \in Workers : WF_vars(consumeTask(w))

Spec == Init /\ [][Next]_vars /\ Fairness

-----------------------------------------------------------------------------
Stopping == state \in {"STOPPING", "STOPPED"}

\* Messages of a pool thread whose quota is not released yet.
Held(w) == IF worker[w].pc = "ack" THEN worker[w].msgs \ {Min(worker[w].msgs)}
                                   ELSE worker[w].msgs

InTasks == (UNION Range(tasks)) \cup (UNION {Held(w) : w \in Workers})

Releasing == {Min(worker[w].msgs) : w \in {v \in Workers : worker[v].pc = "ack"}}

\* Messages the service has nothing more to do for.
Settled == acked \cup nacked \cup committed

\* Accepted messages that are nowhere: the pool refused their task.
Lost == (delivered \cap Accepted)
          \ (batch \cup cached \cup InTasks \cup Releasing \cup Settled)

Protocol == INSTANCE QueueProtocol WITH
  taken <- InTasks \cup Lost \cup committed,
  releasing <- Releasing

\* The service uses the process queue as QueueProtocol prescribes: it releases
\* every message it took, once, and none that it did not take, so that what is
\* proved of QueueProtocol holds of the queue inside the service.
UsesQueueCorrectly == Protocol!Spec

\* Every message that reaches the cache is settled, unless the queue is removed
\* or the service is shut down first: no wake-up of the dispatcher is lost.  A
\* message that was submitted is, even after the queue was removed.
EverySettled ==
  \A m \in Accepted \ Corrupted :
    /\ m \in cached ~> (m \in Settled \/ ~inTable \/ Stopping)
    /\ m \in InTasks ~> (m \in Settled \/ Stopping)

\* A throttled queue does not stay throttled while the service runs: consumeTask
\* gives back the quota of each message, whatever the listener returned.  (In
\* BROADCASTING mode it gives nothing back, against "Once messages are processed
\* by user-passed-in callback, their quota will be released" of ProcessQueueImpl.h.)
BackPressureEnds ==
  (shouldThrottle /\ messageModel = "CLUSTERING") ~>
    (~shouldThrottle \/ ~inTable \/ Stopping)

\* After shutdown() has returned no thread of the service does anything.
QuietAfterShutdown ==
  [][stopper = "done" => UNCHANGED <<dispatcher, tasks, worker, nacked, committed, stored>>]_vars

\* shutdown() returns although tasks are running and the dispatcher may be
\* waiting or in the middle of its loop, and after that the service is quiet.
ShutdownReturns ==
  /\ stopper = "base" ~> stopper = "done"
  /\ QuietAfterShutdown

\* The offset store never gets an offset past a message the listener has not
\* been given yet or has not returned from.
StoredOffsetSafe ==
  \A m \in batch \cup cached \cup InTasks : stored <= m

=============================================================================
