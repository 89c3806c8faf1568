----------------------------- MODULE ConsumeFifo -----------------------------
(***************************************************************************)
(* ConsumeFifoMessageService on one process queue.  The service keeps one  *)
(* message at a time between the cache and its acknowledgement: the flag   *)
(* has_fifo_task_bound_ of the queue is set when a message is taken and    *)
(* cleared by the callback of the ack or of the dead-letter request.       *)
(*                                                                         *)
(* Unlike the standard service, tasks, timers and requests hold only weak  *)
(* pointers to the process queue: when the assignment scan removes it, each *)
(* of them finds it gone and ends.                                         *)
(*                                                                         *)
(* Start and shutdown are those of ConsumeMessageService, modelled in      *)
(* ConsumeStandard; here the service is running.  The build is one without *)
(* assertions: with them the first ack ends the process.                   *)
(***************************************************************************)
EXTENDS ProcessQueue

CONSTANTS
  ReceiveBatchSize,     \* most messages one receive request returns
  MaxDeliveryAttempts,  \* consumer->maxDeliveryAttempts()
  DeliveryAttempt,      \* getDeliveryAttempt() of each message on arrival
  Corrupted             \* messages that wrapMessage finds damaged

ASSUME FifoAssumption ==
  /\ ReceiveBatchSize \in Nat \ {0}
  /\ MaxDeliveryAttempts \in Nat \ {0}
  /\ DeliveryAttempt \in [Messages -> Nat]
  /\ Corrupted \subseteq Messages

VARIABLES
  inTable,     \* the queue is in process_queue_table_ of the consumer
  delivered,   \* messages received so far
  polling,     \* a receive request is on the wire
  bound,       \* has_fifo_task_bound_
  dispatcher,  \* "loop", or "take" between binding and taking
  stage,       \* where each message is once it has left the cache
  attempts,    \* deliveryAttempt of each message, as the service counts it
  stored       \* the offset in the offset store; -1 when there is none

vars == <<queueVars, inTable, delivered, polling, bound, dispatcher, stage, attempts, stored>>

\* In the pool, on its way through consumeTask, or waiting for a timer or for
\* the answer to an ack or a dead-letter request.
Running == {"queued", "listen", "release", "released", "commit",
            "retryTimer", "acking", "ackTimer", "forwarding", "forwardTimer"}

\* The service has nothing more to do for the message.
Finished == {"acked", "dead", "committed"}

\* The process queue went away before it was, with the message still charged to
\* it or already released.
Abandoned == {"abandoned", "unconfirmed"}

Stages == {"none", "dropped"} \cup Abandoned \cup Running \cup Finished

At(stages) == {m \in Messages : stage[m] \in stages}

TypeOK ==
  /\ QueueTypeOK
  /\ inTable \in BOOLEAN
  /\ delivered \in SUBSET Messages
  /\ polling \in BOOLEAN
  /\ bound \in BOOLEAN
  /\ dispatcher \in {"loop", "take"}
  /\ stage \in [Messages -> Stages]
  /\ attempts \in [Messages -> Nat]
  /\ stored \in Nat \cup {-1}

Init ==
  /\ QueueInit
  /\ inTable = TRUE
  /\ delivered = {}
  /\ polling = FALSE
  /\ bound = FALSE
  /\ dispatcher = "loop"
  /\ stage = [m \in Messages |-> "none"]
  /\ attempts = DeliveryAttempt
  /\ stored = -1

\* The table and a thread inside consumeTask hold shared pointers.
Alive == inTable \/ At({"listen", "release", "released", "commit"}) # {}

Move(m, from, to) == stage[m] = from /\ stage' = [stage EXCEPT ![m] = to]

-----------------------------------------------------------------------------
(* The receive cycle, as in ConsumeStandard *)

checkThrottleThenReceive ==
  /\ inTable
  /\ ~polling
  /\ Unlocked
  /\ ~shouldThrottle
  /\ polling' = TRUE
  /\ UNCHANGED <<queueVars, inTable, delivered, bound, dispatcher, stage, attempts, stored>>

\* A FIFO consumer pulls: one damaged message discards the whole answer.
processPullResult(items) == IF items \cap Corrupted = {} THEN items ELSE {}

onSuccess(items) ==
  LET msgs == processPullResult(items)
  IN  /\ polling
      /\ Alive
      /\ Cardinality(items) <= ReceiveBatchSize
      /\ \A m \in items, k \in delivered : m > k
      /\ polling' = FALSE
      /\ LockForCaching(msgs)
      /\ delivered' = delivered \cup msgs
      /\ UNCHANGED <<inTable, bound, dispatcher, stage, attempts, stored>>

dropAnswer ==
  /\ polling
  /\ ~Alive
  /\ polling' = FALSE
  /\ UNCHANGED <<queueVars, inTable, delivered, bound, dispatcher, stage, attempts, stored>>

\* The dispatcher holds the same mutex while it binds and takes.
removeQueue ==
  /\ inTable
  /\ dispatcher = "loop"
  /\ inTable' = FALSE
  /\ UNCHANGED <<queueVars, delivered, polling, bound, dispatcher, stage, attempts, stored>>

\* A message the filter rejects is acknowledged at once, with a callback that
\* does nothing, so that it makes no difference that this ack fails too.
Cache(m) ==
  /\ cacheMessage(m)
  /\ UNCHANGED <<inTable, delivered, polling, bound, dispatcher, stage, attempts, stored>>

-----------------------------------------------------------------------------
(* The dispatcher thread: submitConsumeTask *)

bindFifoConsumeTask ==
  /\ dispatcher = "loop"
  /\ Unlocked
  /\ inTable
  /\ hasPendingMessages
  /\ ~bound
  /\ bound' = TRUE
  /\ dispatcher' = "take"
  /\ UNCHANGED <<queueVars, inTable, delivered, polling, stage, attempts, stored>>

\* The task is submitted only if take() returns true, that is when the cache
\* still holds another message.
submitConsumeTask ==
  LET msgs == Taken(1)
      to == IF HasMore(msgs) THEN "queued" ELSE "dropped"
  IN  /\ dispatcher = "take"
      /\ take(msgs)
      /\ stage' = [m \in Messages |-> IF m \in msgs THEN to ELSE stage[m]]
      /\ dispatcher' = "loop"
      /\ UNCHANGED <<inTable, delivered, polling, bound, attempts, stored>>

-----------------------------------------------------------------------------
(* A pool thread: consumeTask *)

runTask(m) ==
  /\ Alive
  /\ Move(m, "queued", "listen")
  /\ UNCHANGED <<queueVars, inTable, delivered, polling, bound, dispatcher, attempts, stored>>

consumeSuccess(m) ==
  /\ Move(m, "listen", "release")
  /\ UNCHANGED <<queueVars, inTable, delivered, polling, bound, dispatcher, attempts, stored>>

\* PushConsumerImpl::forwardToDeadLetterQueue sends the request.
forwardToDeadLetterQueue(m) == Move(m, "listen", "forwarding")

\* Mutant: the queue is unbound while the message waits for its next attempt.
consumeFailure_Unbinds(m) ==
  /\ messageModel = "CLUSTERING"
  /\ attempts' = [attempts EXCEPT ![m] = @ + 1]
  /\ IF attempts'[m] < MaxDeliveryAttempts THEN Move(m, "listen", "retryTimer")
                                           ELSE forwardToDeadLetterQueue(m)
  /\ bound' = FALSE
  /\ UNCHANGED <<queueVars, inTable, delivered, polling, dispatcher, stored>>

\* In BROADCASTING mode the result of the listener makes no difference.
consumeFailure(m) ==
  /\ messageModel = "CLUSTERING"
  /\ attempts' = [attempts EXCEPT ![m] = @ + 1]
  /\ IF attempts'[m] < MaxDeliveryAttempts THEN Move(m, "listen", "retryTimer")
                                           ELSE forwardToDeadLetterQueue(m)
  /\ UNCHANGED <<queueVars, inTable, delivered, polling, bound, dispatcher, stored>>

releaseMessageQuota(m) ==
  /\ Move(m, "release", "released")
  /\ releaseQuota(m)
  /\ UNCHANGED <<inTable, delivered, polling, bound, dispatcher, attempts, stored>>

\* The host a request about a message goes to.  processPopResult sets it, and a
\* FIFO consumer does not pop: processPullResult and wrapMessage leave it empty.
targetEndpoint(m) == ""

\* PushConsumerImpl::ack sends the request.
ack(m, from) == Move(m, from, "acking")

releaseMessageOffset(m) ==
  /\ IF messageModel = "CLUSTERING" THEN ack(m, "released") ELSE Move(m, "released", "commit")
  /\ releaseOffset(m)
  /\ UNCHANGED <<inTable, delivered, polling, bound, dispatcher, attempts, stored>>

\* The BROADCASTING branch ends here; it leaves the queue bound.
commitOffset(m) ==
  /\ Move(m, "commit", "committed")
  /\ Unlocked
  /\ stored' = IF hasCommittedOffset THEN committedOffset ELSE stored
  /\ UNCHANGED <<queueVars, inTable, delivered, polling, bound, dispatcher, attempts>>

-----------------------------------------------------------------------------
(* RPC callbacks and timers *)

\* A request without a host to go to fails, whatever a broker would answer.
Reached(m, ok) == ok /\ targetEndpoint(m) # ""

\* Mutant: a failed ack is not tried again.
onAck_GivesUp(m, ok) ==
  /\ Alive
  /\ Move(m, "acking", IF Reached(m, ok) THEN "acked" ELSE "unconfirmed")
  /\ bound' = FALSE
  /\ UNCHANGED <<queueVars, inTable, delivered, polling, dispatcher, attempts, stored>>

\* signalDispatcher only shortens the wait of the dispatcher.
onAck(m, ok) ==
  /\ Alive
  /\ Move(m, "acking", IF Reached(m, ok) THEN "acked" ELSE "ackTimer")
  /\ bound' = IF Reached(m, ok) THEN FALSE ELSE bound
  /\ UNCHANGED <<queueVars, inTable, delivered, polling, dispatcher, attempts, stored>>

\* Mutant: the ack is tried again together with the release before it.
scheduleAckTask_ReleasesAgain(m) ==
  /\ Alive
  /\ Move(m, "ackTimer", "release")
  /\ UNCHANGED <<queueVars, inTable, delivered, polling, bound, dispatcher, attempts, stored>>

scheduleAckTask(m) ==
  /\ Alive
  /\ ack(m, "ackTimer")
  /\ UNCHANGED <<queueVars, inTable, delivered, polling, bound, dispatcher, attempts, stored>>

scheduleConsumeTask(m) ==
  /\ Alive
  /\ Move(m, "retryTimer", "queued")
  /\ UNCHANGED <<queueVars, inTable, delivered, polling, bound, dispatcher, attempts, stored>>

\* What the callback of the request is given: it takes a bool, and gets the
\* invocation context, a pointer that is never null.  (The request has no host
\* either, and fails.)
forwardMessageToDeadLetterQueue(ok) == TRUE

\* Mutant: the queue stays bound.
onForwardToDeadLetterQueue_Bound(m, ok) ==
  /\ Move(m, "forwarding", "dead")
  /\ UNCHANGED <<queueVars, inTable, delivered, polling, bound, dispatcher, attempts, stored>>

\* The timer of the other branch, scheduleForwardDeadLetterQueueTask, is never
\* reached.  No branch gives the quota of the message back.
onForwardToDeadLetterQueue(m, ok) ==
  LET given == forwardMessageToDeadLetterQueue(ok)
  IN  /\ Move(m, "forwarding", IF given THEN "dead" ELSE "forwardTimer")
      /\ bound' = IF given /\ Alive THEN FALSE ELSE bound
      /\ UNCHANGED <<queueVars, inTable, delivered, polling, dispatcher, attempts, stored>>

\* A task, a timer or the answer to an ack finds the process queue gone.
abandon(m) ==
  /\ ~Alive
  /\ stage[m] \in {"queued", "retryTimer", "ackTimer", "acking"}
  /\ stage' = [stage EXCEPT ![m] = IF @ \in {"queued", "retryTimer"} THEN "abandoned"
                                                                  ELSE "unconfirmed"]
  /\ UNCHANGED <<queueVars, inTable, delivered, polling, bound, dispatcher, attempts, stored>>

-----------------------------------------------------------------------------
consumeTask(m) ==
  \/ runTask(m)
  \/ consumeSuccess(m) \/ consumeFailure(m)
  \/ releaseMessageQuota(m) \/ releaseMessageOffset(m) \/ commitOffset(m)

dispatch == bindFifoConsumeTask \/ submitConsumeTask

Next ==
  \/ checkThrottleThenReceive
  \/ \E items \in SUBSET Messages : onSuccess(items)
  \/ dropAnswer
  \/ removeQueue
  \/ dispatch
  \/ \E m \in Messages :
       \/ Cache(m)
       \/ consumeTask(m)
       \/ \E ok \in BOOLEAN : onAck(m, ok) \/ onForwardToDeadLetterQueue(m, ok)
       \/ scheduleAckTask(m) \/ scheduleConsumeTask(m)
       \/ abandon(m)

\* Threads and timers keep running, listeners return, every request is answered
\* or fails.
Fairness ==
  /\ WF_vars(dispatch)
  /\ \A m \in Messages :
       /\ WF_vars(Cache(m))
       /\ WF_vars(consumeTask(m))
       /\ WF_vars(\E ok \in BOOLEAN : onAck(m, ok))
       /\ WF_vars(scheduleAckTask(m)) /\ WF_vars(scheduleConsumeTask(m))
       /\ WF_vars(\E ok \in BOOLEAN : onForwardToDeadLetterQueue(m, ok))
       /\ WF_vars(abandon(m))

Spec == Init /\ [][Next]_vars /\ Fairness

-----------------------------------------------------------------------------
\* Messages that hold their quota outside the cache.
Charged == At({"dropped", "abandoned", "queued", "listen", "release", "retryTimer", "forwarding"})

Protocol == INSTANCE QueueProtocol WITH
  taken <- Charged \cup At({"dead"}), releasing <- At({"released"})

\* The FIFO service uses the process queue as QueueProtocol prescribes: it never
\* releases a message twice, over however many listener calls and ack requests.
UsesQueueCorrectly == Protocol!Spec

\* "Ensure current message is acked before moving to the next message"
\* (ConsumeFifoMessageService.cpp): no retry, repeated ack or late answer lets the
\* dispatcher start a second task while one is on its way, and when the listener
\* has been given a message every accepted message before it is acked or was
\* given up.
InOrder ==
  /\ Cardinality(At(Running)) <= 1
  /\ At(Running) # {} => bound /\ dispatcher = "loop"
  /\ \A m \in At(Running \cup Finished), k \in delivered \cap Accepted :
       k < m => stage[k] \in Finished

\* The offset store never gets an offset past a message that is received and not
\* released yet: the commit of a task may come long after its release, when the
\* next messages are already cached.
StoredOffsetSafe ==
  \A m \in batch \cup cached \cup Charged \cup At({"released"}) : stored <= m

\* A submitted message comes to its end, however often the listener fails: its ack
\* is sent, and sent again, or it is given up as a dead letter; only the removal of
\* the queue makes the service forget it.  And after a dead letter the service
\* moves to the next message, as long as another one is cached behind it: no
\* unbinding is missed.  (An ack has no host to go to and never succeeds, against
\* assert(!target_host.empty()) of PushConsumerImpl::ack, so that the queue stays
\* bound behind it; in BROADCASTING mode commitOffset leaves it bound.)
EverySettled ==
  \A m \in Messages :
    /\ stage[m] \in Running
         ~> (stage[m] \in Finished \cup {"acking"} \/ (stage[m] \in Abandoned /\ ~inTable))
    /\ [](stage[m] \in Abandoned => ~inTable)
    /\ (messageModel = "CLUSTERING" /\ IsFirst(m, cached) /\ cached # {m} /\ At({"dropped"}) = {})
         ~> (stage[m] # "none" \/ ~inTable \/ At({"acking"}) # {})

\* "Dispatcher thread, after waking up, will submit them into thread-pool"
\* (ProcessQueueImpl.h): a message taken from the cache is submitted.
TakenIsSubmitted == At({"dropped"}) = {}

=============================================================================
