----------------------------- MODULE FifoProofs ------------------------------
(***************************************************************************)
(* Proofs about ConsumeFifo, for every set of messages, every filter and   *)
(* every limit on deliveries: the service handles one message at a time in *)
(* the order of the queue, and it uses the process queue as QueueProtocol  *)
(* prescribes, so that what QueueProofs shows holds inside the service.    *)
(***************************************************************************)
EXTENDS ConsumeFifo, DataProofs

\* The first record of offsets_ has the smallest offset.
LEMMA FirstIsLeast ==
  ASSUME NEW recs \in SUBSET OffsetRecord, recs # {}
  PROVE  First(recs) \in recs /\ \A s \in recs : First(recs).offset <= s.offset
<1>1. \E r \in recs : \A s \in recs : r.offset <= s.offset
  BY LeastRecord DEF OffsetRecord
<1> QED BY <1>1 DEF First

\* take with a batch size of one moves the first message of a cache that is not
\* empty, and nothing else.
LEMMA TakenIsFirst ==
  ASSUME cached \in SUBSET Nat, cached # {}
  PROVE  \E m \in cached : Taken(1) = {m} /\ IsFirst(m, cached)
BY FirstMember DEF Taken, IsFirst

-----------------------------------------------------------------------------
(* The inductive invariant *)

\* The variables the argument is about hold values of their types.
FifoType ==
  /\ cached \in SUBSET Messages
  /\ batch \in SUBSET Messages
  /\ delivered \in SUBSET Messages
  /\ stage \in [Messages -> Stages]
  /\ inTable \in BOOLEAN
  /\ bound \in BOOLEAN
  /\ dispatcher \in {"loop", "take"}

\* What went through cacheMessages and passed the filter.
Stored == (delivered \ batch) \cap Accepted

\* A stored message is in the cache or has left it, never both, and the cache
\* comes after all that left it, the batch after all that is stored.
PlaceInv ==
  /\ batch \subseteq delivered
  /\ \A m \in batch, k \in delivered \ batch : k < m
  /\ cached \subseteq Stored
  /\ \A m \in Messages : stage[m] # "none" => m \in Stored /\ m \notin cached
  /\ \A m \in Stored : m \in cached \/ stage[m] # "none"
  /\ \A m \in cached, k \in Messages : stage[k] # "none" => k < m

\* One task at most holds the queue, and has it bound; a message whose task was
\* never submitted keeps it bound; a task is abandoned only without the queue.
TaskInv ==
  /\ \A m, k \in At(Running) : m = k
  /\ At(Running) # {} => bound /\ dispatcher = "loop"
  /\ At({"dropped"}) # {} => bound /\ dispatcher = "loop" /\ At(Running) = {}
  /\ At(Abandoned) # {} => ~inTable
  /\ dispatcher = "take" => inTable /\ bound /\ cached # {}

\* The third part of InOrder.
OrderInv ==
  \A m \in At(Running \cup Finished), k \in delivered \cap Accepted :
    k < m => stage[k] \in Finished

FifoInv == FifoType /\ PlaceInv /\ TaskInv /\ OrderInv

\* What most steps leave alone.
Resting == UNCHANGED <<cached, batch, delivered, inTable, dispatcher>>

\* A step that takes the message at hand from one stage to another keeps the
\* invariant, if it unbinds the queue only to finish the message and abandons it
\* only when the queue is gone.
LEMMA MoveStep ==
  ASSUME FifoInv, NEW m \in Messages, stage[m] \in Running,
         NEW to \in Running \cup Finished \cup Abandoned,
         stage' = [stage EXCEPT ![m] = to],
         Resting,
         bound' \in BOOLEAN,
         to \notin Finished => bound' = bound,
         to \in Abandoned => ~inTable
  PROVE  FifoInv'
<1> USE DEF FifoInv, FifoType
<1>0. to \in Stages /\ to # "none" /\ to # "dropped" /\ stage[m] # "none" /\ stage[m] # "dropped"
  BY DEF Stages, Running, Finished, Abandoned
<1>1. UNCHANGED <<cached, batch, delivered, inTable, dispatcher>>
  BY DEF Resting
<1>2. stage' \in [Messages -> Stages] /\ stage'[m] = to
      /\ \A k \in Messages : k # m => stage'[k] = stage[k]
  BY <1>0
<1>3. FifoType'
  BY <1>1, <1>2
<1>4. PlaceInv'
  <2>1. \A k \in Messages : stage'[k] # "none" <=> stage[k] # "none"
    BY <1>0, <1>2
  <2> QED BY <1>1, <2>1 DEF PlaceInv, Stored
<1>5. bound /\ dispatcher = "loop" /\ \A k \in Messages : stage[k] \in Running => k = m
  BY DEF TaskInv, At
<1>6. \A k \in Messages : stage[k] # "dropped"
  BY DEF TaskInv, At
<1>7. \A k \in Messages : stage[k] \in Abandoned => ~inTable
  BY DEF TaskInv, At
<1>8. Finished \cap Running = {} /\ Abandoned \cap Running = {} /\ Abandoned \cap Finished = {}
  BY DEF Running, Finished, Abandoned
<1>9. TaskInv'
  <2>1. \A k, l \in At(Running)' : k = l
    BY <1>2, <1>5 DEF At
  <2>2. At(Running)' # {} => bound' /\ dispatcher' = "loop"
    <3> SUFFICES ASSUME NEW k \in Messages, stage'[k] \in Running PROVE bound' /\ dispatcher' = "loop"
      BY DEF At
    <3>1. to \notin Finished
      BY <1>2, <1>5, <1>8
    <3> QED BY <1>1, <1>5, <3>1
  <2>3. At({"dropped"})' = {}
    BY <1>0, <1>2, <1>6 DEF At
  <2>4. At(Abandoned)' # {} => ~inTable'
    BY <1>1, <1>2, <1>7 DEF At
  <2>5. dispatcher' # "take"
    BY <1>1, <1>5
  <2> QED BY <2>1, <2>2, <2>3, <2>4, <2>5 DEF TaskInv
<1>10. OrderInv'
  <2> SUFFICES ASSUME NEW n \in Messages, stage'[n] \in Running \cup Finished,
                      NEW k \in delivered \cap Accepted, k < n
               PROVE  stage'[k] \in Finished
    BY <1>1 DEF OrderInv, At
  <2>1. stage[n] \in Running \cup Finished
    BY <1>2
  <2>2. stage[k] \in Finished
    BY <2>1 DEF OrderInv, At
  <2> QED BY <1>2, <1>8, <2>2
<1> QED BY <1>3, <1>4, <1>9, <1>10

\* The removal of the queue, and what touches no state of the invariant.
LEMMA QuietStep ==
  ASSUME FifoInv,
         UNCHANGED <<cached, batch, delivered, bound, dispatcher, stage>>,
         inTable' = inTable \/ (inTable' = FALSE /\ dispatcher = "loop")
  PROVE  FifoInv'
<1>1. \A stages : At(stages)' = At(stages)
  BY DEF At
<1>2. FifoType' /\ PlaceInv' /\ OrderInv'
  BY DEF FifoInv, FifoType, PlaceInv, Stored, OrderInv, At
<1>3. TaskInv'
  BY DEF FifoInv, FifoType, TaskInv, At
<1> QED BY <1>2, <1>3 DEF FifoInv

\* The answer to a receive request: its messages come after all the others.
LEMMA ReceiveStep ==
  ASSUME FifoInv, NEW items \in SUBSET Messages, onSuccess(items)
  PROVE  FifoInv'
<1> DEFINE msgs == processPullResult(items)
<1>1. msgs \subseteq items
  BY DEF processPullResult
<1>2. /\ \A m \in msgs, k \in delivered : m > k
      /\ batch = {} /\ batch' = msgs
      /\ delivered' = delivered \cup msgs
      /\ UNCHANGED <<cached, inTable, bound, dispatcher, stage>>
  BY <1>1 DEF onSuccess, LockForCaching, Unlocked
<1> HIDE DEF msgs
<1>3. msgs \cap delivered = {}
  BY <1>1, <1>2, QueueAssumption DEF FifoInv, FifoType
<1>4. delivered' \ batch' = delivered
  BY <1>2, <1>3
<1>5. FifoType'
  BY <1>1, <1>2 DEF FifoInv, FifoType
<1>6. PlaceInv'
  <2>1. Stored' = Stored
    BY <1>2, <1>4 DEF Stored
  <2>2. \A m \in batch', k \in delivered' \ batch' : k < m
    BY <1>1, <1>2, <1>4, QueueAssumption DEF FifoInv, FifoType
  <2> QED BY <1>2, <2>1, <2>2 DEF FifoInv, PlaceInv
<1>7. TaskInv'
  BY <1>2 DEF FifoInv, TaskInv, At
<1>8. OrderInv'
  <2> SUFFICES ASSUME NEW n \in Messages, stage[n] \in Running \cup Finished,
                      NEW k \in delivered' \cap Accepted, k < n
               PROVE  stage[k] \in Finished
    BY <1>2 DEF OrderInv, At
  <2>1. n \in delivered /\ n \in Nat
    <3>1. stage[n] # "none"
      BY DEF Running, Finished
    <3> QED BY <3>1, QueueAssumption DEF FifoInv, PlaceInv, Stored
  <2>2. k \notin msgs
    BY <1>1, <1>2, <2>1, QueueAssumption
  <2>3. k \in delivered \cap Accepted
    BY <1>2, <2>2
  <2> QED BY <2>3 DEF FifoInv, OrderInv, At
<1> QED BY <1>5, <1>6, <1>7, <1>8 DEF FifoInv

\* One turn of cacheMessages appends to the cache, behind all that left it.
LEMMA CacheStep ==
  ASSUME FifoInv, NEW m \in Messages, Cache(m)
  PROVE  FifoInv'
<1>1. /\ m \in batch /\ \A k \in batch : m <= k
      /\ batch' = batch \ {m}
      /\ cached' = (IF m \in Accepted THEN cached \cup {m} ELSE cached)
      /\ UNCHANGED <<delivered, inTable, bound, dispatcher, stage>>
  BY DEF Cache, cacheMessage, IsFirst
<1>2. FifoType'
  BY <1>1 DEF FifoInv, FifoType
<1>3. delivered' \ batch' = (delivered \ batch) \cup {m}
  BY <1>1 DEF FifoInv, PlaceInv
<1>4. PlaceInv'
  <2>1. batch' \subseteq delivered'
    BY <1>1 DEF FifoInv, PlaceInv
  <2>2. \A n \in batch', k \in delivered' \ batch' : k < n
    BY <1>1, <1>3, QueueAssumption DEF FifoInv, FifoType, PlaceInv
  <2>3. Stored' = IF m \in Accepted THEN Stored \cup {m} ELSE Stored
    BY <1>3 DEF Stored
  <2>4. cached' \subseteq Stored'
    BY <1>1, <2>3 DEF FifoInv, PlaceInv
  <2>5. stage[m] = "none"
    BY <1>1 DEF FifoInv, PlaceInv, Stored
  <2>6. \A n \in Messages : stage'[n] # "none" => n \in Stored' /\ n \notin cached'
    BY <1>1, <2>3, <2>5 DEF FifoInv, PlaceInv
  <2>7. \A n \in Stored' : n \in cached' \/ stage'[n] # "none"
    BY <1>1, <2>3 DEF FifoInv, PlaceInv
  <2>8. \A n \in cached', k \in Messages : stage'[k] # "none" => k < n
    BY <1>1 DEF FifoInv, PlaceInv, Stored
  <2> QED BY <2>1, <2>2, <2>4, <2>6, <2>7, <2>8 DEF PlaceInv
<1>5. TaskInv'
  BY <1>1 DEF FifoInv, TaskInv, At
<1>6. OrderInv'
  BY <1>1 DEF FifoInv, OrderInv, At
<1> QED BY <1>2, <1>4, <1>5, <1>6 DEF FifoInv

\* The dispatcher binds the queue only when no task has it and none is left over.
LEMMA BindStep ==
  ASSUME FifoInv, bindFifoConsumeTask
  PROVE  FifoInv'
<1>1. /\ UNCHANGED <<cached, batch, delivered, inTable, stage>>
      /\ inTable /\ cached # {} /\ ~bound
      /\ bound' = TRUE /\ dispatcher' = "take"
  BY DEF bindFifoConsumeTask, hasPendingMessages, queueVars
<1>2. FifoType' /\ PlaceInv' /\ OrderInv'
  BY <1>1 DEF FifoInv, FifoType, PlaceInv, Stored, OrderInv, At
<1>3. TaskInv'
  BY <1>1 DEF FifoInv, TaskInv, At
<1> QED BY <1>2, <1>3 DEF FifoInv

\* take hands the dispatcher the first message of the cache: every accepted
\* message before it has left the cache and, as the queue was not bound, is done.
LEMMA SubmitStep ==
  ASSUME FifoInv, submitConsumeTask
  PROVE  FifoInv'
<1> DEFINE to == IF HasMore(Taken(1)) THEN "queued" ELSE "dropped"
<1>1. dispatcher = "take" /\ inTable /\ bound /\ cached # {} /\ cached \in SUBSET Nat
  BY QueueAssumption DEF submitConsumeTask, FifoInv, FifoType, TaskInv
<1>2. PICK m \in cached : Taken(1) = {m} /\ IsFirst(m, cached)
  BY <1>1, TakenIsFirst
<1>3. /\ batch = {}
      /\ cached' = cached \ {m}
      /\ stage' = [k \in Messages |-> IF k = m THEN to ELSE stage[k]]
      /\ dispatcher' = "loop"
      /\ UNCHANGED <<batch, inTable, delivered, bound>>
  <2>1. stage' = [k \in Messages |-> IF k \in Taken(1) THEN to ELSE stage[k]]
    BY DEF submitConsumeTask
  <2>2. stage' = [k \in Messages |-> IF k = m THEN to ELSE stage[k]]
    BY <2>1, <1>2
  <2> QED BY <1>2, <2>2 DEF submitConsumeTask, take, Unlocked
<1> HIDE DEF to
<1>4. to \in {"queued", "dropped"}
  BY DEF to
<1>5. /\ to \in Stages /\ to # "none" /\ to \notin Abandoned /\ to \notin Finished
      /\ to \in Running <=> to = "queued"
  BY <1>4 DEF Stages, Running, Finished, Abandoned
<1>6. m \in Messages /\ stage'[m] = to /\ \A k \in Messages : k # m => stage'[k] = stage[k]
  BY <1>3 DEF FifoInv, FifoType
<1>7. FifoType'
  BY <1>3, <1>5 DEF FifoInv, FifoType
<1>8. PlaceInv'
  <2>1. Stored' = Stored
    BY <1>3 DEF Stored
  <2>2. m \in Stored /\ stage[m] = "none"
    BY <1>6 DEF FifoInv, PlaceInv
  <2>3. \A n \in cached' : m < n
    BY <1>1, <1>2, <1>3 DEF IsFirst
  <2>4. \A n \in Messages : stage'[n] # "none" => n \in Stored' /\ n \notin cached'
    BY <1>3, <1>6, <2>1, <2>2 DEF FifoInv, PlaceInv
  <2>5. \A n \in Stored' : n \in cached' \/ stage'[n] # "none"
    BY <1>3, <1>5, <1>6, <2>1, QueueAssumption DEF FifoInv, PlaceInv, Stored
  <2>6. \A n \in cached', k \in Messages : stage'[k] # "none" => k < n
    BY <1>3, <1>6, <2>3 DEF FifoInv, PlaceInv
  <2> QED BY <1>3, <2>1, <2>4, <2>5, <2>6 DEF FifoInv, PlaceInv
<1>9. \A k \in Messages : stage[k] \in Finished \cup {"none"}
  <2>1. \A k \in Messages : stage[k] \notin Running /\ stage[k] # "dropped"
                            /\ stage[k] \notin Abandoned
    BY <1>1 DEF FifoInv, TaskInv, At
  <2> QED BY <2>1 DEF FifoInv, FifoType, Stages
<1>10. TaskInv'
  <2>0. \A k \in Messages : k # m => stage'[k] \notin Running /\ stage'[k] # "dropped"
                                    /\ stage'[k] \notin Abandoned
    BY <1>6, <1>9 DEF Finished, Running, Abandoned
  <2>1. \A k, l \in At(Running)' : k = l
    BY <2>0 DEF At
  <2>2. At(Running)' # {} => bound' /\ dispatcher' = "loop"
    BY <1>1, <1>3
  <2>3. At({"dropped"})' # {} => bound' /\ dispatcher' = "loop" /\ At(Running)' = {}
    <3> SUFFICES ASSUME NEW k \in Messages, stage'[k] = "dropped"
                 PROVE  At(Running)' = {}
      BY <1>1, <1>3 DEF At
    <3>1. to = "dropped"
      BY <1>6, <2>0
    <3>2. \A l \in Messages : stage'[l] \notin Running
      BY <1>5, <1>6, <2>0, <3>1
    <3> QED BY <3>2 DEF At
  <2>4. At(Abandoned)' = {}
    BY <1>5, <1>6, <2>0 DEF At
  <2>5. dispatcher' # "take"
    BY <1>3
  <2> QED BY <2>1, <2>2, <2>3, <2>4, <2>5 DEF TaskInv
<1>11. OrderInv'
  <2> SUFFICES ASSUME NEW n \in Messages, stage'[n] \in Running \cup Finished,
                      NEW k \in delivered \cap Accepted, k < n
               PROVE  stage'[k] \in Finished
    BY <1>3 DEF OrderInv, At
  <2>1. k \in Stored /\ k \in Messages
    BY <1>3 DEF Stored, FifoInv, FifoType
  <2>2. n \in Nat /\ k \in Nat
    BY <2>1, QueueAssumption
  <2>3. k \notin cached
    <3>1. CASE n = m
      BY <1>1, <1>2, <2>2, <3>1 DEF IsFirst
    <3>2. CASE n # m
      <4>1. stage[n] # "none"
        BY <1>6, <3>2 DEF Running, Finished
      <4>2. ASSUME k \in cached PROVE n < k
        BY <4>1, <4>2 DEF FifoInv, PlaceInv
      <4> QED BY <2>2, <4>2
    <3> QED BY <3>1, <3>2
  <2>4. stage[k] \in Finished
    BY <1>9, <2>1, <2>3 DEF FifoInv, PlaceInv
  <2> QED BY <1>2, <1>6, <2>1, <2>3, <2>4
<1> QED BY <1>7, <1>8, <1>10, <1>11 DEF FifoInv

\* Every step of the service keeps the invariant.
LEMMA FifoInductive == FifoInv /\ [Next]_vars => FifoInv'
<1> SUFFICES ASSUME FifoInv, [Next]_vars PROVE FifoInv'
  OBVIOUS
<1>1. ASSUME checkThrottleThenReceive \/ dropAnswer \/ removeQueue \/ UNCHANGED vars
      PROVE  FifoInv'
  <2>1. UNCHANGED <<cached, batch, delivered, bound, dispatcher, stage>>
    BY <1>1 DEF checkThrottleThenReceive, dropAnswer, removeQueue, vars, queueVars
  <2>2. inTable' = inTable \/ (inTable' = FALSE /\ dispatcher = "loop")
    BY <1>1 DEF checkThrottleThenReceive, dropAnswer, removeQueue, vars
  <2> QED BY <2>1, <2>2, QuietStep
<1>2. ASSUME NEW items \in SUBSET Messages, onSuccess(items) PROVE FifoInv'
  BY <1>2, ReceiveStep
<1>3. ASSUME dispatch PROVE FifoInv'
  BY <1>3, BindStep, SubmitStep DEF dispatch
<1>4. ASSUME NEW m \in Messages, Cache(m) PROVE FifoInv'
  BY <1>4, CacheStep
<1>5. ASSUME NEW m \in Messages, NEW from \in Running,
             NEW to \in Running \cup Finished \cup Abandoned, Move(m, from, to),
             Resting, bound' \in BOOLEAN, to \notin Finished => bound' = bound,
             to \in Abandoned => ~inTable
      PROVE  FifoInv'
  BY <1>5, MoveStep DEF Move
<1>6. ASSUME NEW m \in Messages, consumeTask(m) PROVE FifoInv'
  <2>1. Resting /\ bound' = bound /\ bound' \in BOOLEAN
    BY <1>6 DEF consumeTask, runTask, consumeSuccess, consumeFailure, releaseMessageQuota,
                releaseQuota, releaseMessageOffset, releaseOffset, commitOffset, Resting,
                queueVars, FifoInv, FifoType
  <2>2. \/ Move(m, "queued", "listen") \/ Move(m, "listen", "release")
        \/ Move(m, "listen", "retryTimer") \/ Move(m, "listen", "forwarding")
        \/ Move(m, "release", "released") \/ Move(m, "released", "acking")
        \/ Move(m, "released", "commit") \/ Move(m, "commit", "committed")
    BY <1>6 DEF consumeTask, runTask, consumeSuccess, consumeFailure, forwardToDeadLetterQueue,
                releaseMessageQuota, releaseMessageOffset, ack, commitOffset
  <2> QED BY <1>5, <2>1, <2>2 DEF Running, Finished, Abandoned
<1>7. ASSUME NEW m \in Messages, NEW ok \in BOOLEAN,
             onAck(m, ok) \/ onForwardToDeadLetterQueue(m, ok)
      PROVE  FifoInv'
  <2>1. Resting /\ bound' \in BOOLEAN
    BY <1>7 DEF onAck, onForwardToDeadLetterQueue, Resting, queueVars, FifoInv, FifoType
  <2>2. \/ Move(m, "acking", "acked")
        \/ Move(m, "acking", "ackTimer") /\ bound' = bound
        \/ Move(m, "forwarding", "dead")
    BY <1>7 DEF onAck, onForwardToDeadLetterQueue, forwardMessageToDeadLetterQueue
  <2> QED BY <1>5, <2>1, <2>2 DEF Running, Finished, Abandoned
<1>8. ASSUME NEW m \in Messages, scheduleAckTask(m) \/ scheduleConsumeTask(m)
      PROVE  FifoInv'
  <2>1. Resting /\ bound' = bound /\ bound' \in BOOLEAN
    BY <1>8 DEF scheduleAckTask, scheduleConsumeTask, Resting, queueVars, FifoInv, FifoType
  <2>2. Move(m, "ackTimer", "acking") \/ Move(m, "retryTimer", "queued")
    BY <1>8 DEF scheduleAckTask, scheduleConsumeTask, ack
  <2> QED BY <1>5, <2>1, <2>2 DEF Running, Finished, Abandoned
<1>9. ASSUME NEW m \in Messages, abandon(m) PROVE FifoInv'
  <2>1. Resting /\ bound' = bound /\ bound' \in BOOLEAN /\ ~inTable
    BY <1>9 DEF abandon, Alive, Resting, queueVars, FifoInv, FifoType
  <2>2. PICK to \in Abandoned : stage' = [stage EXCEPT ![m] = to]
    BY <1>9 DEF abandon, Abandoned
  <2>3. stage[m] \in Running /\ to \notin Finished
    BY <1>9 DEF abandon, Running, Abandoned, Finished
  <2> QED BY <2>1, <2>2, <2>3, MoveStep
<1> QED BY <1>1, <1>2, <1>3, <1>4, <1>6, <1>7, <1>8, <1>9 DEF Next

\* The invariant holds in every state of the service.
LEMMA FifoInvariant == Spec => []FifoInv
<1>1. Init => FifoInv
  <2> SUFFICES ASSUME Init PROVE FifoInv
    OBVIOUS
  <2>1. FifoType
    BY DEF Init, QueueInit, FifoType, Stages
  <2>2. \A m \in Messages : stage[m] = "none"
    BY DEF Init
  <2>3. At(Running) = {} /\ At({"dropped"}) = {} /\ At(Abandoned) = {} /\ At(Running \cup Finished) = {}
    BY <2>2 DEF At, Running, Abandoned, Finished
  <2> QED BY <2>1, <2>2, <2>3 DEF Init, QueueInit, FifoInv, PlaceInv, Stored, TaskInv, OrderInv
<1> QED BY <1>1, FifoInductive, PTL DEF Spec

\* The FIFO service never has two messages in the hands of the listener, a timer
\* or a request, and never starts one before every accepted message in front of
\* it is acked or given up.
THEOREM FifoInOrder == Spec => []InOrder
<1>1. FifoInv => InOrder
  <2> SUFFICES ASSUME FifoInv PROVE InOrder
    OBVIOUS
  <2>1. Cardinality(At(Running)) <= 1
    <3>1. CASE At(Running) = {}
      BY <3>1, FS_EmptySet
    <3>2. CASE At(Running) # {}
      <4>1. PICK m : At(Running) = {m}
        BY <3>2 DEF FifoInv, TaskInv
      <4> QED BY <4>1, FS_Singleton
    <3> QED BY <3>1, <3>2
  <2> QED BY <2>1 DEF FifoInv, TaskInv, OrderInv, InOrder
<1> QED BY <1>1, FifoInvariant, PTL

-----------------------------------------------------------------------------
(* The refinement of QueueProtocol *)

\* The stages of a message that the protocol counts as taken.
TakenStages == {"dropped", "abandoned", "queued", "listen", "release", "retryTimer",
                "forwarding", "dead"}

\* What the refinement mapping makes of taken.
TakenNow == Charged \cup At({"dead"})

\* taken is the set of the messages in one of those stages.
LEMMA TakenByStage ==
  /\ TakenNow = {m \in Messages : stage[m] \in TakenStages}
  /\ TakenNow' = {m \in Messages : stage'[m] \in TakenStages}
BY DEF TakenNow, Charged, At, TakenStages

\* The operations on offsets_ are those of the protocol.
LEMMA SameSets ==
  /\ \A recs : Protocol!Cardinality(recs) = Cardinality(recs)
  /\ \A recs : Protocol!WithoutReleased(recs) = WithoutReleased(recs)
  /\ \A recs, rec : Protocol!Emplace(recs, rec) = Emplace(recs, rec)
  /\ \A recs, m : Protocol!Erase(recs, m) = Erase(recs, m)
<1>0. \A recs : Protocol!Cardinality(recs) = Cardinality(recs)
  BY Zenon DEF Protocol!Cardinality, Cardinality
<1>1. \A recs : Protocol!WithoutReleased(recs) = WithoutReleased(recs)
  BY <1>0, Zenon DEF Protocol!WithoutReleased, WithoutReleased
<1>2. \A recs, rec : Protocol!Emplace(recs, rec) = Emplace(recs, rec)
  BY Zenon DEF Protocol!Emplace, Emplace
<1>3. \A recs, m : Protocol!Erase(recs, m) = Erase(recs, m)
  BY Zenon DEF Protocol!Erase, Erase
<1> QED BY <1>0, <1>1, <1>2, <1>3

\* The steps that touch neither the process queue nor the two sets are invisible
\* to the protocol: timers, retries, answers and repeated acks.
LEMMA InvisibleMove ==
  ASSUME FifoInv, NEW m \in Messages, NEW from \in Running, NEW to \in Stages,
         Move(m, from, to), UNCHANGED <<queueVars, delivered>>,
         from \in TakenStages <=> to \in TakenStages,
         from # "released", to # "released"
  PROVE  UNCHANGED Protocol!vars
<1>1. stage'[m] = to /\ stage[m] = from /\ \A k \in Messages : k # m => stage'[k] = stage[k]
  BY DEF Move, FifoInv, FifoType
<1>2. TakenNow' = TakenNow
  BY <1>1, TakenByStage
<1>3. At({"released"})' = At({"released"})
  BY <1>1 DEF At
<1> QED BY <1>2, <1>3 DEF Protocol!vars, Protocol!queueVars, queueVars, TakenNow

\* Every step of the service is a step of the protocol or leaves it alone.
LEMMA QueueStep == FifoInv /\ [Next]_vars => [Protocol!Next]_(Protocol!vars)
<1> SUFFICES ASSUME FifoInv, [Next]_vars PROVE [Protocol!Next]_(Protocol!vars)
  OBVIOUS
<1>1. ASSUME stage' = stage PROVE TakenNow' = TakenNow /\ At({"released"})' = At({"released"})
  BY <1>1 DEF TakenNow, Charged, At
<1>2. ASSUME checkThrottleThenReceive \/ dropAnswer \/ removeQueue \/ bindFifoConsumeTask
             \/ UNCHANGED vars
      PROVE  UNCHANGED Protocol!vars
  <2>1. UNCHANGED <<queueVars, delivered, stage>>
    BY <1>2 DEF checkThrottleThenReceive, dropAnswer, removeQueue, bindFifoConsumeTask, vars
  <2> QED BY <1>1, <2>1 DEF Protocol!vars, Protocol!queueVars, queueVars, TakenNow
<1>3. ASSUME NEW items \in SUBSET Messages, onSuccess(items) PROVE Protocol!Next
  <2> DEFINE msgs == processPullResult(items)
  <2>1. msgs \subseteq items /\ msgs \in SUBSET Messages
    BY DEF processPullResult
  <2>2. \A m \in msgs, k \in delivered : m > k
    BY <1>3, <2>1 DEF onSuccess
  <2>3. LockForCaching(msgs) /\ delivered' = delivered \cup msgs /\ stage' = stage
    BY <1>3 DEF onSuccess
  <2> HIDE DEF msgs
  <2>4. Protocol!Deliver(msgs)
    BY <1>1, <2>2, <2>3 DEF Protocol!Deliver, Protocol!LockForCaching, LockForCaching,
                            Protocol!Unlocked, Unlocked, TakenNow
  <2> QED BY <2>1, <2>4 DEF Protocol!Next
<1>4. ASSUME submitConsumeTask PROVE Protocol!Next
  <2>1. cached # {} /\ cached \in SUBSET Nat
    BY <1>4, QueueAssumption DEF submitConsumeTask, FifoInv, FifoType, TaskInv
  <2>2. PICK m \in cached : Taken(1) = {m} /\ IsFirst(m, cached)
    BY <2>1, TakenIsFirst
  <2>3. PICK to \in {"queued", "dropped"} :
          stage' = [k \in Messages |-> IF k \in {m} THEN to ELSE stage[k]]
    BY <1>4, <2>2 DEF submitConsumeTask
  <2>4. m \in Messages /\ stage'[m] = to /\ \A k \in Messages : k # m => stage'[k] = stage[k]
    BY <2>3 DEF FifoInv, FifoType
  <2>5. TakenNow' = TakenNow \cup {m}
    BY <2>4, TakenByStage DEF TakenStages
  <2>6. At({"released"})' = At({"released"})
    <3>1. stage[m] = "none"
      BY <2>2, <2>4 DEF FifoInv, PlaceInv
    <3> QED BY <2>4, <3>1 DEF At
  <2>7. take({m}) /\ delivered' = delivered
    BY <1>4, <2>2 DEF submitConsumeTask
  <2>8. \A n \in {m}, k \in cached \ {m} : n < k
    BY <2>1, <2>2 DEF IsFirst
  <2>9. Protocol!Take({m})
    BY <2>5, <2>6, <2>7, <2>8 DEF Protocol!Take, Protocol!take, take, Protocol!Unlocked,
                                  Unlocked, TakenNow
  <2> QED BY <2>9 DEF Protocol!Next
<1>5. ASSUME NEW m \in Messages, Cache(m) PROVE Protocol!Next
  <2>1. Protocol!Cache(m)
    <3>1. cacheMessage(m) /\ UNCHANGED <<delivered, stage>>
      BY <1>5 DEF Cache
    <3>2. Protocol!cacheMessage(m)
      BY <3>1, SameSets DEF Protocol!cacheMessage, cacheMessage, Protocol!IsFirst, IsFirst
    <3> QED BY <1>1, <3>1, <3>2 DEF Protocol!Cache, TakenNow
  <2> QED BY <2>1 DEF Protocol!Next
<1>6. ASSUME NEW m \in Messages, releaseMessageQuota(m) PROVE Protocol!Next
  <2>1. stage[m] = "release" /\ stage'[m] = "released"
        /\ \A k \in Messages : k # m => stage'[k] = stage[k]
    BY <1>6 DEF releaseMessageQuota, Move, FifoInv, FifoType
  <2>2. m \in TakenNow /\ TakenNow' = TakenNow \ {m}
    BY <2>1, TakenByStage DEF TakenStages
  <2>3. At({"released"})' = At({"released"}) \cup {m}
    BY <2>1 DEF At
  <2>4. releaseQuota(m) /\ delivered' = delivered
    BY <1>6 DEF releaseMessageQuota
  <2>5. Protocol!ReleaseQuota(m)
    BY <2>2, <2>3, <2>4 DEF Protocol!ReleaseQuota, Protocol!releaseQuota, releaseQuota, TakenNow
  <2> QED BY <2>5 DEF Protocol!Next
<1>7. ASSUME NEW m \in Messages, releaseMessageOffset(m) PROVE Protocol!Next
  <2>1. PICK to \in {"acking", "commit"} : Move(m, "released", to)
    BY <1>7 DEF releaseMessageOffset, ack
  <2>2. stage[m] = "released" /\ stage'[m] = to
        /\ \A k \in Messages : k # m => stage'[k] = stage[k]
    BY <2>1 DEF Move, FifoInv, FifoType
  <2>3. TakenNow' = TakenNow
    BY <2>2, TakenByStage DEF TakenStages
  <2>4. m \in At({"released"}) /\ At({"released"})' = At({"released"}) \ {m}
    BY <2>2 DEF At
  <2>5. releaseOffset(m) /\ delivered' = delivered
    BY <1>7 DEF releaseMessageOffset
  <2>6. Protocol!releaseOffset(m)
    BY <2>5, SameSets DEF Protocol!releaseOffset, releaseOffset, Protocol!Unlocked, Unlocked
  <2>7. Protocol!ReleaseOffset(m)
    BY <2>3, <2>4, <2>5, <2>6 DEF Protocol!ReleaseOffset, TakenNow
  <2> QED BY <2>7 DEF Protocol!Next
<1>8. ASSUME NEW m \in Messages,
             \/ runTask(m) \/ consumeSuccess(m) \/ consumeFailure(m) \/ commitOffset(m)
             \/ scheduleAckTask(m) \/ scheduleConsumeTask(m)
             \/ \E ok \in BOOLEAN : onAck(m, ok) \/ onForwardToDeadLetterQueue(m, ok)
             \/ abandon(m)
      PROVE  UNCHANGED Protocol!vars
  <2>1. UNCHANGED <<queueVars, delivered>>
    BY <1>8 DEF runTask, consumeSuccess, consumeFailure, commitOffset, scheduleAckTask,
                scheduleConsumeTask, onAck, onForwardToDeadLetterQueue, abandon
  <2>2. \/ Move(m, "queued", "listen") \/ Move(m, "listen", "release")
        \/ Move(m, "listen", "retryTimer") \/ Move(m, "listen", "forwarding")
        \/ Move(m, "commit", "committed") \/ Move(m, "ackTimer", "acking")
        \/ Move(m, "retryTimer", "queued") \/ Move(m, "acking", "acked")
        \/ Move(m, "acking", "ackTimer") \/ Move(m, "forwarding", "dead")
        \/ Move(m, "queued", "abandoned") \/ Move(m, "retryTimer", "abandoned")
        \/ Move(m, "ackTimer", "unconfirmed") \/ Move(m, "acking", "unconfirmed")
    <3>1. CASE abandon(m)
      BY <3>1 DEF abandon, Move
    <3>2. CASE ~abandon(m)
      BY <1>8, <3>2 DEF runTask, consumeSuccess, consumeFailure, forwardToDeadLetterQueue,
                        commitOffset, scheduleAckTask, scheduleConsumeTask, ack, onAck,
                        onForwardToDeadLetterQueue, forwardMessageToDeadLetterQueue
    <3> QED BY <3>1, <3>2
  <2> QED BY <2>1, <2>2, InvisibleMove DEF Running, Stages, Finished, Abandoned, TakenStages
<1> QED BY <1>2, <1>3, <1>4, <1>5, <1>6, <1>7, <1>8 DEF Next, dispatch, consumeTask

\* The FIFO service is a correct user of the process queue: over any number of
\* listener calls, failed acks and timers it takes the messages in order and
\* releases each of them at most once, first the quota and then the offset.
THEOREM FifoUsesQueueCorrectly == Spec => UsesQueueCorrectly
<1>1. Init => Protocol!Init
  <2> SUFFICES ASSUME Init PROVE Protocol!Init
    OBVIOUS
  <2>1. \A m \in Messages : stage[m] = "none"
    BY DEF Init
  <2>2. TakenNow = {} /\ At({"released"}) = {}
    BY <2>1, TakenByStage DEF At, TakenStages
  <2> QED BY <2>2 DEF Init, QueueInit, Protocol!Init, Protocol!QueueInit, TakenNow
<1> QED BY <1>1, QueueStep, FifoInvariant, PTL DEF Spec, UsesQueueCorrectly, Protocol!Spec

-----------------------------------------------------------------------------
(* What QueueProofs shows of the protocol holds of the queue in the service *)

Promise == INSTANCE QueueProofs WITH
  taken <- Charged \cup At({"dead"}), releasing <- At({"released"})

\* The specification QueueProofs is about is the one the service refines.
LEMMA SameProtocol == Protocol!Spec => Promise!Spec
<1>1. Protocol!Init => Promise!Init
  BY Zenon DEF Protocol!Init, Promise!Init, Protocol!QueueInit, Promise!QueueInit
<1>2. Protocol!vars = Promise!vars /\ Protocol!vars' = Promise!vars'
  BY Zenon DEF Protocol!vars, Promise!vars, Protocol!queueVars, Promise!queueVars
<1>3. \A recs : Protocol!Cardinality(recs) = Promise!Cardinality(recs)
  BY Zenon DEF Protocol!Cardinality, Promise!Cardinality
<1>4. Protocol!Next => Promise!Next
  <2>1. ASSUME NEW msgs, Protocol!Deliver(msgs) PROVE Promise!Deliver(msgs)
    BY <2>1, Zenon DEF Protocol!Deliver, Promise!Deliver, Protocol!LockForCaching,
       Promise!LockForCaching, Protocol!Unlocked, Promise!Unlocked
  <2>2. ASSUME NEW msgs, Protocol!Take(msgs) PROVE Promise!Take(msgs)
    BY <2>2, Zenon DEF Protocol!Take, Promise!Take, Protocol!take, Promise!take,
       Protocol!Unlocked, Promise!Unlocked
  <2>3. ASSUME NEW m, Protocol!Cache(m) PROVE Promise!Cache(m)
    <3>1. \A recs : Protocol!WithoutReleased(recs) = Promise!WithoutReleased(recs)
      BY <1>3, Zenon DEF Protocol!WithoutReleased, Promise!WithoutReleased
    <3>2. \A recs, rec : Protocol!Emplace(recs, rec) = Promise!Emplace(recs, rec)
      BY Zenon DEF Protocol!Emplace, Promise!Emplace
    <3>3. Promise!cacheMessage(m)
      BY <2>3, <3>1, <3>2 DEF Protocol!Cache, Protocol!cacheMessage, Promise!cacheMessage,
         Protocol!IsFirst, Promise!IsFirst
    <3> QED BY <2>3, <3>3 DEF Protocol!Cache, Promise!Cache
  <2>4. ASSUME NEW m, Protocol!ReleaseQuota(m) PROVE Promise!ReleaseQuota(m)
    BY <2>4, Zenon DEF Protocol!ReleaseQuota, Promise!ReleaseQuota, Protocol!releaseQuota,
       Promise!releaseQuota
  <2>5. ASSUME NEW m, Protocol!ReleaseOffset(m) PROVE Promise!ReleaseOffset(m)
    <3>1. \A recs, k : Protocol!Erase(recs, k) = Promise!Erase(recs, k)
      BY Zenon DEF Protocol!Erase, Promise!Erase
    <3>2. \A recs, rec : Protocol!Emplace(recs, rec) = Promise!Emplace(recs, rec)
      BY Zenon DEF Protocol!Emplace, Promise!Emplace
    <3>3. Promise!releaseOffset(m)
      BY <2>5, <1>3, <3>1, <3>2 DEF Protocol!ReleaseOffset, Protocol!releaseOffset,
         Promise!releaseOffset, Protocol!Unlocked, Promise!Unlocked
    <3> QED BY <2>5, <3>3 DEF Protocol!ReleaseOffset, Promise!ReleaseOffset
  <2> QED BY <2>1, <2>2, <2>3, <2>4, <2>5 DEF Protocol!Next, Promise!Next
<1>5. [Protocol!Next]_(Protocol!vars) => [Promise!Next]_(Promise!vars)
  BY <1>2, <1>4
<1> QED BY <1>1, <1>5, PTL DEF Protocol!Spec, Promise!Spec

\* Inside the FIFO service the quota charged to the queue is exactly the messages
\* cached or in the hands of the service, no committed offset passes one of them,
\* and the assertion of release never fails.
THEOREM FifoQueuePromises ==
  Spec => [](Protocol!QuantityExact /\ Protocol!CommittedSafe /\ Protocol!ReleaseAssertion)
<1>1. \A S : Promise!Cardinality(S) = Protocol!Cardinality(S)
  BY Zenon DEF Promise!Cardinality, Protocol!Cardinality
<1>2. Promise!QuantityExact => Protocol!QuantityExact
  BY <1>1 DEF Promise!QuantityExact, Protocol!QuantityExact
<1>3. Promise!CommittedSafe => Protocol!CommittedSafe
  <2>1. Promise!committedOffset = Protocol!committedOffset
    BY Zenon DEF Promise!committedOffset, Protocol!committedOffset, Promise!First, Protocol!First
  <2> QED BY <2>1 DEF Promise!CommittedSafe, Protocol!CommittedSafe, Promise!Live, Protocol!Live,
                      Promise!hasCommittedOffset, Protocol!hasCommittedOffset
<1>4. Promise!ReleaseAssertion => Protocol!ReleaseAssertion
  BY <1>1 DEF Promise!ReleaseAssertion, Protocol!ReleaseAssertion
<1> QED BY <1>2, <1>3, <1>4, FifoUsesQueueCorrectly, SameProtocol, Promise!QuantityCorrect,
           Promise!CommittedIsSafe, Promise!ReleaseAssertionHolds, QueueAssumption, PTL
        DEF UsesQueueCorrectly, Promise!QueueAssumption

\* What is stored was committed, and the committed offset has not moved back.
StoredInv ==
  /\ stored \in Nat \cup {-1}
  /\ messageModel # "BROADCASTING" => offsets = {} /\ stored = -1
  /\ stored # -1 => hasCommittedOffset /\ stored <= committedOffset

\* The offset store of a broadcasting FIFO consumer never gets ahead of a message
\* that is received and not released: restarted from it, the consumer skips none.
THEOREM FifoStoredOffsetSafe == Spec => []StoredOffsetSafe
<1> DEFINE Forward == hasCommittedOffset =>
                        hasCommittedOffset' /\ committedOffset <= committedOffset'
<1>1. Promise!TypeOK => (hasCommittedOffset => committedOffset \in Nat)
  <2> SUFFICES ASSUME Promise!TypeOK, hasCommittedOffset PROVE committedOffset \in Nat
    OBVIOUS
  <2>1. offsets \in SUBSET OffsetRecord /\ offsets # {}
    BY DEF Promise!TypeOK, Promise!QueueTypeOK, Promise!OffsetRecord, OffsetRecord,
           hasCommittedOffset
  <2>2. First(offsets) \in OffsetRecord
    BY <2>1, FirstIsLeast
  <2> QED BY <2>2 DEF committedOffset, OffsetRecord
<1>2. Promise!TypeOK' => (hasCommittedOffset' => committedOffset' \in Nat)
  <2> SUFFICES ASSUME Promise!TypeOK', hasCommittedOffset' PROVE committedOffset' \in Nat
    OBVIOUS
  <2>1. offsets' \in SUBSET OffsetRecord /\ offsets' # {}
    BY DEF Promise!TypeOK, Promise!QueueTypeOK, Promise!OffsetRecord, OffsetRecord,
           hasCommittedOffset
  <2>2. First(offsets') \in OffsetRecord
    BY <2>1, FirstIsLeast
  <2> QED BY <2>2 DEF committedOffset, OffsetRecord
<1>3. Init => StoredInv
  BY DEF Init, QueueInit, StoredInv
<1>4. [Promise!hasCommittedOffset =>
         Promise!hasCommittedOffset' /\ Promise!committedOffset <= Promise!committedOffset'
      ]_(Promise!vars)
      => (offsets' = offsets \/ Forward)
  <2>1. Promise!committedOffset = committedOffset /\ Promise!committedOffset' = committedOffset'
    BY Zenon DEF Promise!committedOffset, committedOffset, Promise!First, First
  <2> QED BY <2>1 DEF Promise!hasCommittedOffset, hasCommittedOffset, Promise!vars,
                      Promise!queueVars
<1>5. /\ StoredInv /\ Promise!TypeOK /\ Promise!TypeOK' /\ [Next]_vars
      /\ [Promise!Next]_(Promise!vars)
      /\ (offsets' = offsets \/ Forward)
      => StoredInv'
  <2> SUFFICES ASSUME StoredInv, Promise!TypeOK, Promise!TypeOK', [Next]_vars,
                      [Promise!Next]_(Promise!vars), offsets' = offsets \/ Forward
               PROVE  StoredInv'
    OBVIOUS
  <2>1. messageModel' = messageModel /\ (messageModel # "BROADCASTING" => offsets' = offsets)
    BY DEF Promise!Next, Promise!Deliver, Promise!LockForCaching, Promise!Take, Promise!take,
           Promise!Cache, Promise!cacheMessage, Promise!ReleaseQuota, Promise!releaseQuota,
           Promise!ReleaseOffset, Promise!releaseOffset, Promise!vars, Promise!queueVars
  <2>2. hasCommittedOffset => hasCommittedOffset' /\ committedOffset <= committedOffset'
    <3>1. CASE offsets' = offsets
      BY <3>1, <1>1 DEF hasCommittedOffset, committedOffset
    <3> QED BY <3>1
  <2>3. \/ stored' = stored
        \/ hasCommittedOffset /\ stored' = committedOffset
    BY DEF Next, checkThrottleThenReceive, onSuccess, dropAnswer, removeQueue, dispatch,
           bindFifoConsumeTask, submitConsumeTask, Cache, consumeTask, runTask, consumeSuccess,
           consumeFailure, releaseMessageQuota, releaseMessageOffset, commitOffset, onAck,
           onForwardToDeadLetterQueue, scheduleAckTask, scheduleConsumeTask, abandon, vars
  <2>4. stored' \in Nat \cup {-1}
    BY <1>1, <2>3 DEF StoredInv
  <2>5. messageModel' # "BROADCASTING" => offsets' = {} /\ stored' = -1
    BY <2>1, <2>3 DEF StoredInv, hasCommittedOffset
  <2>6. stored' # -1 => hasCommittedOffset' /\ stored' <= committedOffset'
    BY <1>1, <1>2, <2>2, <2>3 DEF StoredInv
  <2> QED BY <2>4, <2>5, <2>6 DEF StoredInv
<1>6. StoredInv /\ FifoInv /\ Promise!TypeOK /\ Promise!CommittedSafe => StoredOffsetSafe
  <2> SUFFICES ASSUME StoredInv, FifoInv, Promise!TypeOK, Promise!CommittedSafe,
                      NEW m \in batch \cup cached \cup Charged \cup At({"released"})
               PROVE  stored <= m
    BY DEF StoredOffsetSafe
  <2>1. m \in Nat
    BY QueueAssumption DEF FifoInv, FifoType, Charged, At
  <2>2. CASE stored = -1
    BY <2>1, <2>2
  <2>3. CASE stored # -1
    <3>1. messageModel = "BROADCASTING" /\ hasCommittedOffset /\ stored <= committedOffset
      BY <2>3 DEF StoredInv
    <3>2. Promise!committedOffset = committedOffset
      BY Zenon DEF Promise!committedOffset, committedOffset, Promise!First, First
    <3>3. committedOffset <= m
      BY <3>1, <3>2 DEF Promise!CommittedSafe, Promise!Live, Promise!hasCommittedOffset,
                        hasCommittedOffset
    <3> QED BY <1>1, <2>1, <3>1, <3>3 DEF StoredInv
  <2> QED BY <2>2, <2>3
<1> QED BY <1>3, <1>4, <1>5, <1>6, FifoInvariant, FifoUsesQueueCorrectly, SameProtocol,
           Promise!TypeCorrect, Promise!CommittedIsSafe, Promise!CommittedIsMonotone,
           QueueAssumption, PTL
        DEF Spec, UsesQueueCorrectly, Promise!Spec, Promise!CommittedMonotone,
            Promise!QueueAssumption

=============================================================================
