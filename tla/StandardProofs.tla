--------------------------- MODULE StandardProofs ----------------------------
(***************************************************************************)
(* Proofs about ConsumeStandard, for every set of messages and of pool     *)
(* threads, every batch size and every moment of the shutdown: each        *)
(* message is in one place, the service uses the process queue as          *)
(* QueueProtocol prescribes, and the offset store stays behind the         *)
(* messages that are not consumed.                                         *)
(***************************************************************************)
EXTENDS ConsumeStandard, DataProofs

\* The first record of offsets_ has the smallest offset.
LEMMA FirstIsLeast ==
  ASSUME NEW recs \in SUBSET OffsetRecord, recs # {}
  PROVE  First(recs) \in recs /\ \A s \in recs : First(recs).offset <= s.offset
<1>1. \E r \in recs : \A s \in recs : r.offset <= s.offset
  BY LeastRecord DEF OffsetRecord
<1> QED BY <1>1 DEF First

\* take moves a prefix of the vector: every message it leaves behind comes after
\* the ones it moved, whatever the batch size.
LEMMA TakenIsPrefix ==
  ASSUME cached \in SUBSET Nat, NEW n \in Nat,
         NEW m \in Taken(n), NEW k \in cached \ Taken(n)
  PROVE  m < k
<1>1. /\ m \in cached /\ Cardinality({j \in cached : j < m}) < n
      /\ k \in cached /\ ~ (Cardinality({j \in cached : j < k}) < n)
  BY DEF Taken
<1> QED BY <1>1, FirstMembersAreLess

-----------------------------------------------------------------------------
(* The inductive invariant *)

\* The variables the argument is about hold values of their types.
StandardType ==
  /\ messageModel \in {"CLUSTERING", "BROADCASTING"}
  /\ cached \in SUBSET Messages
  /\ batch \in SUBSET Messages
  /\ delivered \in SUBSET Messages
  /\ tasks \in Seq(SUBSET Messages)
  /\ worker \in [Workers -> [pc : {"idle", "listen", "release", "ack", "commit"},
                             msgs : SUBSET Messages, ok : BOOLEAN]]

\* What went through cacheMessages and passed the filter.
Stored == (delivered \ batch) \cap Accepted

\* The broker was told what became of these.
Sent == acked \cup nacked

\* Taken from the cache and not settled: in a task or nowhere.
Out == Stored \ (cached \cup Sent \cup committed)

\* A stored message is cached, settled in one of the two ways, or out.
PlaceInv ==
  /\ batch \subseteq delivered
  /\ \A m \in batch, k \in delivered \ batch : k < m
  /\ cached \subseteq Stored
  /\ cached \cap (Sent \cup committed) = {}
  /\ committed \subseteq Stored
  /\ committed \cap Sent = {}
  /\ Sent \subseteq delivered \ batch

\* Queued tasks share no message with each other.
TaskInv ==
  /\ \A i \in DOMAIN tasks : tasks[i] # {} /\ tasks[i] \subseteq Out
  /\ \A i, j \in DOMAIN tasks : i # j => tasks[i] \cap tasks[j] = {}

\* Neither do running ones, and only CLUSTERING mode releases.
WorkerInv ==
  /\ \A w \in Workers : worker[w].msgs \subseteq Out
  /\ \A v, w \in Workers : v # w => worker[v].msgs \cap worker[w].msgs = {}
  /\ \A w \in Workers, i \in DOMAIN tasks : worker[w].msgs \cap tasks[i] = {}
  /\ \A w \in Workers : worker[w].pc = "idle" <=> worker[w].msgs = {}
  /\ \A w \in Workers : worker[w].pc \in {"release", "ack"} => messageModel = "CLUSTERING"

StandardInv == StandardType /\ PlaceInv /\ TaskInv /\ WorkerInv

\* The message a pool thread releases is the first one of its batch.
LEMMA MinIsLeast ==
  ASSUME NEW S \in SUBSET Nat, S # {}
  PROVE  Min(S) \in S
<1>1. \E x \in S : \A y \in S : x <= y
  BY LeastNatural
<1> QED BY <1>1 DEF Min

\* The steps that leave tasks, threads and settled messages alone.
LEMMA QuietStep ==
  ASSUME StandardInv, UNCHANGED <<messageModel, tasks, worker>>, Out' = Out,
         StandardType', PlaceInv'
  PROVE  StandardInv'
<1>1. TaskInv'
  BY DEF StandardInv, TaskInv
<1>2. WorkerInv'
  BY DEF StandardInv, WorkerInv
<1> QED BY <1>1, <1>2 DEF StandardInv

\* The answer to a receive request: its messages come after all the others.
LEMMA ReceiveStep ==
  ASSUME StandardInv, NEW items \in SUBSET Messages, onSuccess(items)
  PROVE  StandardInv'
<1> DEFINE msgs == ReceivedFrom(items)
<1>1. msgs \subseteq items
  BY DEF ReceivedFrom, processPopResult, processPullResult
<1>2. /\ \A m \in msgs, k \in delivered : m > k
      /\ batch = {} /\ batch' = msgs
      /\ delivered' = delivered \cup msgs
      /\ UNCHANGED <<messageModel, cached, tasks, worker, acked, nacked, committed>>
  BY <1>1 DEF onSuccess, LockForCaching, Unlocked, ackVars
<1> HIDE DEF msgs
<1>3. msgs \cap delivered = {}
  BY <1>1, <1>2, QueueAssumption DEF StandardInv, StandardType
<1>4. delivered' \ batch' = delivered /\ Stored' = Stored /\ Sent' = Sent
  BY <1>2, <1>3 DEF Stored, Sent
<1>5. Out' = Out
  BY <1>2, <1>4 DEF Out
<1>6. StandardType'
  BY <1>1, <1>2 DEF StandardInv, StandardType
<1>7. PlaceInv'
  <2>1. \A m \in batch', k \in delivered' \ batch' : k < m
    BY <1>1, <1>2, <1>4, QueueAssumption DEF StandardInv, StandardType
  <2> QED BY <1>2, <1>4, <2>1 DEF StandardInv, PlaceInv
<1> QED BY <1>2, <1>5, <1>6, <1>7, QuietStep

\* One turn of cacheMessages: a message enters the cache or is acked at once.
LEMMA CacheStep ==
  ASSUME StandardInv, NEW m \in Messages, Cache(m)
  PROVE  StandardInv' /\ Out' = Out
<1>1. /\ m \in batch /\ \A k \in batch : m <= k
      /\ batch' = batch \ {m}
      /\ cached' = (IF m \in Accepted THEN cached \cup {m} ELSE cached)
      /\ acked' = (IF m \in Accepted THEN acked ELSE acked \cup {m})
      /\ UNCHANGED <<messageModel, delivered, tasks, worker, nacked, committed>>
  BY DEF Cache, cacheMessage, IsFirst
<1>2. StandardType'
  BY <1>1 DEF StandardInv, StandardType
<1>3. delivered' \ batch' = (delivered \ batch) \cup {m} /\ m \notin delivered \ batch
  BY <1>1 DEF StandardInv, PlaceInv
<1>4. Stored' = IF m \in Accepted THEN Stored \cup {m} ELSE Stored
  BY <1>3 DEF Stored
<1>5. Sent' = IF m \in Accepted THEN Sent ELSE Sent \cup {m}
  BY <1>1 DEF Sent
<1>6. m \notin Stored /\ m \notin Sent /\ m \notin committed
  BY <1>3 DEF StandardInv, PlaceInv, Stored
<1>7. Out' = Out
  BY <1>1, <1>4, <1>5, <1>6 DEF Out, Stored
<1>8. PlaceInv'
  <2>1. \A n \in batch', k \in delivered' \ batch' : k < n
    BY <1>1, <1>3, QueueAssumption DEF StandardInv, StandardType, PlaceInv
  <2>2. cached' \subseteq Stored' /\ cached' \cap (Sent' \cup committed') = {}
    BY <1>1, <1>4, <1>5, <1>6 DEF StandardInv, PlaceInv
  <2>3. committed' \subseteq Stored' /\ committed' \cap Sent' = {}
    BY <1>1, <1>4, <1>5, <1>6 DEF StandardInv, PlaceInv
  <2>4. batch' \subseteq delivered' /\ Sent' \subseteq delivered' \ batch'
    BY <1>1, <1>3, <1>5 DEF StandardInv, PlaceInv
  <2> QED BY <2>1, <2>2, <2>3, <2>4 DEF PlaceInv
<1> QED BY <1>1, <1>2, <1>7, <1>8, QuietStep

\* take and submit: what leaves the cache goes into a task of its own, or, when
\* the pool no longer accepts tasks, nowhere.
LEMMA SubmitStep ==
  ASSUME StandardInv, submitConsumeTask
  PROVE  StandardInv'
<1> DEFINE msgs == Taken(ConsumeBatchSize)
<1>1. msgs \subseteq cached
  BY DEF Taken
<1>2. /\ cached' = cached \ msgs
      /\ tasks' = tasks \/ (msgs # {} /\ tasks' = Append(tasks, msgs))
      /\ UNCHANGED <<messageModel, batch, delivered, worker, acked, nacked, committed>>
  BY DEF submitConsumeTask, take, submit, ackVars
<1> HIDE DEF msgs
<1>3. Stored' = Stored /\ Sent' = Sent
  BY <1>2 DEF Stored, Sent
<1>4. Out' = Out \cup msgs /\ msgs \cap Out = {}
  BY <1>1, <1>2, <1>3 DEF Out, StandardInv, PlaceInv
<1>5. PlaceInv'
  BY <1>1, <1>2, <1>3 DEF StandardInv, PlaceInv
<1>6. CASE tasks' = tasks
  <2>1. StandardType'
    BY <1>1, <1>2, <1>6 DEF StandardInv, StandardType
  <2>2. TaskInv'
    BY <1>4, <1>6 DEF StandardInv, TaskInv
  <2>3. WorkerInv'
    BY <1>2, <1>4, <1>6 DEF StandardInv, WorkerInv
  <2> QED BY <1>5, <2>1, <2>2, <2>3 DEF StandardInv
<1>7. CASE msgs # {} /\ tasks' = Append(tasks, msgs)
  <2>1. msgs \in SUBSET Messages /\ tasks \in Seq(SUBSET Messages)
    BY <1>1 DEF StandardInv, StandardType
  <2>2. /\ tasks' \in Seq(SUBSET Messages)
        /\ DOMAIN tasks = 1 .. Len(tasks) /\ Len(tasks) \in Nat
        /\ DOMAIN tasks' = 1 .. (Len(tasks) + 1)
        /\ \A i \in DOMAIN tasks : tasks'[i] = tasks[i]
        /\ tasks'[Len(tasks) + 1] = msgs
    BY <1>7, <2>1
  <2>3. \A i \in DOMAIN tasks' :
          \/ i \in DOMAIN tasks /\ tasks'[i] = tasks[i]
          \/ i = Len(tasks) + 1 /\ tasks'[i] = msgs
    <3>1. \A i \in 1 .. (Len(tasks) + 1) : i \in 1 .. Len(tasks) \/ i = Len(tasks) + 1
      BY <2>2
    <3>2. ASSUME NEW i \in DOMAIN tasks'
          PROVE  \/ i \in DOMAIN tasks /\ tasks'[i] = tasks[i]
                 \/ i = Len(tasks) + 1 /\ tasks'[i] = msgs
      <4>1. CASE i \in DOMAIN tasks
        BY <2>2, <4>1
      <4>2. CASE i = Len(tasks) + 1
        BY <2>2, <4>2
      <4> QED BY <2>2, <3>1, <4>1, <4>2
    <3> QED BY <3>2
  <2>4. StandardType'
    BY <1>1, <1>2, <2>2 DEF StandardInv, StandardType
  <2>5. TaskInv'
    <3>1. \A i \in DOMAIN tasks' : tasks'[i] # {} /\ tasks'[i] \subseteq Out'
      BY <1>4, <1>7, <2>3 DEF StandardInv, TaskInv
    <3>2. ASSUME NEW i \in DOMAIN tasks', NEW j \in DOMAIN tasks', i # j
          PROVE  tasks'[i] \cap tasks'[j] = {}
      <4>1. CASE i \in DOMAIN tasks /\ j \in DOMAIN tasks
        BY <2>2, <3>2, <4>1 DEF StandardInv, TaskInv
      <4>2. CASE i \in DOMAIN tasks /\ j = Len(tasks) + 1
        BY <1>4, <2>2, <4>2 DEF StandardInv, TaskInv
      <4>3. CASE i = Len(tasks) + 1 /\ j \in DOMAIN tasks
        BY <1>4, <2>2, <4>3 DEF StandardInv, TaskInv
      <4> QED BY <2>3, <3>2, <4>1, <4>2, <4>3
    <3> QED BY <3>1, <3>2 DEF TaskInv
  <2>6. WorkerInv'
    <3>1. \A w \in Workers, i \in DOMAIN tasks' : worker'[w].msgs \cap tasks'[i] = {}
      BY <1>2, <1>4, <2>3 DEF StandardInv, WorkerInv
    <3>2. \A w \in Workers : worker'[w].msgs \subseteq Out'
      BY <1>2, <1>4 DEF StandardInv, WorkerInv
    <3> QED BY <1>2, <3>1, <3>2 DEF StandardInv, WorkerInv
  <2> QED BY <1>5, <2>4, <2>5, <2>6 DEF StandardInv
<1> QED BY <1>2, <1>6, <1>7

\* A step of one pool thread that leaves the queued tasks alone and keeps some of
\* the messages of its batch.
LEMMA ThreadStep ==
  ASSUME StandardInv, NEW w \in Workers,
         NEW pc \in {"idle", "listen", "release", "ack", "commit"},
         NEW msgs \in SUBSET worker[w].msgs, NEW ok \in BOOLEAN,
         worker' = [worker EXCEPT ![w] = [pc |-> pc, msgs |-> msgs, ok |-> ok]],
         UNCHANGED <<messageModel, cached, batch, delivered, tasks>>,
         pc = "idle" <=> msgs = {},
         pc \in {"release", "ack"} => messageModel = "CLUSTERING",
         Out' \subseteq Out, Out \ Out' \subseteq worker[w].msgs \ msgs,
         PlaceInv'
  PROVE  StandardInv'
<1>1. /\ worker'[w] = [pc |-> pc, msgs |-> msgs, ok |-> ok]
      /\ worker'[w].pc = pc /\ worker'[w].msgs = msgs
      /\ \A v \in Workers : v # w => worker'[v] = worker[v]
  BY DEF StandardInv, StandardType
<1>2. StandardType'
  <2>1. [pc |-> pc, msgs |-> msgs, ok |-> ok]
          \in [pc : {"idle", "listen", "release", "ack", "commit"},
               msgs : SUBSET Messages, ok : BOOLEAN]
    BY DEF StandardInv, StandardType
  <2> QED BY <2>1 DEF StandardInv, StandardType
<1>3. msgs \subseteq worker[w].msgs /\ \A v \in Workers : worker'[v].msgs \subseteq worker[v].msgs
  BY <1>1
<1>4. TaskInv'
  <2>1. \A i \in DOMAIN tasks : tasks[i] \subseteq Out'
    BY DEF StandardInv, TaskInv, WorkerInv
  <2> QED BY <2>1 DEF StandardInv, TaskInv
<1>5. WorkerInv'
  <2>1. \A v \in Workers : worker'[v].msgs \subseteq Out'
    <3>1. msgs \subseteq Out'
      BY DEF StandardInv, WorkerInv
    <3>2. \A v \in Workers : v # w => worker[v].msgs \subseteq Out'
      BY DEF StandardInv, WorkerInv
    <3> QED BY <1>1, <3>1, <3>2
  <2>2. \A u, v \in Workers : u # v => worker'[u].msgs \cap worker'[v].msgs = {}
    BY <1>3 DEF StandardInv, WorkerInv
  <2>3. \A v \in Workers, i \in DOMAIN tasks' : worker'[v].msgs \cap tasks'[i] = {}
    BY <1>3 DEF StandardInv, WorkerInv
  <2>4. \A v \in Workers : worker'[v].pc = "idle" <=> worker'[v].msgs = {}
    BY <1>1 DEF StandardInv, WorkerInv
  <2>5. \A v \in Workers : worker'[v].pc \in {"release", "ack"} => messageModel' = "CLUSTERING"
    BY <1>1 DEF StandardInv, WorkerInv
  <2> QED BY <2>1, <2>2, <2>3, <2>4, <2>5 DEF WorkerInv
<1> QED BY <1>2, <1>4, <1>5 DEF StandardInv

\* A pool thread takes the first task of the queue.
LEMMA RunStep ==
  ASSUME StandardInv, NEW w \in Workers, runTask(w)
  PROVE  StandardInv'
<1>1. /\ worker[w].pc = "idle" /\ tasks # <<>>
      /\ worker' = [worker EXCEPT ![w] = [pc |-> "listen", msgs |-> Head(tasks), ok |-> FALSE]]
      /\ tasks' = Tail(tasks)
      /\ UNCHANGED <<messageModel, cached, batch, delivered, acked, nacked, committed>>
  BY DEF runTask, queueVars, ackVars
<1>2. tasks \in Seq(SUBSET Messages)
  BY DEF StandardInv, StandardType
<1>3. /\ Head(tasks) = tasks[1] /\ 1 \in DOMAIN tasks
      /\ Head(tasks) \in SUBSET Messages
      /\ tasks' \in Seq(SUBSET Messages)
      /\ \A i \in DOMAIN tasks' : i \in Nat /\ i + 1 \in DOMAIN tasks /\ i + 1 # 1
                                  /\ tasks'[i] = tasks[i + 1]
  BY <1>1, <1>2
<1>4. /\ worker'[w].pc = "listen" /\ worker'[w].msgs = Head(tasks)
      /\ \A v \in Workers : v # w => worker'[v] = worker[v]
  BY <1>1 DEF StandardInv, StandardType
<1>5. Out' = Out /\ PlaceInv'
  BY <1>1 DEF Out, Stored, Sent, StandardInv, PlaceInv
<1>6. StandardType'
  <2>1. [pc |-> "listen", msgs |-> Head(tasks), ok |-> FALSE]
          \in [pc : {"idle", "listen", "release", "ack", "commit"},
               msgs : SUBSET Messages, ok : BOOLEAN]
    BY <1>3
  <2> QED BY <1>1, <1>3, <2>1 DEF StandardInv, StandardType
<1>7. TaskInv'
  BY <1>3, <1>5 DEF StandardInv, TaskInv
<1>8. WorkerInv'
  <2>1. \A v \in Workers : worker'[v].msgs \subseteq Out'
    BY <1>3, <1>4, <1>5 DEF StandardInv, WorkerInv, TaskInv
  <2>2. \A u, v \in Workers : u # v => worker'[u].msgs \cap worker'[v].msgs = {}
    BY <1>3, <1>4 DEF StandardInv, WorkerInv
  <2>3. \A v \in Workers, i \in DOMAIN tasks' : worker'[v].msgs \cap tasks'[i] = {}
    <3>1. \A i \in DOMAIN tasks' : Head(tasks) \cap tasks'[i] = {}
      BY <1>3 DEF StandardInv, TaskInv
    <3>2. \A v \in Workers, i \in DOMAIN tasks' : worker[v].msgs \cap tasks'[i] = {}
      BY <1>3 DEF StandardInv, WorkerInv
    <3> QED BY <1>4, <3>1, <3>2
  <2>4. \A v \in Workers : worker'[v].pc = "idle" <=> worker'[v].msgs = {}
    BY <1>3, <1>4 DEF StandardInv, WorkerInv, TaskInv
  <2>5. \A v \in Workers : worker'[v].pc \in {"release", "ack"} => messageModel' = "CLUSTERING"
    BY <1>1, <1>4 DEF StandardInv, WorkerInv
  <2> QED BY <2>1, <2>2, <2>3, <2>4, <2>5 DEF WorkerInv
<1> QED BY <1>5, <1>6, <1>7, <1>8 DEF StandardInv

\* What a thread may read of its own record.
LEMMA ThreadType ==
  ASSUME StandardInv, NEW w \in Workers
  PROVE  /\ worker[w] = [pc |-> worker[w].pc, msgs |-> worker[w].msgs, ok |-> worker[w].ok]
         /\ worker[w].pc \in {"idle", "listen", "release", "ack", "commit"}
         /\ worker[w].msgs \in SUBSET Messages
         /\ worker[w].msgs \in SUBSET Nat
         /\ worker[w].ok \in BOOLEAN
         /\ worker[w].pc # "idle" => /\ worker[w].msgs # {}
                                     /\ Min(worker[w].msgs) \in worker[w].msgs
<1>1. worker[w] \in [pc : {"idle", "listen", "release", "ack", "commit"},
                     msgs : SUBSET Messages, ok : BOOLEAN]
  BY DEF StandardInv, StandardType
<1>2. worker[w].pc # "idle" => worker[w].msgs # {}
  BY DEF StandardInv, WorkerInv
<1>3. worker[w].msgs \in SUBSET Nat
  BY <1>1, QueueAssumption
<1> QED BY <1>1, <1>2, <1>3, MinIsLeast

\* The listener returns, and the first half of a release.
LEMMA ListenStep ==
  ASSUME StandardInv, NEW w \in Workers,
         (\E ok \in BOOLEAN : consumeMessage(w, ok)) \/ releaseMessage(w)
  PROVE  StandardInv'
<1>1. UNCHANGED <<messageModel, cached, batch, delivered, tasks, acked, nacked, committed>>
  BY DEF consumeMessage, releaseMessage, releaseQuota, queueVars, ackVars
<1>2. Out' = Out /\ PlaceInv'
  BY <1>1 DEF Out, Stored, Sent, StandardInv, PlaceInv
<1>3. worker[w].pc # "idle"
  BY DEF consumeMessage, releaseMessage
<1>4. CASE releaseMessage(w)
  <2>1. worker' = [worker EXCEPT ![w] = [pc |-> "ack", msgs |-> worker[w].msgs,
                                         ok |-> worker[w].ok]]
    <3>1. worker' = [worker EXCEPT ![w] = [@ EXCEPT !.pc = "ack"]]
      BY <1>4 DEF releaseMessage
    <3>2. [worker[w] EXCEPT !.pc = "ack"]
            = [pc |-> "ack", msgs |-> worker[w].msgs, ok |-> worker[w].ok]
      BY DEF StandardInv, StandardType
    <3> QED BY <3>1, <3>2 DEF StandardInv, StandardType
  <2>2. messageModel = "CLUSTERING"
    BY <1>4 DEF releaseMessage, StandardInv, WorkerInv
  <2> QED BY <1>1, <1>2, <1>3, <2>1, <2>2, ThreadStep, ThreadType
<1>5. ASSUME NEW ok \in BOOLEAN, consumeMessage(w, ok) PROVE StandardInv'
  <2> DEFINE pc == IF messageModel = "CLUSTERING" THEN "release" ELSE "commit"
  <2>1. worker' = [worker EXCEPT ![w] = [pc |-> pc, msgs |-> worker[w].msgs, ok |-> ok]]
    <3>1. worker' = [worker EXCEPT ![w] = [@ EXCEPT !.ok = ok, !.pc = pc]]
      BY <1>5 DEF consumeMessage, StandardInv, StandardType
    <3>2. [worker[w] EXCEPT !.ok = ok, !.pc = pc]
            = [pc |-> pc, msgs |-> worker[w].msgs, ok |-> ok]
      <4> HIDE DEF pc
      <4>1. worker[w] \in [pc : {"idle", "listen", "release", "ack", "commit"},
                           msgs : SUBSET Messages, ok : BOOLEAN]
        BY DEF StandardInv, StandardType
      <4>2. PICK r : r = [worker[w] EXCEPT !.ok = ok]
        OBVIOUS
      <4>3. r \in [pc : {"idle", "listen", "release", "ack", "commit"},
                   msgs : SUBSET Messages, ok : BOOLEAN]
            /\ r.msgs = worker[w].msgs /\ r.ok = ok
        BY <4>1, <4>2
      <4>4. [r EXCEPT !.pc = pc] = [pc |-> pc, msgs |-> worker[w].msgs, ok |-> ok]
        BY <4>3
      <4>5. [worker[w] EXCEPT !.ok = ok, !.pc = pc] = [r EXCEPT !.pc = pc]
        BY <4>1, <4>2
      <4> QED BY <4>4, <4>5
    <3> QED BY <3>1, <3>2 DEF StandardInv, StandardType
  <2>2. pc \in {"release", "commit"} /\ (pc = "release" => messageModel = "CLUSTERING")
    OBVIOUS
  <2> HIDE DEF pc
  <2> QED BY <1>1, <1>2, <1>3, <2>1, <2>2, ThreadStep, ThreadType
<1> QED BY <1>4, <1>5

\* The ack or nack of one message of the batch.
LEMMA SettleStep ==
  ASSUME StandardInv, NEW w \in Workers, settleMessage(w)
  PROVE  StandardInv'
<1> DEFINE m == Min(worker[w].msgs)
           rest == worker[w].msgs \ {m}
           pc == IF rest = {} THEN "idle" ELSE "release"
           ok == IF rest = {} THEN FALSE ELSE worker[w].ok
<1>1. worker[w].pc = "ack" /\ m \in worker[w].msgs /\ messageModel = "CLUSTERING"
  BY ThreadType DEF settleMessage, StandardInv, WorkerInv
<1>2. /\ worker' = [worker EXCEPT ![w] = [pc |-> pc, msgs |-> rest, ok |-> ok]]
      /\ UNCHANGED <<messageModel, cached, batch, delivered, tasks, committed>>
      /\ Sent' = Sent \cup {m}
  <2>1. CASE rest = {}
    BY <2>1 DEF settleMessage, Idle, queueVars, ack, nack, Sent
  <2>2. CASE rest # {}
    BY <2>2 DEF settleMessage, queueVars, ack, nack, Sent
  <2> QED BY <2>1, <2>2
<1>3. ok \in BOOLEAN /\ rest \in SUBSET worker[w].msgs /\ (pc = "idle" <=> rest = {})
      /\ pc \in {"idle", "release"} /\ worker[w].msgs \ rest = {m}
  BY <1>1, ThreadType
<1>4. m \in Out
  BY <1>1 DEF StandardInv, WorkerInv
<1> HIDE DEF pc, ok, rest, m
<1>5. Stored' = Stored /\ Out' = Out \ {m}
  BY <1>2 DEF Out, Stored
<1>6. PlaceInv'
  BY <1>2, <1>4, <1>5 DEF StandardInv, PlaceInv, Out, Stored
<1> QED BY <1>1, <1>2, <1>3, <1>5, <1>6, ThreadStep

\* The BROADCASTING branch ends.
LEMMA CommitStep ==
  ASSUME StandardInv, NEW w \in Workers, commitOffset(w)
  PROVE  StandardInv'
<1>1. /\ worker' = [worker EXCEPT ![w] = [pc |-> "idle", msgs |-> {}, ok |-> FALSE]]
      /\ UNCHANGED <<messageModel, cached, batch, delivered, tasks, acked, nacked>>
      /\ committed' = committed \cup worker[w].msgs
  BY DEF commitOffset, Idle, queueVars
<1>2. worker[w].msgs \subseteq Out
  BY DEF StandardInv, WorkerInv
<1>3. Stored' = Stored /\ Sent' = Sent /\ Out' = Out \ worker[w].msgs
  BY <1>1 DEF Out, Stored, Sent
<1>4. PlaceInv'
  BY <1>1, <1>2, <1>3 DEF StandardInv, PlaceInv, Out
<1> QED BY <1>1, <1>3, <1>4, ThreadStep

\* Lifecycle, receive cycle and the turns of the dispatcher that move nothing.
Still == UNCHANGED <<queueVars, delivered, tasks, worker, acked, nacked, committed>>

\* The steps that move no message.
LEMMA StillSteps ==
  ASSUME \/ startBase \/ startDone \/ shutdown \/ shutdownBase \/ joinPool \/ joinDispatcher
         \/ checkThrottleThenReceive \/ dropAnswer \/ removeQueue
         \/ dispatchLoop \/ dispatchWake \/ iterateProcessQueue \/ UNCHANGED vars
  PROVE  Still /\ stored' = stored
BY DEF startBase, startDone, shutdown, shutdownBase, joinPool, joinDispatcher,
       checkThrottleThenReceive, dropAnswer, removeQueue, dispatchLoop, dispatchWake,
       iterateProcessQueue, vars, ackVars, Still

\* Every step of the service keeps the invariant.
LEMMA StandardInductive == StandardInv /\ [Next]_vars => StandardInv'
<1> SUFFICES ASSUME StandardInv, [Next]_vars PROVE StandardInv'
  OBVIOUS
<1>1. ASSUME Still PROVE StandardInv'
  <2>1. Out' = Out /\ StandardType' /\ PlaceInv'
    BY <1>1 DEF Still, queueVars, Out, Stored, Sent, StandardInv, StandardType, PlaceInv
  <2> QED BY <1>1, <2>1, QuietStep DEF Still, queueVars
<1> QED BY <1>1, StillSteps, ReceiveStep, CacheStep, SubmitStep, RunStep, ListenStep,
           SettleStep, CommitStep DEF Next, dispatch, consumeTask

\* The invariant holds in every state of the service.
LEMMA StandardInvariant == Spec => []StandardInv
<1>1. Init => StandardInv
  <2> SUFFICES ASSUME Init PROVE StandardInv
    OBVIOUS
  <2>1. \A w \in Workers : worker[w] = [pc |-> "idle", msgs |-> {}, ok |-> FALSE]
    BY DEF Init, Idle
  <2>2. StandardType
    <3>1. [pc |-> "idle", msgs |-> {}, ok |-> FALSE]
            \in [pc : {"idle", "listen", "release", "ack", "commit"},
                 msgs : SUBSET Messages, ok : BOOLEAN]
      OBVIOUS
    <3> QED BY <3>1 DEF Init, QueueInit, StandardType, Idle
  <2>3. DOMAIN tasks = {}
    BY DEF Init
  <2> QED BY <2>1, <2>2, <2>3 DEF Init, QueueInit, StandardInv, PlaceInv, Stored, Sent, TaskInv,
                                  WorkerInv
<1> QED BY <1>1, StandardInductive, PTL DEF Spec

-----------------------------------------------------------------------------
(* The refinement of QueueProtocol *)

\* What the refinement mapping makes of taken.
TakenNow == InTasks \cup Lost \cup committed

\* taken is what left the cache and is neither being released nor settled with the
\* broker: the invariant makes the three parts of the mapping disjoint.
LEMMA TakenIsRest ==
  StandardInv => TakenNow = Stored \ (cached \cup Releasing \cup Sent)
<1> SUFFICES ASSUME StandardInv PROVE TakenNow = Stored \ (cached \cup Releasing \cup Sent)
  OBVIOUS
<1>1. ASSUME NEW x \in Releasing
      PROVE  \E w \in Workers : /\ worker[w].pc = "ack" /\ x = Min(worker[w].msgs)
                                /\ x \in worker[w].msgs
  <2>1. PICK w \in Workers : worker[w].pc = "ack" /\ x = Min(worker[w].msgs)
    BY DEF Releasing
  <2> QED BY <2>1, ThreadType
<1>2. ASSUME NEW x \in InTasks PROVE x \in Out /\ x \notin Releasing
  <2>1. CASE x \in UNION Range(tasks)
    <3>1. PICK i \in DOMAIN tasks : x \in tasks[i]
      BY <2>1 DEF Range
    <3> QED BY <1>1, <3>1 DEF StandardInv, TaskInv, WorkerInv
  <2>2. CASE x \in UNION {Held(w) : w \in Workers}
    <3>1. PICK w \in Workers : x \in Held(w)
      BY <2>2
    <3>2. x \in worker[w].msgs /\ (worker[w].pc = "ack" => x # Min(worker[w].msgs))
      BY <3>1 DEF Held
    <3> QED BY <1>1, <3>2 DEF StandardInv, WorkerInv
  <2> QED BY <2>1, <2>2 DEF InTasks
<1>3. \A x \in Releasing : x \notin committed
  BY <1>1 DEF StandardInv, WorkerInv, Out
<1>4. TakenNow \subseteq Stored \ (cached \cup Releasing \cup Sent)
  BY <1>2, <1>3 DEF TakenNow, Lost, Stored, Settled, Sent, Out, StandardInv, PlaceInv
<1>5. Stored \ (cached \cup Releasing \cup Sent) \subseteq TakenNow
  BY DEF TakenNow, Lost, Stored, Settled, Sent
<1> QED BY <1>4, <1>5

\* The same after a step.
LEMMA TakenIsRestNext ==
  StandardInv' => TakenNow' = Stored' \ (cached' \cup Releasing' \cup Sent')
<1>1. (StandardInv => TakenNow = Stored \ (cached \cup Releasing \cup Sent))'
  BY TakenIsRest, PTL
<1> QED BY <1>1

\* The operations on offsets_ are those of the protocol.
LEMMA SameSets ==
  /\ \A recs : Protocol!Cardinality(recs) = Cardinality(recs)
  /\ \A recs : Protocol!WithoutReleased(recs) = WithoutReleased(recs)
  /\ \A recs, rec : Protocol!Emplace(recs, rec) = Emplace(recs, rec)
  /\ \A recs, m : Protocol!Erase(recs, m) = Erase(recs, m)
<1>0. \A recs : Protocol!Cardinality(recs) = Cardinality(recs)
  BY Zenon DEF Protocol!Cardinality, Cardinality
<1>1. \A recs : Protocol!WithoutReleased(recs) = WithoutReleased(recs)
  BY <1>0, Zenon DEF Protocol!WithoutReleased, WithoutReleased
<1>2. \A recs, rec : Protocol!Emplace(recs, rec) = Emplace(recs, rec)
  BY Zenon DEF Protocol!Emplace, Emplace
<1>3. \A recs, m : Protocol!Erase(recs, m) = Erase(recs, m)
  BY Zenon DEF Protocol!Erase, Erase
<1> QED BY <1>0, <1>1, <1>2, <1>3

\* A step invisible to the protocol: no message changes sides.
LEMMA InvisibleStep ==
  ASSUME StandardInv, StandardInv', UNCHANGED <<queueVars, delivered, acked, nacked>>,
         Releasing' = Releasing
  PROVE  UNCHANGED Protocol!vars
<1>1. TakenNow = Stored \ (cached \cup Releasing \cup Sent)
  BY TakenIsRest
<1>2. TakenNow' = Stored' \ (cached' \cup Releasing' \cup Sent')
  BY TakenIsRestNext
<1>3. TakenNow' = TakenNow
  BY <1>1, <1>2 DEF Stored, Sent, queueVars
<1> QED BY <1>3 DEF Protocol!vars, Protocol!queueVars, queueVars, TakenNow

\* Every step of the service is a step of the protocol or leaves it alone.
LEMMA QueueStep == StandardInv /\ StandardInv' /\ [Next]_vars => [Protocol!Next]_(Protocol!vars)
<1> SUFFICES ASSUME StandardInv, StandardInv', [Next]_vars
             PROVE  [Protocol!Next]_(Protocol!vars)
  OBVIOUS
<1>1. /\ TakenNow = Stored \ (cached \cup Releasing \cup Sent)
      /\ TakenNow' = Stored' \ (cached' \cup Releasing' \cup Sent')
  BY TakenIsRest, TakenIsRestNext
<1>2. ASSUME worker' = worker PROVE Releasing' = Releasing
  BY <1>2 DEF Releasing
<1>3. ASSUME Still PROVE UNCHANGED Protocol!vars
  BY <1>2, <1>3, InvisibleStep DEF Still
<1>4. ASSUME NEW items \in SUBSET Messages, onSuccess(items) PROVE Protocol!Next
  <2> DEFINE msgs == ReceivedFrom(items)
  <2>1. msgs \subseteq items /\ msgs \in SUBSET Messages
    BY DEF ReceivedFrom, processPopResult, processPullResult
  <2>2. \A m \in msgs, k \in delivered : m > k
    BY <1>4, <2>1 DEF onSuccess
  <2>3. LockForCaching(msgs) /\ delivered' = delivered \cup msgs
        /\ UNCHANGED <<worker, acked, nacked>>
    BY <1>4 DEF onSuccess, ackVars
  <2> HIDE DEF msgs
  <2>4. Stored' = Stored
    <3>1. batch = {} /\ batch' = msgs /\ msgs \cap delivered = {}
      BY <2>1, <2>2, <2>3, QueueAssumption DEF LockForCaching, Unlocked, StandardInv, StandardType
    <3> QED BY <2>3, <3>1 DEF Stored
  <2>5. TakenNow' = TakenNow /\ Releasing' = Releasing
    BY <1>1, <1>2, <2>3, <2>4 DEF LockForCaching, Sent
  <2>6. Protocol!Deliver(msgs)
    BY <2>2, <2>3, <2>5 DEF Protocol!Deliver, Protocol!LockForCaching, LockForCaching,
                            Protocol!Unlocked, Unlocked, TakenNow
  <2> QED BY <2>1, <2>6 DEF Protocol!Next
<1>5. ASSUME NEW m \in Messages, Cache(m) PROVE Protocol!Next
  <2>1. cacheMessage(m) /\ UNCHANGED <<delivered, worker>>
    BY <1>5 DEF Cache
  <2>2. Releasing' = Releasing
    BY <1>2, <2>1
  <2>3. TakenNow' = TakenNow
    <3>1. /\ m \in batch /\ batch' = batch \ {m}
          /\ cached' = (IF m \in Accepted THEN cached \cup {m} ELSE cached)
          /\ Sent' = (IF m \in Accepted THEN Sent ELSE Sent \cup {m})
      BY <1>5 DEF Cache, cacheMessage, IsFirst, Sent
    <3>2. Stored' = IF m \in Accepted THEN Stored \cup {m} ELSE Stored
      BY <2>1, <3>1 DEF Stored, StandardInv, PlaceInv
    <3>3. m \notin Stored /\ (m \notin Accepted => m \notin Stored)
      BY <3>1 DEF Stored
    <3> QED BY <1>1, <2>2, <3>1, <3>2, <3>3
  <2>4. Protocol!cacheMessage(m)
    BY <2>1, SameSets DEF Protocol!cacheMessage, cacheMessage, Protocol!IsFirst, IsFirst
  <2>5. Protocol!Cache(m)
    BY <2>1, <2>2, <2>3, <2>4 DEF Protocol!Cache, TakenNow
  <2> QED BY <2>5 DEF Protocol!Next
<1>6. ASSUME submitConsumeTask PROVE Protocol!Next
  <2> DEFINE msgs == Taken(ConsumeBatchSize)
  <2>1. cached \in SUBSET Nat /\ ConsumeBatchSize \in Nat
    BY QueueAssumption, ServiceAssumption DEF StandardInv, StandardType
  <2>2. msgs \in SUBSET cached
    BY DEF Taken
  <2>3. \A m \in msgs, k \in cached \ msgs : m < k
    BY <2>1, TakenIsPrefix
  <2>4. take(msgs) /\ UNCHANGED <<delivered, worker, acked, nacked>>
    BY <1>6 DEF submitConsumeTask, ackVars
  <2> HIDE DEF msgs
  <2>5. Releasing' = Releasing
    BY <1>2, <2>4
  <2>6. TakenNow' = TakenNow \cup msgs
    <3>1. cached' = cached \ msgs /\ Stored' = Stored /\ Sent' = Sent
      BY <2>4 DEF take, Stored, Sent
    <3>2. msgs \subseteq Stored /\ msgs \cap Sent = {}
      BY <2>2 DEF StandardInv, PlaceInv
    <3>3. msgs \cap Releasing = {}
      <4>1. ASSUME NEW w \in Workers, worker[w].pc = "ack" PROVE Min(worker[w].msgs) \notin cached
        BY <4>1, ThreadType DEF StandardInv, WorkerInv, Out
      <4> QED BY <2>2, <4>1 DEF Releasing
    <3> QED BY <1>1, <2>2, <2>5, <3>1, <3>2, <3>3
  <2>7. Protocol!Take(msgs)
    BY <2>3, <2>4, <2>5, <2>6 DEF Protocol!Take, Protocol!take, take, Protocol!Unlocked,
                                  Unlocked, TakenNow
  <2> QED BY <2>2, <2>7 DEF Protocol!Next
<1>7. ASSUME NEW w \in Workers,
             runTask(w) \/ (\E ok \in BOOLEAN : consumeMessage(w, ok)) \/ commitOffset(w)
      PROVE  UNCHANGED Protocol!vars
  <2>1. UNCHANGED <<queueVars, delivered, acked, nacked>>
    BY <1>7 DEF runTask, consumeMessage, commitOffset, ackVars
  <2>2. worker[w].pc # "ack" /\ worker'[w].pc # "ack"
        /\ \A v \in Workers : v # w => worker'[v] = worker[v]
    <3>1. \A v \in Workers : v # w => worker'[v] = worker[v]
      BY <1>7 DEF runTask, consumeMessage, commitOffset, StandardInv, StandardType
    <3>2. CASE runTask(w)
      <4>1. worker'[w] = [pc |-> "listen", msgs |-> Head(tasks), ok |-> FALSE]
        BY <3>2 DEF runTask, StandardInv, StandardType
      <4> QED BY <3>1, <3>2, <4>1 DEF runTask
    <3>3. CASE commitOffset(w)
      <4>1. worker'[w] = Idle
        BY <3>3 DEF commitOffset, StandardInv, StandardType
      <4> QED BY <3>1, <3>3, <4>1 DEF commitOffset, Idle
    <3>4. ASSUME NEW ok \in BOOLEAN, consumeMessage(w, ok)
          PROVE  worker[w].pc # "ack" /\ worker'[w].pc # "ack"
      <4>1. worker'[w] = [worker[w] EXCEPT !.ok = ok,
                            !.pc = IF messageModel = "CLUSTERING" THEN "release" ELSE "commit"]
        BY <3>4 DEF consumeMessage, StandardInv, StandardType
      <4>2. worker[w] \in [pc : {"idle", "listen", "release", "ack", "commit"},
                           msgs : SUBSET Messages, ok : BOOLEAN]
        BY DEF StandardInv, StandardType
      <4>3. worker'[w].pc = IF messageModel = "CLUSTERING" THEN "release" ELSE "commit"
        BY <4>1, <4>2
      <4> QED BY <3>4, <4>3 DEF consumeMessage
    <3> QED BY <1>7, <3>1, <3>2, <3>3, <3>4
  <2>3. Releasing' = Releasing
    <3>1. {v \in Workers : worker'[v].pc = "ack"} = {v \in Workers : worker[v].pc = "ack"}
      BY <2>2
    <3>2. \A v \in {u \in Workers : worker[u].pc = "ack"} : worker'[v] = worker[v]
      BY <2>2
    <3> QED BY <3>1, <3>2 DEF Releasing
  <2> QED BY <2>1, <2>3, InvisibleStep
<1>8. ASSUME NEW w \in Workers, releaseMessage(w) PROVE Protocol!Next
  <2> DEFINE m == Min(worker[w].msgs)
  <2>1. m \in worker[w].msgs /\ m \in Messages
    BY <1>8, ThreadType DEF releaseMessage
  <2>2. releaseQuota(m) /\ UNCHANGED <<delivered, acked, nacked>>
    BY <1>8 DEF releaseMessage, ackVars
  <2>3. /\ worker[w].pc # "ack" /\ worker'[w].pc = "ack" /\ worker'[w].msgs = worker[w].msgs
        /\ \A v \in Workers : v # w => worker'[v] = worker[v]
    BY <1>8 DEF releaseMessage, StandardInv, StandardType
  <2>4. Releasing' = Releasing \cup {m}
    <3>1. {v \in Workers : worker'[v].pc = "ack"} = {v \in Workers : worker[v].pc = "ack"} \cup {w}
      BY <2>3
    <3>2. \A v \in Workers : worker'[v].msgs = worker[v].msgs
      BY <2>3
    <3> QED BY <3>1, <3>2 DEF Releasing
  <2>5. m \notin Releasing
    <3>1. ASSUME NEW v \in Workers, worker[v].pc = "ack" PROVE m # Min(worker[v].msgs)
      <4>1. v # w /\ Min(worker[v].msgs) \in worker[v].msgs
        BY <2>3, <3>1, ThreadType
      <4> QED BY <2>1, <4>1 DEF StandardInv, WorkerInv
    <3> QED BY <3>1 DEF Releasing
  <2>6. m \in Out
    BY <2>1 DEF StandardInv, WorkerInv
  <2> HIDE DEF m
  <2>7. m \in TakenNow /\ TakenNow' = TakenNow \ {m}
    <3>1. cached' = cached /\ Stored' = Stored /\ Sent' = Sent
      BY <2>2 DEF releaseQuota, Stored, Sent
    <3> QED BY <1>1, <2>4, <2>5, <2>6, <3>1 DEF Out
  <2>8. Protocol!ReleaseQuota(m)
    BY <2>2, <2>4, <2>7 DEF Protocol!ReleaseQuota, Protocol!releaseQuota, releaseQuota, TakenNow
  <2> QED BY <2>1, <2>8 DEF Protocol!Next
<1>9. ASSUME NEW w \in Workers, settleMessage(w) PROVE Protocol!Next
  <2> DEFINE m == Min(worker[w].msgs)
             rest == worker[w].msgs \ {m}
  <2>1. m \in worker[w].msgs /\ m \in Messages /\ worker[w].pc = "ack"
        /\ messageModel = "CLUSTERING"
    BY <1>9, ThreadType DEF settleMessage, StandardInv, WorkerInv
  <2>2. UNCHANGED <<queueVars, delivered>> /\ Sent' = Sent \cup {m}
    BY <1>9 DEF settleMessage, ack, nack, Sent
  <2>3. worker'[w].pc # "ack" /\ \A v \in Workers : v # w => worker'[v] = worker[v]
    BY <1>9 DEF settleMessage, Idle, StandardInv, StandardType
  <2>4. m \in Releasing
    BY <2>1 DEF Releasing
  <2>5. Releasing' = Releasing \ {m}
    <3>1. {v \in Workers : worker'[v].pc = "ack"} = {v \in Workers : worker[v].pc = "ack"} \ {w}
      BY <2>3
    <3>2. \A v \in {u \in Workers : worker[u].pc = "ack"} \ {w} : worker'[v].msgs = worker[v].msgs
      BY <2>3
    <3>3. ASSUME NEW v \in Workers, v # w, worker[v].pc = "ack" PROVE m # Min(worker[v].msgs)
      <4>1. Min(worker[v].msgs) \in worker[v].msgs
        BY <3>3, ThreadType
      <4> QED BY <2>1, <3>3, <4>1 DEF StandardInv, WorkerInv
    <3>4. Releasing' = {Min(worker[v].msgs) : v \in {u \in Workers : worker[u].pc = "ack"} \ {w}}
      BY <3>1, <3>2 DEF Releasing
    <3> HIDE DEF m
    <3>5. Releasing = {Min(worker[v].msgs) : v \in {u \in Workers : worker[u].pc = "ack"} \ {w}}
                        \cup {m}
      BY <2>1 DEF Releasing, m
    <3>6. m \notin {Min(worker[v].msgs) : v \in {u \in Workers : worker[u].pc = "ack"} \ {w}}
      BY <3>3
    <3> QED BY <3>4, <3>5, <3>6
  <2> HIDE DEF m, rest
  <2>6. TakenNow' = TakenNow
    <3>1. cached' = cached /\ Stored' = Stored
      BY <2>2 DEF queueVars, Stored
    <3> QED BY <1>1, <2>2, <2>4, <2>5, <3>1
  <2>7. Protocol!ReleaseOffset(m)
    <3>1. Protocol!releaseOffset(m)
      BY <2>1, <2>2 DEF Protocol!releaseOffset, queueVars
    <3> QED BY <2>2, <2>4, <2>5, <2>6, <3>1 DEF Protocol!ReleaseOffset, TakenNow
  <2> QED BY <2>1, <2>7 DEF Protocol!Next
<1> QED BY <1>3, <1>4, <1>5, <1>6, <1>7, <1>8, <1>9, StillSteps DEF Next, dispatch, consumeTask

\* The standard service is a correct user of the process queue: over any
\* interleaving of pool threads, dispatcher and shutdown it takes prefixes of the
\* cache and releases each message at most once, after it took it.
THEOREM StandardUsesQueueCorrectly == Spec => UsesQueueCorrectly
<1>1. Init /\ StandardInv => Protocol!Init
  <2> SUFFICES ASSUME Init, StandardInv PROVE Protocol!Init
    OBVIOUS
  <2>1. \A w \in Workers : worker[w].pc = "idle"
    BY DEF Init, Idle
  <2>2. Releasing = {}
    BY <2>1 DEF Releasing
  <2>3. TakenNow = {}
    BY TakenIsRest DEF Init, Stored
  <2> QED BY <2>2, <2>3 DEF Init, QueueInit, Protocol!Init, Protocol!QueueInit, TakenNow
<1> QED BY <1>1, QueueStep, StandardInvariant, PTL DEF Spec, UsesQueueCorrectly, Protocol!Spec

-----------------------------------------------------------------------------
(* What QueueProofs shows of the protocol holds of the queue in the service *)

Promise == INSTANCE QueueProofs WITH
  taken <- InTasks \cup Lost \cup committed, releasing <- Releasing

\* The specification QueueProofs is about is the one the service refines.
LEMMA SameProtocol == Protocol!Spec => Promise!Spec
<1>1. Protocol!Init => Promise!Init
  BY Zenon DEF Protocol!Init, Promise!Init, Protocol!QueueInit, Promise!QueueInit
<1>2. Protocol!vars = Promise!vars /\ Protocol!vars' = Promise!vars'
  BY Zenon DEF Protocol!vars, Promise!vars, Protocol!queueVars, Promise!queueVars
<1>3. \A recs : Protocol!Cardinality(recs) = Promise!Cardinality(recs)
  BY Zenon DEF Protocol!Cardinality, Promise!Cardinality
<1>4. Protocol!Next => Promise!Next
  <2>1. ASSUME NEW msgs, Protocol!Deliver(msgs) PROVE Promise!Deliver(msgs)
    BY <2>1, Zenon DEF Protocol!Deliver, Promise!Deliver, Protocol!LockForCaching,
       Promise!LockForCaching, Protocol!Unlocked, Promise!Unlocked
  <2>2. ASSUME NEW msgs, Protocol!Take(msgs) PROVE Promise!Take(msgs)
    BY <2>2, Zenon DEF Protocol!Take, Promise!Take, Protocol!take, Promise!take,
       Protocol!Unlocked, Promise!Unlocked
  <2>3. ASSUME NEW m, Protocol!Cache(m) PROVE Promise!Cache(m)
    <3>1. \A recs : Protocol!WithoutReleased(recs) = Promise!WithoutReleased(recs)
      BY <1>3, Zenon DEF Protocol!WithoutReleased, Promise!WithoutReleased
    <3>2. \A recs, rec : Protocol!Emplace(recs, rec) = Promise!Emplace(recs, rec)
      BY Zenon DEF Protocol!Emplace, Promise!Emplace
    <3>3. Promise!cacheMessage(m)
      BY <2>3, <3>1, <3>2 DEF Protocol!Cache, Protocol!cacheMessage, Promise!cacheMessage,
         Protocol!IsFirst, Promise!IsFirst
    <3> QED BY <2>3, <3>3 DEF Protocol!Cache, Promise!Cache
  <2>4. ASSUME NEW m, Protocol!ReleaseQuota(m) PROVE Promise!ReleaseQuota(m)
    BY <2>4, Zenon DEF Protocol!ReleaseQuota, Promise!ReleaseQuota, Protocol!releaseQuota,
       Promise!releaseQuota
  <2>5. ASSUME NEW m, Protocol!ReleaseOffset(m) PROVE Promise!ReleaseOffset(m)
    <3>1. \A recs, k : Protocol!Erase(recs, k) = Promise!Erase(recs, k)
      BY Zenon DEF Protocol!Erase, Promise!Erase
    <3>2. \A recs, rec : Protocol!Emplace(recs, rec) = Promise!Emplace(recs, rec)
      BY Zenon DEF Protocol!Emplace, Promise!Emplace
    <3>3. Promise!releaseOffset(m)
      BY <2>5, <1>3, <3>1, <3>2 DEF Protocol!ReleaseOffset, Protocol!releaseOffset,
         Promise!releaseOffset, Protocol!Unlocked, Promise!Unlocked
    <3> QED BY <2>5, <3>3 DEF Protocol!ReleaseOffset, Promise!ReleaseOffset
  <2> QED BY <2>1, <2>2, <2>3, <2>4, <2>5 DEF Protocol!Next, Promise!Next
<1>5. [Protocol!Next]_(Protocol!vars) => [Promise!Next]_(Promise!vars)
  BY <1>2, <1>4
<1> QED BY <1>1, <1>5, PTL DEF Protocol!Spec, Promise!Spec

\* Inside the service the quota charged to the queue is exactly the messages cached,
\* in the hands of the service or committed by a broadcasting task, no committed
\* offset passes one of them, and the assertion of release never fails.
THEOREM StandardQueuePromises ==
  Spec => [](Protocol!QuantityExact /\ Protocol!CommittedSafe /\ Protocol!ReleaseAssertion)
<1>1. \A S : Promise!Cardinality(S) = Protocol!Cardinality(S)
  BY Zenon DEF Promise!Cardinality, Protocol!Cardinality
<1>2. Promise!QuantityExact => Protocol!QuantityExact
  BY <1>1 DEF Promise!QuantityExact, Protocol!QuantityExact
<1>3. Promise!CommittedSafe => Protocol!CommittedSafe
  <2>1. Promise!committedOffset = Protocol!committedOffset
    BY Zenon DEF Promise!committedOffset, Protocol!committedOffset, Promise!First, Protocol!First
  <2> QED BY <2>1 DEF Promise!CommittedSafe, Protocol!CommittedSafe, Promise!Live, Protocol!Live,
                      Promise!hasCommittedOffset, Protocol!hasCommittedOffset
<1>4. Promise!ReleaseAssertion => Protocol!ReleaseAssertion
  BY <1>1 DEF Promise!ReleaseAssertion, Protocol!ReleaseAssertion
<1> QED BY <1>2, <1>3, <1>4, StandardUsesQueueCorrectly, SameProtocol, Promise!QuantityCorrect,
           Promise!CommittedIsSafe, Promise!ReleaseAssertionHolds, QueueAssumption, PTL
        DEF UsesQueueCorrectly, Promise!QueueAssumption

\* What is stored was committed, and the committed offset has not moved back.
StoredInv ==
  /\ stored \in Nat \cup {-1}
  /\ messageModel # "BROADCASTING" => offsets = {} /\ stored = -1
  /\ stored # -1 => hasCommittedOffset /\ stored <= committedOffset

\* The offset store never gets ahead of a message that the listener was not given
\* or has not returned from, whichever thread commits first and however late.
THEOREM StandardStoredOffsetSafe == Spec => []StoredOffsetSafe
<1> DEFINE Forward == hasCommittedOffset =>
                        hasCommittedOffset' /\ committedOffset <= committedOffset'
<1>1. Promise!TypeOK => (hasCommittedOffset => committedOffset \in Nat)
  <2> SUFFICES ASSUME Promise!TypeOK, hasCommittedOffset PROVE committedOffset \in Nat
    OBVIOUS
  <2>1. offsets \in SUBSET OffsetRecord /\ offsets # {}
    BY DEF Promise!TypeOK, Promise!QueueTypeOK, Promise!OffsetRecord, OffsetRecord,
           hasCommittedOffset
  <2>2. First(offsets) \in OffsetRecord
    BY <2>1, FirstIsLeast
  <2> QED BY <2>2 DEF committedOffset, OffsetRecord
<1>2. Promise!TypeOK' => (hasCommittedOffset' => committedOffset' \in Nat)
  <2> SUFFICES ASSUME Promise!TypeOK', hasCommittedOffset' PROVE committedOffset' \in Nat
    OBVIOUS
  <2>1. offsets' \in SUBSET OffsetRecord /\ offsets' # {}
    BY DEF Promise!TypeOK, Promise!QueueTypeOK, Promise!OffsetRecord, OffsetRecord,
           hasCommittedOffset
  <2>2. First(offsets') \in OffsetRecord
    BY <2>1, FirstIsLeast
  <2> QED BY <2>2 DEF committedOffset, OffsetRecord
<1>3. Init => StoredInv
  BY DEF Init, QueueInit, StoredInv
<1>4. [Promise!hasCommittedOffset =>
         Promise!hasCommittedOffset' /\ Promise!committedOffset <= Promise!committedOffset'
      ]_(Promise!vars)
      => (offsets' = offsets \/ Forward)
  <2>1. Promise!committedOffset = committedOffset /\ Promise!committedOffset' = committedOffset'
    BY Zenon DEF Promise!committedOffset, committedOffset, Promise!First, First
  <2> QED BY <2>1 DEF Promise!hasCommittedOffset, hasCommittedOffset, Promise!vars,
                      Promise!queueVars
<1>5. /\ StoredInv /\ Promise!TypeOK /\ Promise!TypeOK' /\ [Next]_vars
      /\ [Promise!Next]_(Promise!vars)
      /\ (offsets' = offsets \/ Forward)
      => StoredInv'
  <2> SUFFICES ASSUME StoredInv, Promise!TypeOK, Promise!TypeOK', [Next]_vars,
                      [Promise!Next]_(Promise!vars), offsets' = offsets \/ Forward
               PROVE  StoredInv'
    OBVIOUS
  <2>1. messageModel' = messageModel /\ (messageModel # "BROADCASTING" => offsets' = offsets)
    BY DEF Promise!Next, Promise!Deliver, Promise!LockForCaching, Promise!Take, Promise!take,
           Promise!Cache, Promise!cacheMessage, Promise!ReleaseQuota, Promise!releaseQuota,
           Promise!ReleaseOffset, Promise!releaseOffset, Promise!vars, Promise!queueVars
  <2>2. hasCommittedOffset => hasCommittedOffset' /\ committedOffset <= committedOffset'
    <3>1. CASE offsets' = offsets
      BY <3>1, <1>1 DEF hasCommittedOffset, committedOffset
    <3> QED BY <3>1
  <2>3. \/ stored' = stored
        \/ hasCommittedOffset /\ stored' = committedOffset
    BY StillSteps DEF Next, onSuccess, dispatch, submitConsumeTask, Cache, consumeTask,
           runTask, consumeMessage, releaseMessage, settleMessage, commitOffset, ackVars
  <2>4. stored' \in Nat \cup {-1}
    BY <1>1, <2>3 DEF StoredInv
  <2>5. messageModel' # "BROADCASTING" => offsets' = {} /\ stored' = -1
    BY <2>1, <2>3 DEF StoredInv, hasCommittedOffset
  <2>6. stored' # -1 => hasCommittedOffset' /\ stored' <= committedOffset'
    BY <1>1, <1>2, <2>2, <2>3 DEF StoredInv
  <2> QED BY <2>4, <2>5, <2>6 DEF StoredInv
<1>6. StoredInv /\ StandardInv /\ Promise!TypeOK /\ Promise!CommittedSafe => StoredOffsetSafe
  <2> SUFFICES ASSUME StoredInv, StandardInv, Promise!TypeOK, Promise!CommittedSafe,
                      NEW m \in batch \cup cached \cup InTasks
               PROVE  stored <= m
    BY DEF StoredOffsetSafe
  <2>1. m \in Nat
    <3>1. m \in batch \cup cached \cup Stored
      BY TakenIsRest DEF TakenNow
    <3> QED BY <3>1, QueueAssumption DEF StandardInv, StandardType, Stored
  <2>2. CASE stored = -1
    BY <2>1, <2>2
  <2>3. CASE stored # -1
    <3>1. messageModel = "BROADCASTING" /\ hasCommittedOffset /\ stored <= committedOffset
      BY <2>3 DEF StoredInv
    <3>2. Promise!committedOffset = committedOffset
      BY Zenon DEF Promise!committedOffset, committedOffset, Promise!First, First
    <3>3. committedOffset <= m
      BY <3>1, <3>2 DEF Promise!CommittedSafe, Promise!Live, Promise!hasCommittedOffset,
                        hasCommittedOffset
    <3> QED BY <1>1, <2>1, <3>1, <3>3 DEF StoredInv
  <2> QED BY <2>2, <2>3
<1> QED BY <1>3, <1>4, <1>5, <1>6, StandardInvariant, StandardUsesQueueCorrectly, SameProtocol,
           Promise!TypeCorrect, Promise!CommittedIsSafe, Promise!CommittedIsMonotone,
           QueueAssumption, PTL
        DEF Spec, UsesQueueCorrectly, Promise!Spec, Promise!CommittedMonotone,
            Promise!QueueAssumption

-----------------------------------------------------------------------------
(* What shutdown() leaves behind *)

\* What the thread that called shutdown() knows after each of its steps.  The
\* queued tasks are not empty: they can only no longer be run.
StopInv ==
  /\ stopper # "none" => state \in {"STOPPING", "STOPPED"}
  /\ stopper \in {"pool", "join", "done"} => poolState # "STARTED"
  /\ stopper \in {"join", "done"} => \A w \in Workers : worker[w] = Idle
  /\ stopper = "done" => dispatcher = "exited"

\* A pool thread that works is not idle, and none begins once the pool stops.
LEMMA StopThreadStep ==
  ASSUME StopInv, NEW w \in Workers, consumeTask(w)
  PROVE  stopper \notin {"join", "done"} /\ UNCHANGED serviceVars
<1>1. UNCHANGED serviceVars
  BY DEF consumeTask, runTask, consumeMessage, releaseMessage, settleMessage, commitOffset
<1>2. poolState = "STARTED" \/ worker[w].pc # "idle"
  BY DEF consumeTask, runTask, consumeMessage, releaseMessage, settleMessage, commitOffset
<1> QED BY <1>1, <1>2 DEF StopInv, Idle

\* Every step of the service keeps StopInv.
LEMMA StopInductive == StopInv /\ [Next]_vars => StopInv'
<1> SUFFICES ASSUME StopInv, [Next]_vars PROVE StopInv'
  OBVIOUS
<1>1. CASE startBase \/ startDone
  BY <1>1 DEF startBase, startDone, StopInv
<1>2. CASE shutdown \/ shutdownBase
  BY <1>2 DEF shutdown, shutdownBase, StopInv
<1>3. CASE joinPool
  BY <1>3 DEF joinPool, StopInv
<1>4. CASE joinDispatcher
  BY <1>4 DEF joinDispatcher, StopInv
<1>5. CASE dispatch
  <2>1. dispatcher # "exited" /\ UNCHANGED <<state, poolState, stopper, worker>>
    BY <1>5 DEF dispatch, dispatchLoop, dispatchWake, iterateProcessQueue, submitConsumeTask
  <2> QED BY <2>1 DEF StopInv
<1>6. ASSUME NEW w \in Workers, consumeTask(w) PROVE StopInv'
  BY <1>6, StopThreadStep DEF StopInv, serviceVars
<1>7. CASE \/ checkThrottleThenReceive \/ dropAnswer \/ removeQueue \/ UNCHANGED vars
           \/ \E items \in SUBSET Messages : onSuccess(items)
           \/ \E m \in Messages : Cache(m)
  <2>1. UNCHANGED <<state, poolState, dispatcher, stopper, worker>>
    BY <1>7 DEF checkThrottleThenReceive, dropAnswer, removeQueue, onSuccess, Cache, vars, serviceVars
  <2> QED BY <2>1 DEF StopInv
<1> QED BY <1>1, <1>2, <1>3, <1>4, <1>5, <1>6, <1>7 DEF Next

\* After ConsumeStandardMessageService::shutdown has returned, the dispatcher has
\* exited, no pool thread takes a task and nothing more is settled or stored,
\* whatever was queued, running or on the wire when it was called.
THEOREM StandardQuietAfterShutdown == Spec => QuietAfterShutdown
<1>1. Init => StopInv
  BY DEF Init, StopInv
<1>2. StopInv /\ [Next]_vars =>
        [stopper = "done" => UNCHANGED <<dispatcher, tasks, worker, nacked, committed, stored>>]_vars
  <2> SUFFICES ASSUME StopInv, Next, stopper = "done"
               PROVE  UNCHANGED <<dispatcher, tasks, worker, nacked, committed, stored>>
    OBVIOUS
  <2>1. ~startBase
    BY DEF startBase, StopInv
  <2>2. ~shutdown /\ ~shutdownBase /\ ~joinPool /\ ~joinDispatcher
    BY DEF shutdown, shutdownBase, joinPool, joinDispatcher
  <2>3. ~dispatch
    BY DEF dispatch, dispatchLoop, dispatchWake, iterateProcessQueue, submitConsumeTask, StopInv
  <2>4. \A w \in Workers : ~consumeTask(w)
    BY StopThreadStep
  <2>5. \/ startDone \/ checkThrottleThenReceive \/ dropAnswer \/ removeQueue
        \/ \E items \in SUBSET Messages : onSuccess(items)
        \/ \E m \in Messages : Cache(m)
    BY <2>1, <2>2, <2>3, <2>4 DEF Next
  <2> QED BY <2>5 DEF startDone, checkThrottleThenReceive, dropAnswer, removeQueue, onSuccess,
                      Cache, serviceVars, ackVars
<1> QED BY <1>1, <1>2, StopInductive, PTL DEF Spec, QuietAfterShutdown

==============================================================================
