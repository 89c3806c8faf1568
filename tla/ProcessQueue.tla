---------------------------- MODULE ProcessQueue ----------------------------
(***************************************************************************)
(* The local cache of one message queue: class ProcessQueueImpl.           *)
(*                                                                         *)
(* The module holds the object's state and the effect of each of its       *)
(* methods; it has no specification of its own.  QueueProtocol adds the    *)
(* callers the class expects, ConsumeStandard and ConsumeFifo the callers  *)
(* it really has.                                                          *)
(*                                                                         *)
(* A message is the number of its delivery.  Deliveries to one queue are   *)
(* numbered in order (in PULL mode the number is the queue offset), so the *)
(* vector cached_messages_ is the set of its elements, read from the       *)
(* smallest.                                                               *)
(***************************************************************************)
EXTENDS Integers, FiniteSets

CONSTANTS
  Messages,                  \* deliveries that may reach this queue
  Accepted,                  \* messages that pass filter_expression_
  BodySize,                  \* body size of each message
  MaxCachedMessageQuantity,  \* consumer->maxCachedMessageQuantity()
  MaxCachedMessageMemory     \* consumer->maxCachedMessageMemory(); 0: no limit

ASSUME QueueAssumption ==
  /\ Messages \subseteq Nat
  /\ Accepted \subseteq Messages
  /\ BodySize \in [Messages -> Nat]
  /\ MaxCachedMessageQuantity \in Nat
  /\ MaxCachedMessageMemory \in Nat

VARIABLES
  messageModel,  \* consumer->messageModel(), set before the consumer starts
  cached,    \* cached_messages_
  quantity,  \* cached_message_quantity_
  memory,    \* cached_message_memory_
  offsets,   \* offsets_, a std::set ordered by the offset alone
  batch      \* what cacheMessages still has to put in; the two mutexes
             \* messages_mtx_ and offsets_mtx_ are held while it is not empty

queueVars == <<messageModel, cached, quantity, memory, offsets, batch>>

OffsetRecord == [offset : Nat, released : BOOLEAN]

QueueTypeOK ==
  /\ messageModel \in {"CLUSTERING", "BROADCASTING"}
  /\ cached \in SUBSET Messages
  /\ quantity \in Int
  /\ memory \in Int
  /\ offsets \in SUBSET OffsetRecord
  /\ batch \in SUBSET Messages

QueueInit ==
  /\ messageModel \in {"CLUSTERING", "BROADCASTING"}
  /\ cached = {}
  /\ quantity = 0
  /\ memory = 0
  /\ offsets = {}
  /\ batch = {}

-----------------------------------------------------------------------------
Unlocked == batch = {}

\* The elements of S in the order of the vector: m is the next one.
IsFirst(m, S) == m \in S /\ \A k \in S : m <= k

shouldThrottle ==
  \/ quantity >= MaxCachedMessageQuantity
  \/ MaxCachedMessageMemory # 0 /\ memory >= MaxCachedMessageMemory

hasPendingMessages == cached # {}

\* std::set::emplace keeps the record that is there already.
Emplace(recs, rec) ==
  IF \E r \in recs : r.offset = rec.offset THEN recs ELSE recs \cup {rec}

Erase(recs, offset) == {r \in recs : r.offset # offset}

\* Mutant: the record of the offset released last stays.
WithoutReleased_Kept(recs) == recs

\* Drops the record that only remembers the offset released last.
WithoutReleased(recs) ==
  IF Cardinality(recs) = 1 THEN {r \in recs : ~r.released} ELSE recs

\* The callback hands over a list of messages: cacheMessages takes the locks.
LockForCaching(msgs) ==
  /\ Unlocked
  /\ batch' = msgs
  /\ UNCHANGED <<messageModel, cached, quantity, memory, offsets>>

\* Mutant: a message that the filter rejects is counted.
cacheMessage_CountsRejected(m) ==
  /\ IsFirst(m, batch)
  /\ batch' = batch \ {m}
  /\ quantity' = quantity + 1
  /\ UNCHANGED <<messageModel, cached, memory, offsets>>

\* One turn of the loop of cacheMessages.  The counters are atomics that are
\* read and decremented without the locks, hence one step per message.
cacheMessage(m) ==
  /\ IsFirst(m, batch)
  /\ batch' = batch \ {m}
  /\ UNCHANGED messageModel
  /\ IF m \in Accepted
       THEN /\ cached' = cached \cup {m}
            /\ quantity' = quantity + 1
            /\ memory' = memory + BodySize[m]
            /\ offsets' =
                 IF messageModel = "BROADCASTING"
                   THEN Emplace(WithoutReleased(offsets),
                                [offset |-> m, released |-> FALSE])
                   ELSE offsets
       ELSE UNCHANGED <<cached, quantity, memory, offsets>>

\* The messages a call of take(batch_size, ...) moves out of the cache.
Taken(batch_size) ==
  {m \in cached : Cardinality({k \in cached : k < m}) < batch_size}

take(msgs) ==
  /\ Unlocked
  /\ cached' = cached \ msgs
  /\ UNCHANGED <<messageModel, quantity, memory, offsets, batch>>

\* What take returns.
HasMore(msgs) == cached \ msgs # {}

\* Mutant: the memory is not given back.
releaseQuota_KeepsMemory(m) ==
  /\ quantity' = quantity - 1
  /\ UNCHANGED <<messageModel, cached, memory, offsets, batch>>

\* The first half of release: two atomic counters, no lock.
releaseQuota(m) ==
  /\ quantity' = quantity - 1
  /\ memory' = memory - BodySize[m]
  /\ UNCHANGED <<messageModel, cached, offsets, batch>>

\* Mutant: the first record is erased, not the one of the message.
releaseOffset_First(m) ==
  /\ Unlocked
  /\ offsets' = IF Cardinality(offsets) > 1
                  THEN {r \in offsets : \E s \in offsets : s.offset < r.offset}
                  ELSE {[offset |-> m, released |-> TRUE]}
  /\ UNCHANGED <<messageModel, cached, quantity, memory, batch>>

\* Mutant: the last record is erased and not replaced.
releaseOffset_Forgets(m) ==
  /\ Unlocked
  /\ offsets' = Erase(offsets, m)
  /\ UNCHANGED <<messageModel, cached, quantity, memory, batch>>

\* The second half of release, under offsets_mtx_.
releaseOffset(m) ==
  /\ offsets' =
       IF messageModel # "BROADCASTING" THEN offsets
       ELSE IF Cardinality(offsets) > 1 THEN Erase(offsets, m)
       ELSE Emplace(Erase(offsets, m), [offset |-> m, released |-> TRUE])
  /\ messageModel = "BROADCASTING" => Unlocked
  /\ UNCHANGED <<messageModel, cached, quantity, memory, batch>>

\* committedOffset returns false when there is no record.
hasCommittedOffset == offsets # {}

First(recs) == CHOOSE r \in recs : \A s \in recs : r.offset <= s.offset

\* Mutant: the offset after the first record, released or not.
committedOffset_Next == First(offsets).offset + 1

committedOffset ==
  IF First(offsets).released THEN First(offsets).offset + 1
                             ELSE First(offsets).offset

=============================================================================
