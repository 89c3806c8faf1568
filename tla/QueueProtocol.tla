---------------------------- MODULE QueueProtocol ----------------------------
(***************************************************************************)
(* How ProcessQueueImpl is meant to be used, and what it then promises:    *)
(* a receive callback caches batches of new messages, threads take         *)
(* messages and release each of them once, in any order and concurrently.  *)
(* The two consume services are checked against this specification.        *)
(***************************************************************************)
EXTENDS ProcessQueue, Functions

VARIABLES
  delivered,  \* messages handed to cacheMessages so far
  taken,      \* taken and not yet released: these still hold their quota
  releasing   \* inside release, between its two halves

vars == <<queueVars, delivered, taken, releasing>>

\* Accepted messages that are somewhere between the cache and release's end.
Live == cached \cup taken \cup releasing

Init ==
  /\ QueueInit
  /\ delivered = {}
  /\ taken = {}
  /\ releasing = {}

\* A receive request is answered with messages newer than those before.
Deliver(msgs) ==
  /\ \A m \in msgs, k \in delivered : m > k
  /\ LockForCaching(msgs)
  /\ delivered' = delivered \cup msgs
  /\ UNCHANGED <<taken, releasing>>

Cache(m) == cacheMessage(m) /\ UNCHANGED <<delivered, taken, releasing>>

\* take with any batch_size moves a prefix of the cache to a consume task.
Take(msgs) ==
  /\ take(msgs)
  /\ \A m \in msgs, k \in cached \ msgs : m < k
  /\ taken' = taken \cup msgs
  /\ UNCHANGED <<delivered, releasing>>

ReleaseQuota(m) ==
  /\ m \in taken
  /\ releaseQuota(m)
  /\ taken' = taken \ {m}
  /\ releasing' = releasing \cup {m}
  /\ UNCHANGED delivered

ReleaseOffset(m) ==
  /\ m \in releasing
  /\ releaseOffset(m)
  /\ releasing' = releasing \ {m}
  /\ UNCHANGED <<delivered, taken>>

Next ==
  \/ \E msgs \in SUBSET Messages : Deliver(msgs)
  \/ \E msgs \in SUBSET cached : Take(msgs)
  \/ \E m \in Messages : Cache(m) \/ ReleaseQuota(m) \/ ReleaseOffset(m)

Spec == Init /\ [][Next]_vars

-----------------------------------------------------------------------------
\* The variables hold sets of messages and integers; no thread holds a message
\* outside the deliveries made (state of ProcessQueueImpl and its callers).
TypeOK ==
  /\ QueueTypeOK
  /\ delivered \in SUBSET Messages
  /\ taken \in SUBSET Messages
  /\ releasing \in SUBSET Messages

\* The number of messages charged to the queue (cached_message_quantity_) is
\* exactly the number in the cache or in the hands of a consume task, whatever
\* the interleaving of cacheMessages, take and the lock-free half of release.
QuantityExact == quantity = Cardinality(cached \cup taken)

\* The same for the bytes charged to the queue (cached_message_memory_).
MemoryExact == memory = SumFunctionOnSet(BodySize, cached \cup taken)

\* offsets_ has an unreleased record for exactly the live messages, or, when
\* there is none, at most the record of the offset released last: the relation
\* between the set and the messages that committedOffset and release rely on.
OffsetsTrackLive ==
  messageModel = "BROADCASTING" =>
    \/ offsets = {[offset |-> m, released |-> FALSE] : m \in Live}
    \/ /\ Live = {}
       /\ \E m \in delivered \ batch : offsets = {[offset |-> m, released |-> TRUE]}

\* The offset handed to the offset store never passes a message that was
\* received and is not released yet, so that a restart from it skips none.
CommittedSafe ==
  messageModel = "BROADCASTING" /\ hasCommittedOffset =>
    \A m \in Live \cup batch : committedOffset <= m

\* The assertion of release (assert(offsets_.begin()->offset_ == offset)) holds
\* whenever it is evaluated.
ReleaseAssertion ==
  messageModel = "BROADCASTING" =>
    \A m \in releasing :
      Cardinality(offsets) <= 1 => {r.offset : r \in offsets} = {m}

\* Once there is a committed offset there is always one, and it never moves
\* back, although a release replaces the first record of offsets_ and
\* cacheMessages erases the record released last.
CommittedMonotone ==
  [][hasCommittedOffset =>
       hasCommittedOffset' /\ committedOffset <= committedOffset']_vars

=============================================================================
