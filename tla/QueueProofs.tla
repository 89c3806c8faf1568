----------------------------- MODULE QueueProofs -----------------------------
(***************************************************************************)
(* Proofs about QueueProtocol, for every set of messages, every filter and *)
(* every assignment of body sizes.                                         *)
(***************************************************************************)
EXTENDS QueueProtocol, DataProofs

\* The first record of offsets_ has the smallest offset.
LEMMA FirstIsLeast ==
  ASSUME NEW recs \in SUBSET OffsetRecord, recs # {}
  PROVE  First(recs) \in recs /\ \A s \in recs : First(recs).offset <= s.offset
<1>1. \E r \in recs : \A s \in recs : r.offset <= s.offset
  BY LeastRecord DEF OffsetRecord
<1> QED BY <1>1 DEF First

-----------------------------------------------------------------------------
\* Where a delivered message can be: the batch, the cache, a task and the two
\* halves of release are disjoint, and the batch comes after all the others.
Stages ==
  /\ batch \subseteq delivered
  /\ Live \subseteq delivered \ batch
  /\ cached \cap taken = {}
  /\ cached \cap releasing = {}
  /\ taken \cap releasing = {}
  /\ \A m \in batch, k \in delivered \ batch : k < m
  /\ IsFiniteSet(cached \cup taken)
  /\ IsFiniteSet(releasing)

\* The variables keep their types in every step of the queue and its callers.
THEOREM TypeCorrect == Spec => []TypeOK
<1> USE QueueAssumption
<1>1. Init => TypeOK
  BY DEF Init, QueueInit, TypeOK, QueueTypeOK
<1>2. TypeOK /\ [Next]_vars => TypeOK'
  <2> SUFFICES ASSUME TypeOK, [Next]_vars PROVE TypeOK'
    OBVIOUS
  <2> USE DEF TypeOK, QueueTypeOK
  <2>1. ASSUME NEW msgs \in SUBSET Messages, Deliver(msgs) PROVE TypeOK'
    BY <2>1 DEF Deliver, LockForCaching
  <2>2. ASSUME NEW msgs \in SUBSET cached, Take(msgs) PROVE TypeOK'
    BY <2>2 DEF Take, take
  <2>3. ASSUME NEW m \in Messages, Cache(m) PROVE TypeOK'
    <3>1. [offset |-> m, released |-> FALSE] \in OffsetRecord
      BY DEF OffsetRecord
    <3>2. WithoutReleased(offsets) \in SUBSET OffsetRecord
      BY DEF WithoutReleased
    <3>3. Emplace(WithoutReleased(offsets), [offset |-> m, released |-> FALSE])
            \in SUBSET OffsetRecord
      BY <3>1, <3>2 DEF Emplace
    <3>4. offsets' \in SUBSET OffsetRecord
      BY <2>3, <3>3 DEF Cache, cacheMessage
    <3>5. cached' \in SUBSET Messages /\ quantity' \in Int /\ memory' \in Int
      <4>1. BodySize[m] \in Int
        OBVIOUS
      <4>2. CASE m \in Accepted
        <5>1. /\ cached' = cached \cup {m}
              /\ quantity' = quantity + 1
              /\ memory' = memory + BodySize[m]
          BY <2>3, <4>2 DEF Cache, cacheMessage
        <5> QED BY <5>1, <4>1
      <4>3. CASE m \notin Accepted
        BY <2>3, <4>3 DEF Cache, cacheMessage
      <4> QED BY <4>2, <4>3
    <3> QED BY <2>3, <3>4, <3>5 DEF Cache, cacheMessage
  <2>4. ASSUME NEW m \in Messages, ReleaseQuota(m) PROVE TypeOK'
    BY <2>4 DEF ReleaseQuota, releaseQuota
  <2>5. ASSUME NEW m \in Messages, ReleaseOffset(m) PROVE TypeOK'
    <3>1. [offset |-> m, released |-> TRUE] \in OffsetRecord
      BY DEF OffsetRecord
    <3>2. Erase(offsets, m) \in SUBSET OffsetRecord
      BY DEF Erase
    <3>3. Emplace(Erase(offsets, m), [offset |-> m, released |-> TRUE])
            \in SUBSET OffsetRecord
      BY <3>1, <3>2 DEF Emplace
    <3> QED BY <2>5, <3>2, <3>3 DEF ReleaseOffset, releaseOffset
  <2>6. CASE UNCHANGED vars
    BY <2>6 DEF vars, queueVars
  <2> QED BY <2>1, <2>2, <2>3, <2>4, <2>5, <2>6 DEF Next
<1> QED BY <1>1, <1>2, PTL DEF Spec

\* Every message is in one place at a time.
THEOREM StagesInvariant == Spec => []Stages
<1> USE QueueAssumption
<1>1. Init => Stages
  BY FS_EmptySet DEF Init, QueueInit, Stages, Live
<1>2. TypeOK /\ Stages /\ [Next]_vars => Stages'
  <2> SUFFICES ASSUME TypeOK, Stages, [Next]_vars PROVE Stages'
    OBVIOUS
  <2> USE DEF TypeOK, QueueTypeOK, Stages, Live
  <2>1. ASSUME NEW msgs \in SUBSET Messages, Deliver(msgs) PROVE Stages'
    <3>1. UNCHANGED <<cached, taken, releasing>>
      BY <2>1 DEF Deliver, LockForCaching
    <3>2. IsFiniteSet(cached \cup taken)' /\ IsFiniteSet(releasing)'
      BY <3>1
    <3> QED BY <2>1, <3>1, <3>2 DEF Deliver, LockForCaching, Unlocked
  <2>2. ASSUME NEW msgs \in SUBSET cached, Take(msgs) PROVE Stages'
    <3>1. (cached \cup taken)' = cached \cup taken
      BY <2>2 DEF Take, take
    <3>2. IsFiniteSet(cached \cup taken)' /\ IsFiniteSet(releasing)'
      BY <2>2, <3>1 DEF Take
    <3> QED BY <2>2, <3>2 DEF Take, take
  <2>3. ASSUME NEW m \in Messages, Cache(m) PROVE Stages'
    <3>1. UNCHANGED <<delivered, taken, releasing>> /\ batch' = batch \ {m}
          /\ m \in batch /\ \A k \in batch : m <= k
          /\ (cached' = cached \/ cached' = cached \cup {m})
      BY <2>3 DEF Cache, cacheMessage, IsFirst
    <3>2. (cached \cup taken)' = cached \cup taken
          \/ (cached \cup taken)' = (cached \cup taken) \cup {m}
      BY <3>1
    <3>3. IsFiniteSet(cached \cup taken)' /\ IsFiniteSet(releasing)'
      BY <3>1, <3>2, FS_AddElement
    <3>4. \A n \in batch', k \in delivered' \ batch' : k < n
      BY <3>1
    <3> QED BY <3>1, <3>3, <3>4
  <2>4. ASSUME NEW m \in Messages, ReleaseQuota(m) PROVE Stages'
    <3>1. (cached \cup taken)' = (cached \cup taken) \ {m}
      BY <2>4 DEF ReleaseQuota, releaseQuota
    <3>2. releasing' = releasing \cup {m}
      BY <2>4 DEF ReleaseQuota
    <3>3. IsFiniteSet((cached \cup taken) \ {m})
      BY FS_RemoveElement
    <3>4. IsFiniteSet(releasing \cup {m})
      BY FS_AddElement
    <3>5. IsFiniteSet(cached \cup taken)' /\ IsFiniteSet(releasing)'
      BY <3>1, <3>2, <3>3, <3>4
    <3> QED BY <2>4, <3>5 DEF ReleaseQuota, releaseQuota
  <2>5. ASSUME NEW m \in Messages, ReleaseOffset(m) PROVE Stages'
    <3>1. UNCHANGED <<cached, taken, batch, delivered>> /\ releasing' = releasing \ {m}
      BY <2>5 DEF ReleaseOffset, releaseOffset
    <3>2. IsFiniteSet(cached \cup taken)' /\ IsFiniteSet(releasing)'
      BY <3>1, FS_RemoveElement
    <3> QED BY <3>1, <3>2
  <2>6. CASE UNCHANGED vars
    BY <2>6 DEF vars, queueVars
  <2> QED BY <2>1, <2>2, <2>3, <2>4, <2>5, <2>6 DEF Next
<1> QED BY <1>1, <1>2, TypeCorrect, PTL DEF Spec

\* The quota charged to the queue is the number of messages cached or in a
\* consume task, however cacheMessages, take and release interleave.
THEOREM QuantityCorrect == Spec => []QuantityExact
<1> USE QueueAssumption
<1>1. Init => QuantityExact
  BY FS_EmptySet DEF Init, QueueInit, QuantityExact
<1>2. TypeOK /\ Stages /\ QuantityExact /\ [Next]_vars => QuantityExact'
  <2> SUFFICES ASSUME TypeOK, Stages, QuantityExact, [Next]_vars
               PROVE QuantityExact'
    OBVIOUS
  <2> DEFINE held == cached \cup taken
  <2>0. IsFiniteSet(held) /\ quantity = Cardinality(held) /\ Cardinality(held) \in Nat
    BY FS_CardinalityType DEF Stages, QuantityExact
  <2>1. ASSUME NEW msgs \in SUBSET Messages, Deliver(msgs) PROVE QuantityExact'
    BY <2>1 DEF Deliver, LockForCaching, QuantityExact
  <2>2. ASSUME NEW msgs \in SUBSET cached, Take(msgs) PROVE QuantityExact'
    <3>1. held' = held /\ quantity' = quantity
      BY <2>2 DEF Take, take
    <3> QED BY <3>1, <2>0 DEF QuantityExact
  <2>3. ASSUME NEW m \in Messages, Cache(m) PROVE QuantityExact'
    <3>1. m \notin held
      BY <2>3 DEF Cache, cacheMessage, IsFirst, Stages, Live
    <3>2. CASE m \in Accepted
      <4>1. held' = held \cup {m} /\ quantity' = quantity + 1
        BY <2>3, <3>2 DEF Cache, cacheMessage
      <4>2. Cardinality(held \cup {m}) = Cardinality(held) + 1
        BY <2>0, <3>1, FS_AddElement
      <4> HIDE DEF held
      <4>3. Cardinality(held') = quantity'
        BY <4>1, <4>2, <2>0
      <4> QED BY <4>3 DEF held, QuantityExact
    <3>3. CASE m \notin Accepted
      BY <2>3, <3>3 DEF Cache, cacheMessage, QuantityExact
    <3> QED BY <3>2, <3>3
  <2>4. ASSUME NEW m \in Messages, ReleaseQuota(m) PROVE QuantityExact'
    <3>1. held' = held \ {m} /\ quantity' = quantity - 1 /\ m \in held
      BY <2>4 DEF ReleaseQuota, releaseQuota, Stages
    <3>2. Cardinality(held \ {m}) = Cardinality(held) - 1
      BY <2>0, <3>1, FS_RemoveElement
    <3> HIDE DEF held
    <3>3. Cardinality(held') = quantity'
      BY <3>1, <3>2, <2>0
    <3> QED BY <3>3 DEF held, QuantityExact
  <2>5. ASSUME NEW m \in Messages, ReleaseOffset(m) PROVE QuantityExact'
    BY <2>5 DEF ReleaseOffset, releaseOffset, QuantityExact
  <2>6. CASE UNCHANGED vars
    BY <2>6 DEF vars, queueVars, QuantityExact
  <2> QED BY <2>1, <2>2, <2>3, <2>4, <2>5, <2>6 DEF Next
<1> QED BY <1>1, <1>2, TypeCorrect, StagesInvariant, PTL DEF Spec

\* So are the bytes: the sum of the body sizes of these messages.
THEOREM MemoryCorrect == Spec => []MemoryExact
<1> USE QueueAssumption
<1> DEFINE held == cached \cup taken
           Sum(msgs) == SumFunctionOnSet(BodySize, msgs)
<1>1. Init => MemoryExact
  BY SumEmpty DEF Init, QueueInit, MemoryExact
<1>2. TypeOK /\ Stages /\ MemoryExact /\ [Next]_vars => MemoryExact'
  <2> SUFFICES ASSUME TypeOK, Stages, MemoryExact, [Next]_vars
               PROVE MemoryExact'
    OBVIOUS
  <2>1. IsFiniteSet(held) /\ memory = Sum(held) /\ held \in SUBSET Messages
    BY DEF Stages, MemoryExact, TypeOK, QueueTypeOK
  <2>2. \A m \in Messages : BodySize[m] \in Int
    OBVIOUS
  <2>3. ASSUME held' = held, memory' = memory PROVE MemoryExact'
    BY <2>1, <2>3 DEF MemoryExact
  <2>4. ASSUME NEW m \in Messages, Cache(m), m \in Accepted PROVE MemoryExact'
    <3>1. m \notin held
      BY <2>4 DEF Cache, cacheMessage, IsFirst, Stages, Live
    <3>2. held' = held \cup {m} /\ memory' = memory + BodySize[m]
      BY <2>4 DEF Cache, cacheMessage
    <3>3. Sum(held \cup {m}) = BodySize[m] + Sum(held) /\ Sum(held) \in Int
      BY <2>1, <2>2, <3>1, SumAdd, SumType
    <3>4. memory' = Sum(held')
      <4> HIDE DEF Sum, held
      <4> QED BY <2>1, <2>2, <3>2, <3>3
    <3> QED BY <3>4 DEF MemoryExact
  <2>5. ASSUME NEW m \in Messages, ReleaseQuota(m) PROVE MemoryExact'
    <3>1. held' = held \ {m} /\ memory' = memory - BodySize[m] /\ m \in held
      BY <2>5 DEF ReleaseQuota, releaseQuota, Stages
    <3>2. IsFiniteSet(held \ {m})
      BY <2>1, FS_Subset
    <3>3. Sum(held) = BodySize[m] + Sum(held \ {m}) /\ Sum(held \ {m}) \in Int
      BY <2>1, <2>2, <3>1, <3>2, SumRemove, SumType
    <3>4. memory' = Sum(held')
      <4> HIDE DEF Sum, held
      <4> QED BY <2>1, <2>2, <3>1, <3>3
    <3> QED BY <3>4 DEF MemoryExact
  <2>6. CASE \E msgs \in SUBSET Messages : Deliver(msgs)
    BY <2>3, <2>6 DEF Deliver, LockForCaching
  <2>7. CASE \E msgs \in SUBSET cached : Take(msgs)
    BY <2>3, <2>7 DEF Take, take
  <2>8. ASSUME NEW m \in Messages, Cache(m), m \notin Accepted PROVE MemoryExact'
    BY <2>3, <2>8 DEF Cache, cacheMessage
  <2>9. ASSUME NEW m \in Messages, ReleaseOffset(m) PROVE MemoryExact'
    BY <2>3, <2>9 DEF ReleaseOffset, releaseOffset
  <2>10. CASE UNCHANGED vars
    BY <2>3, <2>10 DEF vars, queueVars
  <2> QED BY <2>4, <2>5, <2>6, <2>7, <2>8, <2>9, <2>10 DEF Next
<1> QED BY <1>1, <1>2, TypeCorrect, StagesInvariant, PTL DEF Spec

-----------------------------------------------------------------------------
Unreleased(msgs) == {[offset |-> m, released |-> FALSE] : m \in msgs}

\* OffsetsTrackLive with what its induction needs: the set is finite.
OffsetsInv ==
  messageModel = "BROADCASTING" =>
    /\ IsFiniteSet(offsets)
    /\ \/ offsets = Unreleased(Live)
       \/ /\ Live = {}
          /\ \E k \in delivered \ batch :
               offsets = {[offset |-> k, released |-> TRUE]}

\* No method of the queue changes the message model of its consumer.
LEMMA ModelFixed == [Next]_vars => messageModel' = messageModel
BY DEF Next, Deliver, LockForCaching, Take, take, Cache, cacheMessage,
       ReleaseQuota, releaseQuota, ReleaseOffset, releaseOffset, vars, queueVars

\* The strengthened invariant of offsets_ holds in every state: release and
\* cacheMessages keep one record per live message, whatever their interleaving.
LEMMA OffsetsInductive == Spec => []OffsetsInv
<1> USE QueueAssumption
<1>1. Init => OffsetsInv
  BY FS_EmptySet DEF Init, QueueInit, OffsetsInv, Unreleased, Live
<1>2. TypeOK /\ Stages /\ OffsetsInv /\ [Next]_vars => OffsetsInv'
  <2> SUFFICES ASSUME TypeOK, Stages, OffsetsInv, [Next]_vars,
                      messageModel = "BROADCASTING"
               PROVE OffsetsInv'
    BY ModelFixed DEF OffsetsInv
  <2>1. ASSUME NEW msgs \in SUBSET Messages, Deliver(msgs) PROVE OffsetsInv'
    <3>1. UNCHANGED <<offsets, cached, taken, releasing>>
      BY <2>1 DEF Deliver, LockForCaching
    <3>2. Live' = Live /\ delivered \ batch \subseteq delivered' \ batch'
      BY <2>1, <3>1 DEF Deliver, LockForCaching, Unlocked, Live, TypeOK, QueueTypeOK
    <3> QED BY <3>1, <3>2 DEF OffsetsInv
  <2>2. ASSUME NEW msgs \in SUBSET cached, Take(msgs) PROVE OffsetsInv'
    <3>1. UNCHANGED <<offsets, delivered, batch>> /\ Live' = Live
      BY <2>2 DEF Take, take, Live
    <3> QED BY <3>1 DEF OffsetsInv
  <2>3. ASSUME NEW m \in Messages, Cache(m) PROVE OffsetsInv'
    <3>1. UNCHANGED <<delivered, taken, releasing>> /\ batch' = batch \ {m} /\ m \in batch
      BY <2>3 DEF Cache, cacheMessage, IsFirst
    <3>2. CASE m \in Accepted
      <4>1. Live' = Live \cup {m}
        BY <2>3, <3>1, <3>2 DEF Cache, cacheMessage, Live
      <4>2. m \notin Live
        BY <3>1 DEF Stages
      <4>3. WithoutReleased(offsets) = Unreleased(Live) /\ IsFiniteSet(Unreleased(Live))
        <5>1. CASE offsets = Unreleased(Live)
          BY <5>1 DEF OffsetsInv, WithoutReleased, Unreleased
        <5>2. ASSUME Live = {}, NEW k \in delivered \ batch,
                     offsets = {[offset |-> k, released |-> TRUE]}
              PROVE  WithoutReleased(offsets) = Unreleased(Live)
                     /\ IsFiniteSet(Unreleased(Live))
          <6>1. Cardinality(offsets) = 1
            BY <5>2, FS_Singleton
          <6>2. WithoutReleased(offsets) = {} /\ Unreleased(Live) = {}
            BY <5>2, <6>1 DEF WithoutReleased, Unreleased
          <6> QED BY <6>2, FS_EmptySet
        <5> QED BY <5>1, <5>2 DEF OffsetsInv
      <4>4. offsets' = Unreleased(Live) \cup {[offset |-> m, released |-> FALSE]}
        <5>1. \A r \in Unreleased(Live) : r.offset # m
          BY <4>2 DEF Unreleased
        <5> QED BY <2>3, <3>2, <4>3, <5>1 DEF Cache, cacheMessage, Emplace
      <4>5. offsets' = Unreleased(Live')
        BY <4>1, <4>4 DEF Unreleased
      <4>6. IsFiniteSet(offsets')
        BY <4>3, <4>4, FS_AddElement
      <4> QED BY <4>5, <4>6 DEF OffsetsInv
    <3>3. CASE m \notin Accepted
      <4>1. UNCHANGED <<offsets, cached>>
        BY <2>3, <3>3 DEF Cache, cacheMessage
      <4>2. Live' = Live /\ delivered \ batch \subseteq delivered' \ batch'
        BY <3>1, <4>1 DEF Live
      <4> QED BY <4>1, <4>2 DEF OffsetsInv
    <3> QED BY <3>2, <3>3
  <2>4. ASSUME NEW m \in Messages, ReleaseQuota(m) PROVE OffsetsInv'
    <3>1. UNCHANGED <<offsets, delivered, batch>> /\ Live' = Live
      BY <2>4 DEF ReleaseQuota, releaseQuota, Live
    <3> QED BY <3>1 DEF OffsetsInv
  <2>5. ASSUME NEW m \in Messages, ReleaseOffset(m) PROVE OffsetsInv'
    <3>1. UNCHANGED <<delivered, batch, cached, taken>> /\ m \in releasing
          /\ releasing' = releasing \ {m}
      BY <2>5 DEF ReleaseOffset, releaseOffset
    <3>2. Live' = Live \ {m} /\ m \in Live /\ m \in delivered \ batch
      BY <3>1 DEF Live, Stages
    <3>3. offsets = Unreleased(Live) /\ IsFiniteSet(offsets)
      BY <3>2 DEF OffsetsInv
    <3>4. Erase(offsets, m) = Unreleased(Live')
      BY <3>2, <3>3 DEF Erase, Unreleased
    <3>5. IsFiniteSet(Erase(offsets, m))
      BY <3>3, FS_Subset DEF Erase
    <3>6. CASE Cardinality(offsets) > 1
      <4>1. offsets' = Erase(offsets, m)
        BY <2>5, <3>6 DEF ReleaseOffset, releaseOffset
      <4> QED BY <3>4, <3>5, <4>1 DEF OffsetsInv
    <3>7. CASE ~(Cardinality(offsets) > 1)
      <4>1. [offset |-> m, released |-> FALSE] \in offsets
        BY <3>2, <3>3 DEF Unreleased
      <4>2. Cardinality(offsets) \in Nat /\ Cardinality(offsets) # 0
        BY <3>3, <4>1, FS_CardinalityType, FS_EmptySet
      <4>3. Cardinality(offsets) = 1
        BY <3>7, <4>2
      <4>4. PICK x : offsets = {x}
        BY <3>3, <4>3, FS_Singleton
      <4>5. Live = {m}
        <5>1. ASSUME NEW k \in Live PROVE k = m
          <6>1. [offset |-> k, released |-> FALSE] \in offsets
            BY <3>3 DEF Unreleased
          <6>2. [offset |-> k, released |-> FALSE] = [offset |-> m, released |-> FALSE]
            BY <4>1, <4>4, <6>1
          <6>3. [offset |-> k, released |-> FALSE].offset = [offset |-> m, released |-> FALSE].offset
            BY <6>2
          <6> QED BY <6>3
        <5> QED BY <3>2, <5>1
      <4>6. offsets' = {[offset |-> m, released |-> TRUE]}
        <5>1. Erase(offsets, m) = {}
          BY <3>2, <3>4, <4>5 DEF Unreleased
        <5> QED BY <2>5, <3>7, <5>1 DEF ReleaseOffset, releaseOffset, Emplace
      <4>7. IsFiniteSet(offsets')
        BY <4>6, FS_Singleton
      <4> QED BY <3>1, <3>2, <4>5, <4>6, <4>7 DEF OffsetsInv
    <3> QED BY <3>6, <3>7
  <2>6. CASE UNCHANGED vars
    BY <2>6 DEF vars, queueVars, OffsetsInv, Live
  <2> QED BY <2>1, <2>2, <2>3, <2>4, <2>5, <2>6 DEF Next
<1> QED BY <1>1, <1>2, TypeCorrect, StagesInvariant, PTL DEF Spec

\* offsets_ always describes exactly the live messages, or the last release.
THEOREM OffsetsCorrect == Spec => []OffsetsTrackLive
<1>1. OffsetsInv => OffsetsTrackLive
  BY DEF OffsetsInv, OffsetsTrackLive, Unreleased
<1> QED BY <1>1, OffsetsInductive, PTL

\* The committed offset never passes a message that is not released: a
\* broadcasting consumer restarted from its offset store misses none.
THEOREM CommittedIsSafe == Spec => []CommittedSafe
<1> USE QueueAssumption
<1>1. TypeOK /\ Stages /\ OffsetsInv => CommittedSafe
  <2> SUFFICES ASSUME TypeOK, Stages, OffsetsInv, messageModel = "BROADCASTING",
                      hasCommittedOffset, NEW m \in Live \cup batch
               PROVE  committedOffset <= m
    BY DEF CommittedSafe
  <2>1. offsets \in SUBSET OffsetRecord /\ offsets # {} /\ m \in Nat
    BY DEF hasCommittedOffset, TypeOK, QueueTypeOK, Live
  <2>2. First(offsets) \in offsets /\ \A s \in offsets : First(offsets).offset <= s.offset
    BY <2>1, FirstIsLeast
  <2>3. CASE offsets = Unreleased(Live)
    <3>1. PICK k \in Live : First(offsets) = [offset |-> k, released |-> FALSE]
      BY <2>2, <2>3 DEF Unreleased
    <3>2. committedOffset = k
      BY <3>1 DEF committedOffset
    <3>3. CASE m \in Live
      <4>1. [offset |-> m, released |-> FALSE] \in offsets
        BY <2>3, <3>3 DEF Unreleased
      <4>2. First(offsets).offset <= [offset |-> m, released |-> FALSE].offset
        BY <2>2, <4>1
      <4> QED BY <3>1, <3>2, <4>2
    <3>4. CASE m \in batch
      BY <3>2, <3>4 DEF Stages, Live, TypeOK, QueueTypeOK
    <3> QED BY <3>3, <3>4
  <2>4. ASSUME Live = {}, NEW k \in delivered \ batch,
               offsets = {[offset |-> k, released |-> TRUE]}
        PROVE  committedOffset <= m
    <3>1. First(offsets) = [offset |-> k, released |-> TRUE]
      BY <2>2, <2>4
    <3>2. committedOffset = k + 1
      BY <3>1 DEF committedOffset
    <3>3. k < m /\ k \in Nat
      BY <2>4 DEF Stages, TypeOK, QueueTypeOK
    <3> QED BY <2>1, <3>2, <3>3
  <2> QED BY <2>3, <2>4 DEF OffsetsInv
<1> QED BY <1>1, TypeCorrect, StagesInvariant, OffsetsInductive, PTL

\* The assertion in release never fails.
THEOREM ReleaseAssertionHolds == Spec => []ReleaseAssertion
<1> USE QueueAssumption
<1>1. TypeOK /\ Stages /\ OffsetsInv => ReleaseAssertion
  <2> SUFFICES ASSUME TypeOK, Stages, OffsetsInv, messageModel = "BROADCASTING",
                      NEW m \in releasing, Cardinality(offsets) <= 1
               PROVE  {r.offset : r \in offsets} = {m}
    BY DEF ReleaseAssertion
  <2>1. m \in Live
    BY DEF Live
  <2>2. offsets = Unreleased(Live) /\ IsFiniteSet(offsets)
    BY <2>1 DEF OffsetsInv
  <2>3. [offset |-> m, released |-> FALSE] \in offsets
    BY <2>1, <2>2 DEF Unreleased
  <2>4. Cardinality(offsets) \in Nat /\ Cardinality(offsets) # 0
    BY <2>2, <2>3, FS_CardinalityType, FS_EmptySet
  <2>5. Cardinality(offsets) = 1
    BY <2>4
  <2>6. PICK x : offsets = {x}
    BY <2>2, <2>5, FS_Singleton
  <2>7. offsets = {[offset |-> m, released |-> FALSE]}
    BY <2>3, <2>6
  <2> QED BY <2>7
<1> QED BY <1>1, TypeCorrect, StagesInvariant, OffsetsInductive, PTL

\* The first record of the set of unreleased records is that of the smallest
\* message.
LEMMA FirstUnreleased ==
  ASSUME NEW L \in SUBSET Nat, L # {}
  PROVE  \E k \in L : /\ First(Unreleased(L)) = [offset |-> k, released |-> FALSE]
                     /\ \A l \in L : k <= l
<1> DEFINE recs == Unreleased(L)
<1>1. recs \in SUBSET OffsetRecord /\ recs # {}
  <2>1. PICK l \in L : TRUE
    OBVIOUS
  <2>2. [offset |-> l, released |-> FALSE] \in recs
    BY DEF Unreleased
  <2>3. \A k \in L : [offset |-> k, released |-> FALSE] \in OffsetRecord
    BY DEF OffsetRecord
  <2>4. recs \in SUBSET OffsetRecord
    BY <2>3 DEF Unreleased
  <2> QED BY <2>2, <2>4
<1>2. First(recs) \in recs /\ \A s \in recs : First(recs).offset <= s.offset
  BY <1>1, FirstIsLeast
<1>3. PICK k \in L : First(recs) = [offset |-> k, released |-> FALSE]
  BY <1>2 DEF Unreleased
<1>4. ASSUME NEW l \in L PROVE k <= l
  <2>1. [offset |-> l, released |-> FALSE] \in recs
    BY DEF Unreleased
  <2>2. First(recs).offset <= [offset |-> l, released |-> FALSE].offset
    BY <1>2, <2>1
  <2> QED BY <1>3, <2>2
<1> QED BY <1>3, <1>4

\* The value of committedOffset in the two shapes offsets_ can have.
LEMMA FirstReleased ==
  ASSUME NEW k PROVE First({[offset |-> k, released |-> TRUE]}) = [offset |-> k, released |-> TRUE]
BY DEF First

\* A committed offset is never lost and never moves back.
THEOREM CommittedIsMonotone == Spec => CommittedMonotone
<1> USE QueueAssumption
<1> DEFINE Forward == hasCommittedOffset =>
                        hasCommittedOffset' /\ committedOffset <= committedOffset'
<1>1. TypeOK /\ Stages /\ OffsetsInv /\ OffsetsInv' /\ Next => Forward
  <2> SUFFICES ASSUME TypeOK, Stages, OffsetsInv, OffsetsInv', Next, hasCommittedOffset
               PROVE  hasCommittedOffset' /\ committedOffset <= committedOffset'
    OBVIOUS
  <2>0. /\ Messages \subseteq Nat
        /\ Live \in SUBSET Nat
        /\ delivered \in SUBSET Nat
        /\ offsets # {}
        /\ First(offsets) \in OffsetRecord
    BY FirstIsLeast DEF TypeOK, QueueTypeOK, Live, hasCommittedOffset
  <2>1. ASSUME offsets' = offsets
        PROVE  hasCommittedOffset' /\ committedOffset <= committedOffset'
    <3>1. committedOffset \in Int
      BY <2>0 DEF committedOffset, OffsetRecord
    <3> QED BY <2>1, <2>0, <3>1 DEF hasCommittedOffset, committedOffset
  <2>2. CASE messageModel # "BROADCASTING"
    <3>1. offsets' = offsets
      BY <2>2 DEF Next, Deliver, LockForCaching, Take, take, Cache, cacheMessage,
                  ReleaseQuota, releaseQuota, ReleaseOffset, releaseOffset
    <3> QED BY <2>1, <3>1
  <2>3. ASSUME NEW m \in Messages, Cache(m), messageModel = "BROADCASTING"
        PROVE  hasCommittedOffset' /\ committedOffset <= committedOffset'
    <3>1. CASE m \notin Accepted
      BY <2>1, <2>3, <3>1 DEF Cache, cacheMessage
    <3>2. CASE m \in Accepted
      <4>1. Live' = Live \cup {m} /\ m \in batch
        BY <2>3, <3>2 DEF Cache, cacheMessage, IsFirst, Live
      <4>2. offsets' = Unreleased(Live \cup {m})
        BY <2>3, <4>1, ModelFixed DEF OffsetsInv
      <4>3. PICK k1 \in Live \cup {m} :
              First(offsets') = [offset |-> k1, released |-> FALSE]
        BY <2>0, <4>2, FirstUnreleased
      <4>4. committedOffset' = k1
        BY <4>3 DEF committedOffset
      <4>5. hasCommittedOffset'
        <5>1. [offset |-> m, released |-> FALSE] \in offsets'
          BY <4>2 DEF Unreleased
        <5> QED BY <5>1 DEF hasCommittedOffset
      <4>6. CASE offsets = Unreleased(Live)
        <5>1. Live # {}
          BY <2>0, <4>6 DEF Unreleased
        <5>2. PICK k \in Live : /\ First(offsets) = [offset |-> k, released |-> FALSE]
                               /\ \A l \in Live : k <= l
          BY <2>0, <4>6, <5>1, FirstUnreleased
        <5>3. committedOffset = k
          BY <5>2 DEF committedOffset
        <5>4. k < m
          BY <4>1, <5>2 DEF Stages
        <5> QED BY <2>0, <4>3, <4>4, <4>5, <5>2, <5>3, <5>4
      <4>7. ASSUME Live = {}, NEW k \in delivered \ batch,
                   offsets = {[offset |-> k, released |-> TRUE]}
            PROVE  committedOffset <= committedOffset'
        <5>0. First(offsets) = [offset |-> k, released |-> TRUE]
          BY <4>7, FirstReleased
        <5>1. committedOffset = k + 1
          BY <5>0 DEF committedOffset
        <5>2. k < m /\ k1 = m
          BY <4>1, <4>3, <4>7 DEF Stages
        <5> QED BY <2>0, <4>4, <4>7, <5>1, <5>2
      <4> QED BY <2>3, <4>5, <4>6, <4>7 DEF OffsetsInv
    <3> QED BY <3>1, <3>2
  <2>4. ASSUME NEW m \in Messages, ReleaseOffset(m), messageModel = "BROADCASTING"
        PROVE  hasCommittedOffset' /\ committedOffset <= committedOffset'
    <3>1. Live' = Live \ {m} /\ m \in Live
      BY <2>4 DEF ReleaseOffset, releaseOffset, Live, Stages
    <3>2. offsets = Unreleased(Live)
      BY <2>4, <3>1 DEF OffsetsInv
    <3>3. PICK k \in Live : /\ First(offsets) = [offset |-> k, released |-> FALSE]
                           /\ \A l \in Live : k <= l
      BY <2>0, <3>1, <3>2, FirstUnreleased
    <3>4. committedOffset = k
      BY <3>3 DEF committedOffset
    <3>5. CASE Live' # {}
      <4>1. offsets' = Unreleased(Live')
        BY <2>4, <3>5, ModelFixed DEF OffsetsInv
      <4>2. PICK k1 \in Live' : First(offsets') = [offset |-> k1, released |-> FALSE]
        BY <2>0, <3>1, <3>5, <4>1, FirstUnreleased
      <4>3. committedOffset' = k1
        BY <4>2 DEF committedOffset
      <4>4. offsets' # {}
        BY <3>5, <4>1 DEF Unreleased
      <4> QED BY <3>1, <3>3, <3>4, <4>2, <4>3, <4>4 DEF hasCommittedOffset
    <3>6. CASE Live' = {}
      <4>1. Live = {m} /\ k = m
        BY <3>1, <3>3, <3>6
      <4>2. offsets = {[offset |-> m, released |-> FALSE]}
        BY <3>2, <4>1 DEF Unreleased
      <4>3. Cardinality(offsets) = 1
        BY <4>2, FS_Singleton
      <4>4. Erase(offsets, m) = {}
        BY <4>2 DEF Erase
      <4>5. offsets' = {[offset |-> m, released |-> TRUE]}
        BY <2>4, <4>3, <4>4 DEF ReleaseOffset, releaseOffset, Emplace
      <4>6. committedOffset' = m + 1
        <5>1. First(offsets') = [offset |-> m, released |-> TRUE]
          BY <4>5, FirstReleased
        <5> QED BY <5>1 DEF committedOffset
      <4> QED BY <2>0, <3>4, <4>1, <4>5, <4>6 DEF hasCommittedOffset
    <3> QED BY <3>5, <3>6
  <2>5. ASSUME NEW msgs \in SUBSET Messages, Deliver(msgs) PROVE offsets' = offsets
    BY <2>5 DEF Deliver, LockForCaching
  <2>6. ASSUME NEW msgs \in SUBSET cached, Take(msgs) PROVE offsets' = offsets
    BY <2>6 DEF Take, take
  <2>7. ASSUME NEW m \in Messages, ReleaseQuota(m) PROVE offsets' = offsets
    BY <2>7 DEF ReleaseQuota, releaseQuota
  <2> QED BY <2>1, <2>2, <2>3, <2>4, <2>5, <2>6, <2>7 DEF Next
<1>2. TypeOK /\ Stages /\ OffsetsInv /\ OffsetsInv' /\ [Next]_vars => [Forward]_vars
  BY <1>1
<1> QED BY <1>2, TypeCorrect, StagesInvariant, OffsetsInductive, PTL
        DEF Spec, CommittedMonotone

=============================================================================
