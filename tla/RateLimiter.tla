----------------------------- MODULE RateLimiter -----------------------------
(***************************************************************************)
(* The limit on the messages of a topic consumed per second: a second is   *)
(* cut into slots, an observer thread fills the permits of a slot while it *)
(* passes, and each consume thread takes a permit for each message.        *)
(*                                                                         *)
(* The clock is read several times within acquire and once by tick before  *)
(* its lock, so that a slot may end between any two of their steps.        *)
(***************************************************************************)
EXTENDS Naturals, FiniteSets, Functions

CONSTANTS
    Workers,    \* threads of the consume service
    Partition,  \* slots of a second: the template parameter, 10 in the code
    Permit,     \* messages per second
    Limiters,   \* limiters the observer ticks, one after the other
    Word,       \* 2^32: permits_ holds uint32_t
    MaxUsed     \* bound of the history: more than this is counted as this

ASSUME LimiterAssumption ==
    /\ Partition \in Nat \ {0} /\ Permit \in Nat /\ Limiters \in Nat \ {0}
    /\ Word \in Nat /\ Permit < Word /\ MaxUsed \in Nat

VARIABLES
    now,        \* the slot the clock is in
    permits,    \* permits_
    worker,     \* where each thread is in acquire, and its idx
    ticker,     \* where the observer is: "asleep", or about to fill slot idx
    slept,      \* slots that ended since its last tick
    used,       \* history: permits taken in each of the last Partition slots, until crossed
    crossed     \* history: a slot ended between a test of cv_.wait and its take

limiterVars == <<now, permits, worker, ticker, slept, used, crossed>>

SlotIds == 0..(Partition - 1)

\* partition_: the average, and one more for the slots the remainder is spread to.
partition_(i) ==
    LET r == Permit % Partition
    IN  (Permit \div Partition)
            + IF r > 0 /\ \E k \in 0..(r - 1) : i = k * (Partition \div r) THEN 1 ELSE 0

\* A tick sleeps for a slot, and so does the observer after the ticks of all limiters.
TickInterval == Limiters + 1

LimiterTypeOK ==
    /\ now \in SlotIds
    /\ permits \in [SlotIds -> 0..(Word - 1)]
    /\ worker \in [Workers -> [pc : {"idle", "locking", "testing", "waiting", "taking"}, idx : SlotIds]]
    /\ ticker \in [pc : {"asleep", "filling"}, idx : SlotIds]
    /\ slept \in 0..TickInterval
    /\ used \in [SlotIds -> 0..MaxUsed]
    /\ crossed \in BOOLEAN

LimiterInit ==
    /\ now = 0
    /\ permits = [i \in SlotIds |-> 0]
    /\ worker = [w \in Workers |-> [pc |-> "idle", idx |-> 0]]
    /\ ticker = [pc |-> "asleep", idx |-> 0]
    /\ slept = 0
    /\ used = [i \in SlotIds |-> 0]
    /\ crossed = FALSE

\* The mutex is free: cv_.wait gives it up while it waits.
Free == \A w \in Workers : worker[w].pc # "taking"

Go(w, pc) == worker' = [worker EXCEPT ![w] = [pc |-> pc, idx |-> 0]]

Use == used' = [used EXCEPT ![now] = IF @ < MaxUsed /\ ~crossed THEN @ + 1 ELSE @]

passTime ==
    /\ now' = (now + 1) % Partition
    /\ crossed' = (crossed \/ ~Free)
    /\ used' = [i \in SlotIds |-> IF i = now' \/ crossed' THEN 0 ELSE used[i]]
    /\ slept' = IF ticker.pc = "asleep" /\ slept < TickInterval THEN slept + 1 ELSE slept
    /\ UNCHANGED <<permits, worker, ticker>>

-----------------------------------------------------------------------------
(* acquire                                                                 *)

\* The slot is read before the mutex is taken.
readSlot(w) ==
    /\ worker[w].pc = "idle"
    /\ worker' = [worker EXCEPT ![w] = [pc |-> "locking", idx |-> now]]
    /\ UNCHANGED <<now, permits, ticker, slept, used, crossed>>

\* The slot and those of the past half of the cycle that have permits left.
Reusable(idx) ==
    {i \in SlotIds : permits[i] > 0 /\ (idx + Partition - i) % Partition <= Partition \div 2}

\* The latest of them.
Latest(idx) ==
    CHOOSE i \in Reusable(idx) : \A j \in Reusable(idx) :
        (idx + Partition - i) % Partition <= (idx + Partition - j) % Partition

acquireNow(w) ==
    /\ worker[w].pc = "locking"
    /\ Free
    /\ Reusable(worker[w].idx) # {}
    /\ permits' = [permits EXCEPT ![Latest(worker[w].idx)] = @ - 1]
    /\ Use
    /\ Go(w, "idle")
    /\ UNCHANGED <<now, ticker, slept, crossed>>

\* Nothing left: cv_.wait tests its predicate, which reads the slot again, at
\* once and after each notification.
testSlot(w) ==
    /\ Free
    /\ \/ worker[w].pc = "locking" /\ Reusable(worker[w].idx) = {}
       \/ worker[w].pc = "testing"
    /\ Go(w, IF permits[now] > 0 THEN "taking" ELSE "waiting")
    /\ UNCHANGED <<now, permits, ticker, slept, used, crossed>>

\* And acquire reads it once more.
takePermit(w) ==
    /\ worker[w].pc = "taking"
    /\ permits' = [permits EXCEPT ![now] = (@ + Word - 1) % Word]
    /\ Use
    /\ Go(w, "idle")
    /\ UNCHANGED <<now, ticker, slept, crossed>>

-----------------------------------------------------------------------------
(* The observer                                                            *)

tick ==
    /\ ticker.pc = "asleep"
    /\ slept = TickInterval
    /\ ticker' = [pc |-> "filling", idx |-> now]
    /\ slept' = 0
    /\ UNCHANGED <<now, permits, worker, used, crossed>>

Woken == [w \in Workers |-> IF worker[w].pc = "waiting" THEN [worker[w] EXCEPT !.pc = "testing"] ELSE worker[w]]

\* Mutant: permits that were not used are kept.
fillSlot_Accumulates ==
    /\ ticker.pc = "filling"
    /\ Free
    /\ permits' = [permits EXCEPT ![ticker.idx] = (@ + partition_(ticker.idx)) % Word]
    /\ worker' = Woken
    /\ ticker' = [pc |-> "asleep", idx |-> 0]
    /\ UNCHANGED <<now, slept, used, crossed>>

\* Mutant: nobody is told.
fillSlot_Silent ==
    /\ ticker.pc = "filling"
    /\ Free
    /\ permits' = [permits EXCEPT ![ticker.idx] = partition_(ticker.idx)]
    /\ ticker' = [pc |-> "asleep", idx |-> 0]
    /\ UNCHANGED <<now, worker, slept, used, crossed>>

fillSlot ==
    /\ ticker.pc = "filling"
    /\ Free
    /\ permits' = [permits EXCEPT ![ticker.idx] = partition_(ticker.idx)]
    /\ worker' = Woken
    /\ ticker' = [pc |-> "asleep", idx |-> 0]
    /\ UNCHANGED <<now, slept, used, crossed>>

-----------------------------------------------------------------------------
acquire(w) == acquireNow(w) \/ testSlot(w) \/ takePermit(w)

LimiterNext ==
    \/ passTime \/ tick \/ fillSlot
    \/ \E w \in Workers : readSlot(w) \/ acquire(w)

\* Time passes, threads keep running, and now and then the observer fills a slot
\* and a thread it has notified runs before the slot ends, 100 milliseconds.
LimiterFairness ==
    /\ WF_limiterVars(passTime)
    /\ WF_limiterVars(tick)
    /\ WF_limiterVars(fillSlot)
    /\ SF_limiterVars(fillSlot /\ ticker.idx = now)
    /\ \A w \in Workers :
         /\ WF_limiterVars(acquire(w))
         /\ SF_limiterVars(acquire(w) /\ worker'[w].pc \in {"taking", "idle"})

LimiterSpec == LimiterInit /\ [][LimiterNext]_limiterVars /\ LimiterFairness

-----------------------------------------------------------------------------
Consumed == SumFunctionOnSet(used, SlotIds)

\* The permits of a slot that has one of the remainder, and the slots that are
\* filled within a second at most: the observer sleeps in between.
LargestSlot == (Permit \div Partition) + (IF Permit % Partition > 0 THEN 1 ELSE 0)

FillsPerSecond == ((Partition - 1) \div TickInterval) + 1

\* What the past half of the cycle left is used again and slots are filled
\* meanwhile, so that the limit, the "maximum number of message that may be
\* consumed per second" of DefaultMQPushConsumer::setThrottle, is exceeded: by
\* what is filled within the second and no more, however late a tick fills its
\* slot.  The exception is a thread whose slot ends between the test of cv_.wait
\* and its take: it may take from an empty slot and leave 2^32 - 1 permits
\* (RateLimiter::acquire).
ConsumedBounded ==
    ~crossed => /\ Consumed <= Permit + FillsPerSecond * LargestSlot
                /\ \A i \in SlotIds : permits[i] <= partition_(i)

\* With at least one permit for each slot, the threads do not all wait for ever,
\* although a wait looks at the current slot only and a late tick fills a slot
\* that has ended (RateLimiter::acquire, tick).
NeverAllStuck ==
    (\A i \in SlotIds : partition_(i) > 0) =>
        []<>(\E w \in Workers : worker[w].pc \notin {"waiting", "testing"})

=============================================================================
