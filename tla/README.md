# Verification of the RocketMQ C++ client

TLA+ models of the client SDK in `src/` (producer, push consumer, pull consumer
and what they share), checked with TLC on small instances. Every safety
invariant that the runs check, and the refinements between modules, are also
proved with TLAPS for every instance; liveness is model-checked.

Paths below are relative to `src/src/main/cpp/` unless they start with `api/`.

## 1. The system

The SDK talks to name servers and brokers through gRPC. Each request is
asynchronous: its callback runs in a thread of a callback pool, timers run in
the threads of a scheduler, and the application calls from threads of its own.
Nearly all of the program's difficulty is in what these threads do to each
other.

| Component | State | Operations | Hard parts |
|---|---|---|---|
| `ProcessQueueImpl`: cache of one message queue | cached messages, two atomic counters (quota), offset records, `has_fifo_task_bound_` | `cacheMessages`, `take`, `release`, `committedOffset`, `shouldThrottle` | the counters change without the lock, releases come in any order, the committed offset is derived from a set that keeps the last released record |
| `ConsumeStandardMessageService` (base `ConsumeMessageService`, pool `ThreadPoolImpl`) | service and pool state, dispatcher thread, queued tasks | `start`, `shutdown`, `submitConsumeTask`, `consumeTask` | dispatcher wait, shutdown against running tasks, removal of the queue while its tasks run |
| `ConsumeFifoMessageService` | the bound flag, attempts per message | bind, take, consume, retry, ack, dead letter | order and "one at a time" across listener, timers and RPC callbacks |
| `RateLimiter`, `RateLimiterObserver` | permits per slot | `acquire`, `tick` | the clock is read several times in one call |
| `AsyncReceiveMessageCallback` | weak pointer to its process queue | answer, throttle check, receive now or later | process queue removed and created again while a request or timer is pending |
| `PushConsumerImpl` | subscriptions, `process_queue_table_`, state | `subscribe`, `fetchRoutes`, `scanAssignments`, `syncProcessQueue`, `receiveMessage`, `shutdown` | two scans at once, answers out of order, expiry, shutdown that cancels nothing in flight |
| `ClientImpl`: route table, name server resolvers | `topic_route_table_`, `inflight_route_requests_`, name server list | `getRouteFor`, `fetchRouteFor`, `onTopicRouteReady`, `updateRouteInfo` | callers that share one request, double look-up, missing name server |
| `ClientImpl`, `ClientManagerImpl`, `ClientManagerFactory`: life cycle | states, scheduler, callback pool, completion queue, shared pointers | `start`, `shutdown`, the destructor | clients that share a manager, start and stop racing, the thread that drops the last reference |
| `ClientManagerImpl`: connections | `rpc_clients_`, isolated endpoints of each client | `getRpcClient`, `doHeartbeat`, `doHealthCheck`, `cleanOfflineRpcClients` | sets collected under one lock and used under another |
| `TopicPublishInfo` | partition list, thread-local index | `updatePublishInfo`, `takeMessageQueues` | wrap-around of the index, isolated brokers |
| `ProducerImpl`, `SendCallbacks` | publish infos, attempts, `AwaitSendCallback` | `send` (two forms), `sendImpl`, retry | condition variables, flags set outside the lock, retries |
| `ProducerImpl`, `TransactionImpl` | ids of the acknowledged attempt | `prepare`, `commit`, `rollback` | half messages of lost attempts, an unconditional wait |
| `PullConsumerImpl`, `AwaitPullCallback`, `wrapMessage` | flag, error and result of a pull | `queuesFor`, `queryOffset`, `pull` | errors, damaged and deleted messages |
| `SchedulerImpl` | tasks, threads | `schedule`, `cancel`, `execute` | a functor that runs while its task is cancelled |
| unique ids, credentials, tracing exporter, admin server, logging, HTTP | - | - | see `PROJECT.json`, "components" |

How they interact: a client obtains a client manager, shared with the other
clients of its resource namespace, and a timer that refreshes its routes. The
scan of `PushConsumerImpl` obtains routes from `ClientImpl` and assignments from
a broker, and creates process queues; each process queue and its
`AsyncReceiveMessageCallback` form a cycle of receive requests; the cycle fills
the cache, the consume service empties it and gives the quota back, which lets
the cycle go on. The producer makes its publish info from the same route table,
leaves out endpoints it has isolated, and sends with retries; the health check
of the manager adds isolated endpoints back.

The hazards, each at its line, are in `PROJECT.json`.

## 2. Modules

```
ProcessQueue ----- QueueProtocol
   |   |                 ^  ^
   |   |     implements  |  |  implements
   |   +-- ConsumeStandard  |
   +------ ConsumeFifo -----+

RouteLookup <-- implements -- RouteTable        ReceiveCycle      Assignments
ProducerSend ---- Transactions                  ClientLifecycle   RateLimiter
TopicPublishInfo ---- EndpointHealth            MessageCodec ---- PullConsumer
```

Proofs are in modules of their own, which extend the modules they are about:

| Proof module | About |
|---|---|
| `DataProofs` | no module: lemmas on numbers, remainders, finite sets and sums, and the induction principles the others use |
| `QueueProofs` | `QueueProtocol` |
| `StandardProofs`, `FifoProofs` | `ConsumeStandard`, `ConsumeFifo` |
| `RoutingProofs` | `RouteTable`, `EndpointHealth` with `TopicPublishInfo`, `ReceiveCycle` |
| `SendProofs` | `Transactions`, and with it `ProducerSend` |
| `LifecycleProofs` | `ClientLifecycle` |
| `ConsumerProofs` | `Assignments`, `RateLimiter`, `PullConsumer` with `MessageCodec` |

A proof module about two or three specifications extends all of them; they share
no variable, and all but one carry a prefix in the names that every specification
has (`CycleInit`, `LimiterNext`, `PullSpec`, `healthVars`).

Each `MC...` module extends the module it is named after (`MCProducerSend`:
`Transactions`) and gives the constants their values; the `.cfg` files choose
bounds and properties. What the application configures once (`messageModel`, the
receive `policy`, static or dynamic resolver, synchronous or asynchronous pull) is
a variable that `Init` chooses and no step changes, so that one run covers every
mode. The modules state the types of their variables as `TypeOK` (`CycleTypeOK`,
`HealthTypeOK`, `LimiterTypeOK`).

**ProcessQueue** is the state of `ProcessQueueImpl` and the effect of each of its
methods. A message is the number of its delivery; `cached_messages_` is the set
of its elements read from the smallest, because deliveries to one queue come in
increasing order. `cacheMessages` takes both mutexes (`LockForCaching`) and puts
in one message per step (`cacheMessage`), since the atomic counters are visible
in between; while `batch` is not empty the locks are held. `release` is two
steps: the counters without a lock (`releaseQuota`) and the offset record under
`offsets_mtx_` (`releaseOffset`). The counters are integers; that they never
become negative (they are unsigned in the code) follows from `QuantityExact` and
`MemoryExact`.

**QueueProtocol** is the contract of the class: a callback delivers batches of new
messages, threads take prefixes of the cache and release each message once, in any
order. It is both the specification that the proofs are about and the abstract
specification that the two consume services implement.

**ConsumeStandard**: the service, its pool and its dispatcher on one process
queue. Actions: `startBase`/`startDone`/`shutdown`/`shutdownBase`/`joinPool`/
`joinDispatcher` (life cycle), `checkThrottleThenReceive`/`onSuccess`/
`dropAnswer`/`Cache` (receive cycle; `processPopResult` and `processPullResult`
say what a damaged message does to its answer), `removeQueue` (assignment scan),
`dispatchLoop`/`iterateProcessQueue`/`submitConsumeTask`/`dispatchWake`
(dispatcher), `runTask`/`consumeMessage`/`releaseMessage`/`settleMessage`/
`commitOffset` (pool threads). The pool's tasks are bound to a shared pointer
(`submitConsumeTask`), so a removed queue lives until they have run; the model
says so in `Alive`.

**ConsumeFifo**: the FIFO service on one process queue. `stage` follows each
message through `consumeTask`, the timers and the RPC callbacks; `bound` is
`has_fifo_task_bound_`. Tasks and timers hold weak pointers, so a removed queue
makes each of them end (`abandon`). The callback of the dead-letter request takes
a `bool` and is given a pointer, so only its success branch is reachable. A FIFO
consumer pulls, and a pulled message has no target endpoint (`targetEndpoint`): its
ack goes to host "", fails, and is sent again by the timer for ever. The model is
that of a build without assertions: with them `assert(!target_host.empty())` in
`ack` ends the process at the first message a FIFO listener accepts. (The acks of filtered out
messages of a consumer that pulls have the same fate; their callback does nothing.)

**RateLimiter**: the limit per topic that a consume task passes before the
listener is called. Slots of a second, the permits of each, the threads in
`acquire` and the observer that fills the slot it read before it locked. `crossed`
and `used` are history variables: whether a slot ended between test and take, and
what was consumed in the last second.

**ReceiveCycle**: one message queue of a push consumer: the table entry, the
objects (`Instances`), the cycles of requests and the scans in progress. `Alive`
says which objects still exist, `expire` when the idle time of one runs out. The
names of objects are used again; there are more of them than cycles, so that a new
object always has a name that no request on the wire knows. `receiveMessage` has
all exits of the code: the consumer is not active; the message queue has no service
address, which leaves a process queue (one of `Unresolved`) without a cycle; the
offset store has an offset (`readOffset`), which a PULL consumer neither asks for
nor uses. `updateOffset` is a commit of the consume service, which fills the store.
The two cases of `checkThrottleThenReceive` are `checkThrottle` and
`receiveMessageImmediately`.

**Assignments**: all message queues of a push consumer, without their cycles:
`subscribe`/`unsubscribe`, `fetchRoutes` with its countdown (`testCountdown`,
`waitCountdown`, `callbackEnd`), `scanAssignments`, the route for a question
(`onRouteForQuery`), the answer (`onAssignment`, `TopicAssignment`), and
`syncProcessQueue`/`startReceiving`. Several questions about a topic may be open.
A lookup of a route that finds no name server (`forgetLookup`) is never called back,
and leaves an entry behind that later ones of the topic join (`forgotten`).

**RouteTable** implements **RouteLookup**. A caller is one call of `getRouteFor`,
followed through the threads that work for it: look-up (`getRouteFor`), second
look-up and join under the mutex (`join`), `fetchRouteFor`, the answer
(`resolveRoute`), `onTopicRouteReady` in three steps (update the table, take the
waiting callbacks, call them). `updateRouteInfo` refreshes the cached topics. The
resolver is static, with a list from the start, or dynamic, with none until `fetch`
brings one. Either list is a text split at semicolons and never checked (`Lists`),
so that names may be empty; `current` reads the name at the index, and an empty one
is no name server.

**ClientLifecycle**: clients of one namespace and the managers they are given.
`pc` follows the application's thread through `ClientImpl::start`
(`getClientManager`, `managerStart`, `storeStarting`, the wait for the scheduler,
`scheduleTasks`, `exporterStart`, ...) and `ClientImpl::shutdown`. `Refs` is the set
of shared pointers to a manager; `Drop` hands its shutdown to whoever drops the
last one. `crash` records the three ways in which the code can end the process.

**TopicPublishInfo** defines the list of writable partitions (`writable`) and the
choice of candidate queues (`takeMessageQueues`, one `takeRound` per round) as
recursive functions over the rounds of the loops. **EndpointHealth** extends it with the routes,
publish infos and isolations of clients and the connections of their manager;
the passes of health check and heartbeat are cut where the code changes locks.
A message with a group or a queue of its own is sent to that queue even when its
endpoint is isolated (`listMessageQueue`), and `shutdown` sends the termination
notice to every endpoint in use; both make connections. `isolateEndpoint` is an
operation of `ProducerImpl` that only a unit test calls: what is shown of isolated
endpoints holds of the code, but no execution of the program isolates one.

**ProducerSend**: calls of `send` to one topic, from `ensureRunning` to the
callback. `getRouteFor` is used as `RouteLookup` specifies it: it answers once, or,
without a name server, never (`forgetLookup`). Steps are cut where
the code's threads can see each other: `getPublishInfo` tests `complete`
(`checkComplete`) and waits (`waitComplete`) in two steps, and
`AwaitSendCallback::onFailure` sets `completed_` (`onFailure`), `ec_`
(`setErrorCode`) and signals (`signalAll`) in three, as in the code. `stage` follows
the shutdown: the state changes (`shutdown`), `client_manager_` is reset
(`resetManager`), and when no other client has a reference the manager itself stops
(`stopManager`); the application may then destroy the producer (`destroyProducer`).
None of these waits for calls under way. A retry, or a lookup, that needs
`client_manager_` after the reset dereferences null (`crash`); answers and callbacks
that arrive when the manager has stopped are dropped (`dropAnswer`, `dropLookup`). The
other crash is the remainder by the length of an empty queue list in the asynchronous
send of a message with a group (`divideByZero`).

**Transactions** composes ProducerSend with a broker that keeps half messages: an
attempt may be stored and its answer lost (`store`, then `onFailure`), and each
attempt has a message id of its own. `endTransaction`/`waitEnd` are the calling
thread of `endTransaction0`, `onAnswer`/`signalEnd` its callback; `endUnmanaged` is a
call between reset and destruction, which uses the null pointer, `dropEnd` a callback
that the stopped pool does not run. The broker refuses to resolve a transaction
twice (`Refused`); that commit and rollback do not both return true rests on it.

**MessageCodec**: `validate`, `compress`, `wrapSendMessageRequest` on the way out,
`DigestMatches`, `uncompress`, `wrapMessage` on the way in. A body is a payload, its
form and what happened to it; conversions are modelled by what they do to these.
**PullConsumer** uses it for the items of a broker's log that an application reads
from the beginning with `queuesFor`, `queryOffset` and `pull`.

## 3. Runs

| Run | Question | States |
|---|---|---|
| `queue_protocol` | exact quota and memory, safe and monotone committed offset, the assertion of `release` | 9 416 |
| `standard` | everything settled, the queue used as prescribed, stored offset skips no message, back-pressure ends, shutdown returns and leaves nothing running | 142 506 |
| `fifo` | one at a time and in order, everything brought to its acks or its end, the queue used as prescribed, stored offset skips no message | 3 714 |
| `route` | one request per entry, callers answered once (`RouteLookup`), all answered | 62 048 |
| `producer_sends` | attempts, rotation, one callback; commit and rollback report what the broker did; every call returns or is abandoned in a named way, through shutdown and destruction of the producer | 654 913 |
| `receive` | reception goes on, shutdown ends it and nothing begins after it, in POLLING and PULL mode | 252 108 |
| `lifecycle` | one manager for all, running while it is needed, timers and answers served, complete shutdown, crashes only in named races | 106 671 |
| `endpoints` | candidates of a send, isolated endpoints added back, connections kept alive or removed | 121 455 |
| `pull` | a queue read in order, intact, to its end | 344 386 |
| `assignments` | start returns, with every callback counted, and the table comes to equal the assignment | 62 500 |
| `limiter` | how far a second exceeds the limit, never all threads stuck | 215 911 |

One more run, `fifo_dispatch`, is expected to fail: `ProcessQueueImpl.h` says
that the dispatcher "will submit them into thread-pool", and TLC shows the only
message of the cache taken, not submitted, and the queue left bound, because
`take()` returns whether more messages remain.

### Where a property makes room for the code

The properties are stated as strongly as the code satisfies them. Each exception
is something TLC shows when it is left out:

| Property | Exception | Because of |
|---|---|---|
| `BackPressureEnds` | CLUSTERING only | the BROADCASTING branch of `consumeTask` never calls `release`, although "their quota will be released" (`ProcessQueueImpl.h`) |
| `EverySettled` (FIFO) | a consumed message is acked again and again, not in the end | its ack has no host to go to, against `assert(!target_host.empty())` (`PushConsumerImpl.cpp`): only `processPopResult` sets one, and a FIFO consumer pulls |
| `EverySettled` (FIFO), moving on | CLUSTERING only, no message dropped or being acked before | the BROADCASTING branch of the FIFO service leaves the queue bound, and so does an ack that fails |
| `UsesQueueCorrectly` (FIFO) | a dead letter counts as taken for ever | `onForwardToDeadLetterQueue` does not give the quota back |
| `AnswersEveryCaller`, `OneRequestPerEntry` | an entry whose request found no name server: a list not fetched yet, or a static or fetched list with an empty name | `fetchRouteFor` returns without calling back, although the "callback would get invoked" (`ClientImpl.h`), and leaves the entry; both resolvers split a text at semicolons without a check |
| `CallsReturn`, sends | starts after `getPublishInfo` | its wait can miss the signal: "Wait till acquiring topic publish info completes" (`ProducerImpl.cpp`) |
| `CallsReturn`, all calls | the process ended: null `client_manager_` after shutdown, or a remainder by zero | `ClientImpl::shutdown` resets the pointer under retries, lookups and `endTransaction0`; `ProducerImpl::send` does not look at the length of the queue list |
| `CallsReturn`, all calls | an answer or a callback dropped by a manager that stopped, a lookup without a name server | `ClientManagerImpl::send` returns without calling back, `ThreadPoolImpl` stops with tasks queued, `fetchRouteFor` as above |
| `CallbackOnce` | one callback only if the producer was running | the asynchronous send on a stopped producer reports the failure and goes on |
| `FailsAfterAllAttempts` | speaks of `ec_`, not of the value returned | the blocked call may read `ec_` before it is set and report success |
| `CallsReturn`, commit and rollback | a caller that sleeps before its answer came | `endTransaction0` waits whether or not it has been signalled |
| `KeepsReceiving` | PULL: an offset in the store | `PushConsumerImpl::receiveMessage` then sends no request at all |
| `KeepsReceiving` | PULL: a cycle throttled for good | the BROADCASTING branch never gives quota back, a FIFO queue stays bound |
| `ShutdownEndsCycles` | a throttled cycle whose process queue is in the table again | a timer runs between the clearing of the table and the change of the state; `checkThrottleThenReceive` does not look at `active()` |
| `ManagerServes` | ends before the exporter's wait | `OtlpExporterHandler::start` waits without a condition |
| `CrashNeedsRace` | overlapping starts, or a shutdown | two starts of one manager, a destructor that joins its own thread, `updateRouteInfo` after `client_manager_.reset()` |
| `CrashNeedsBroadcasting` | BROADCASTING without a route | `queryAssignment` uses the null route after an error |
| `StartReturns` | the last callback between test and wait | `fetchRoutes` tests `countdown` outside the mutex |
| `StartReturns` | a topic whose lookup found no name server | `fetchRouteFor` does not call back, and `fetchRoutes` waits for ever |
| `AssignmentApplied` | a non-empty assignment, a lookup that was not forgotten | an empty list is ignored; `unsubscribe` also leaves the queues of the topic |
| `CandidatesComplete` | the index does not wrap inside the loop | the remainder jumps at 2^32 unless the number of partitions divides it |
| `ConsumedBounded` | the limit and what the ticks of a second fill, no slot ends between test and take | permits of old slots are reused while new ones are filled (with a permit for every slot, up to twice the limit; with fewer, more than that); the second read of the slot may decrement an empty one to 2^32 - 1 |
| `PulledIntact` | lost bodies, items without a usable digest | an empty body and a failed MD5 pass the check, the result of `uncompress` is ignored |

### Bounds

* Queue: six messages, one filtered out, sizes 0 to 2: two batches, a release
  between them, and two releases out of order all fit.
* Standard service: five messages, one filtered out and one damaged, two pool
  threads, batches of two, a threshold of two messages: in CLUSTERING mode
  throttling happens and ends, in BROADCASTING mode, where the quota never returns,
  two tasks with earlier and later offsets still run side by side.
* FIFO: six messages, one filtered out, one damaged, one that arrives with two
  attempts counted; three attempts at most. The last message of the cache is never
  submitted, so that four accepted ones are needed for two to be consumed in
  turn and a third to wait.
* Routes: three callers, two of one topic, one route, and three lists: two names,
  a name and an empty one, only an empty one. A joined request, a request of another
  topic and a refresh overlap, and the index moves from a name to an empty one.
* Producer: one synchronous call, made by `prepare`, and one asynchronous call, two
  attempts over one or two queues, two calls of commit or rollback: the second
  attempt goes to the other queue or wraps around, an attempt may be left behind, a
  second call meets a resolved transaction. Shutdown, reset, stop of the manager and
  destruction come at any moment.
* Receive cycle: two cycles, one scan at a time, three objects with and three
  without an address: the cycle of a removed object overlaps the one of its
  successor. A third simultaneous cycle cannot start in the model; the guard that
  bounds it is `cycle[c] = NoCycle` in `startReceiving`.
* Life cycle: two clients, one of them with a request, two managers: the second
  client shares the manager, or finds it stopping and creates another.
* Endpoints: two clients, one producer, two routes over two brokers with two
  addresses, a replica and a read-only partition, an index of two bits so that it
  wraps; one client stops, one channel breaks.
* Pull: two messages in the log, of three that may be sent (one too long), each
  intact, altered or empty under four kinds of digest; answers of up to two.
* Assignments: two topics, one of which changes route, subscription and assignment
  with two questions open; three assignments, the empty one included.
* Rate limiter: three slots, a limit of four (a remainder of one), two threads, a
  word of 5 instead of 2^32 so that the count wraps at once.

### Fairness

Threads that have something to do run in the end (weak fairness of the steps of
each thread; for a send, of all threads that work for it together), timers fire. Every RPC is answered or fails: all requests but `send`
have deadlines; for `send` the liveness of `producer_sends` assumes an answer or a
connection error. An answer that a stopped manager drops, and a lookup that found no
name server, are no answers, and nothing is assumed about them. Listeners return,
and so does `RateLimiter::acquire` in a consume task (`setThrottle(topic, 0)` would
block the pool thread, and with it shutdown, for ever). Throttling is assumed to end
only for a consumer that pops while its service runs (`BackPressureEnds`), never for
one that pulls. Strong fairness stands for servers that do
not fail for ever: an offset (PULL and pull consumer), a route, an
assignment, a pull, a health check that is asked for over and over succeeds in
the end; without it the code retries for ever, by design. In the rate limiter it
also says that now and then the observer fills the current slot, and a thread it
has notified runs, before the slot of 100 milliseconds ends. The application is
never forced to call anything, the broker never forced to deliver; an application
that pulls goes on pulling.

`CHECK_DEADLOCK FALSE` is used where a system may stop: after shutdown, after a
crash, when all calls have returned, or when the bounded supply of messages is
used up. The rate limiter never stops and is checked for deadlock.

## 4. Proofs

Each theorem is about the specification its run checks and holds for every value
of the constants that satisfies the named `ASSUME` of the module: any messages,
filters and sizes, any number of callers, calls, attempts, queues, clients,
managers and topics. Where a theorem states a property of a run, `PROJECT.json`
names it under "theorems".

In each proof module the inductive invariant is a conjunction of named parts,
there is one lemma for each action (or for a group of actions that do the same
to it), and a last lemma puts them together. The invariants were checked with TLC
before they were proved.

**Data** (`DataProofs`). The theorems of the library that prove a recursive
definition or an induction take an operator as a parameter, which the provers
cannot instantiate. The lemmas here say the same with a set in the operator's
place: `InductionUpTo` (a set of numbers up to n that has 0 and each successor has
all), `SubsetInduction` (a set of finite sets that has the empty one and each
extension by one element has all), `LeastNatural` from well-foundedness of `<`.
From them come what a recursive function of the rounds of a loop computes (its
equation, round by round), and the sums: `SumExcept` (a sum after one value
changed), `SumWithExtras` and others, which reduce `SumFunctionOnSet` to the folds
of the community modules. `Division` and the lemmas after it state what the
provers know of remainders for a fixed divisor only.

**The queue** (`QueueProofs`, from `QueueAssumption`):

* `TypeCorrect`;
* `StagesInvariant`: batch, cache, taken and releasing are disjoint, finite, and
  the batch comes after everything delivered before;
* `QuantityCorrect`: the counter equals the number of messages cached or taken.
  Needs `StagesInvariant`: a cardinality changes by one only if the message added
  or removed is in no other place, and only finite sets have one;
* `MemoryCorrect`: the memory counter equals the sum of their sizes, by the same
  argument with sums in the place of cardinalities;
* `OffsetsCorrect` through `OffsetsInv`: `offsets_` is the set of unreleased records
  of the live messages, or the single record released last. The induction needs
  finiteness (the code tests `size()`) and `StagesInvariant`;
* `CommittedIsSafe`, `ReleaseAssertionHolds`: consequences of `OffsetsInv`. The first
  uses that a set of naturals has a least element, from well-foundedness of `<`;
* `CommittedIsMonotone`: an action property; each step is examined with `OffsetsInv`
  before and after.

**The consume services** (`StandardProofs`, `FifoProofs`):

* `StandardUsesQueueCorrectly`, `FifoUsesQueueCorrectly`: the services implement
  `QueueProtocol`. What the protocol calls taken and releasing is spread over the
  tasks of the pool and the registers of its threads (standard) or over the stages
  of messages (FIFO); `PlaceInv`, `TaskInv` and `WorkerInv` say that each message is
  in one of these places only, so that each step of the service moves it as one
  step of the protocol does;
* `StandardQueuePromises`, `FifoQueuePromises`: therefore what `QueueProofs` shows
  holds of the queue inside the services. `QueueProofs` is instantiated with the
  refinement mapping;
* `StandardStoredOffsetSafe`, `FifoStoredOffsetSafe`: what the offset store holds was
  the committed offset once (`StoredInv`), which is monotone and safe;
* `FifoInOrder`: at most one message is between the dispatcher and its end, and
  it comes before all that are cached. `TaskInv` ties the message on its way, or the
  one that was dropped, to the bound flag; `OrderInv` says that every message
  accepted before it is finished;
* `StandardQuietAfterShutdown`: the action property in `ShutdownReturns`. `StopInv` says
  what each step of `shutdown()` has established: a pool that starts no task, then
  no thread at work, then no dispatcher. Tasks may still be queued.

**Routes and candidates** (`RoutingProofs`): `TypeCorrect`; `RequestsAreShared`, from an
invariant that relates an entry of `inflight_route_requests_` to the only caller
that works on it, and a forgotten entry to the list that lacks a name (a static list
never changes, so that an empty name stays in it); `LookupImplemented`, the refinement of `RouteLookup`: a caller is
called back once, with a route that was answered. `CandidatesAreComplete`:
`ChosenStep` carries one predicate through the rounds of `takeMessageQueues` (what has
been chosen, and that each partition visited is isolated, or its broker chosen, or
enough were found); `VisitsAll` shows that as many rounds as there are partitions
visit each of them, from whatever index the loop starts, unless the index wraps.
The invariant over the steps is only that a publish info has writable partitions.

**Receive cycles** (`RoutingProofs`, from `CycleAssumption`):

* `IdleQueuesHaveNoRequest`: the scan never removes a process queue as idle while a
  request for it is on the wire or its timer is pending (`IdleHasNoRequest`). It is
  inductive together with the types, whose proof (`CycleTypeCorrect`) has the
  pigeonhole argument for the name of a new object;
* `NothingStartsWhenStopped`: the action property in `ShutdownEndsCycles`.

**The producer** (`SendProofs`, of the composition `Transactions`, whose steps are
shown to be steps of `ProducerSend`):

* `SendFailsAfterAllAttempts`: `AttemptInv` gives the queue of each attempt, and
  `SameCandidate`, a lemma on remainders, the distance of two attempts on one. The
  attempt whose retry meets the null pointer counts: its candidate was chosen;
* `SendCallbackOnce`: `CallbackInv` counts the calls against what is still open;
* `VerdictsAreTrue`: `BrokerInv` says that the acknowledged attempt is the last one
  and the only one ever resolved, `EndInv` that a good answer belongs to the call
  in flight. It needs `OutcomeInv` of the send: no attempt follows an acknowledged
  one. `AwaitInv` says that no attempt of a synchronous call is on the wire when
  the producer is destroyed, since the caller is still waiting.

`SendStep` adds the null pointer in `endTransaction0` to the steps of `ProducerSend`;
the other steps of shutdown touch nothing that these invariants speak of.

**Clients and their manager** (`LifecycleProofs`): `TypeCorrect`,
`StartedClientsAreServed`, `CrashesNeedRace`, `StoppedIsQuiet`, all from one invariant.
Its core is `Released`: once a destructor runs nobody has a pointer to the manager,
and nobody gets one again, because each way to a pointer starts from another
pointer (`Refs`). `Begun` and `Homes` say that a new manager is fresh, `Stages` and
`Left` that what shutdown ended stays ended, `OneByOne` what staggered starts add.

**Consumers** (`ConsumerProofs`):

* `CrashesNeedBroadcasting`, because a question waits for a route only while there is
  none (`Asking`), and `StartIsCounted`, from mutual exclusion of the callbacks and
  the finite set of topics;
* `LimitCorrect` (`ConsumedBounded`). `Accounted` bounds, for each age, what was consumed
  in the slots that are at most so old and what is left to consume by the limit and
  the fills that fit in that time; `ConsumedBounded` is its instance for the whole
  second. `OneTaker` and `TakerHasPermit` say that, until a slot ends between test and
  take, a thread takes a permit that is there. Twice the
  limit would not be a bound: with fewer permits than slots, a second may admit three
  times as many;
* `PullInOrder`, `PullIntact`: `Reads` says of a list of messages that it is what a
  consumer makes of a stretch of the log, in order, and it is additive
  (`ReadsConcat`). `PullInv` says it of what was pulled up to the position and of the
  result on its way from there. `PullIntact` then is a statement about single items
  (`ItemIntact`): digest, compression and decompression compose to the identity but
  for the cases the property names.

Only model-checked: the liveness properties (fairness and ENABLED are out of the
prover's reach), that is `EverySettled`, `BackPressureEnds`, `AnswersEveryCaller`,
`CallsReturn`, `KeepsReceiving`, `ManagerServes`, `AddedBack`, `HeartbeatKept`,
`EveryMessagePulled`, `StartReturns`, `AssignmentApplied`, `NeverAllStuck`, and the
liveness half of `ShutdownReturns` and `ShutdownEndsCycles`. `fifo_dispatch` is a
counterexample and has no theorem.

## 5. Not modelled, and why

* `ClientImpl::multiplexing` and what hangs on it (orphaned transactions, verification
  of consumption, stack traces): only its own callback calls it, so that no
  execution reaches it.
* A custom executor instead of the pool; one-way sends; the wait inside
  `listMessageQueue`, which is that of `getPublishInfo`.
* What `HttpClientImpl::get` does without an answer: it uses a null pointer, and
  there is no behaviour to model after it.
* `client_manager_` in the receive cycle: `receiveMessage` may use it after
  `ClientImpl::shutdown` has reset it (`PushConsumerImpl.cpp:381`). The same race is
  modelled for the route timer (`ClientLifecycle`) and for the producer.
* The destruction of the consumer or producer object while callbacks are pending;
  `AwaitSendCallback` and the lambda of `fetchRoutes` live on the stack of a
  caller that may return while the callback still signals. The orders are
  modelled, the memory is not.
* Tracing, logging, statistics, formatting, signatures, TLS, unique ids: no control
  flow that another part depends on.
* FIFO order across a removal: a queue that is removed and assigned again is a new
  object, and a listener call of the old one may still run.
* The age of a refreshed route; tasks that fire once and stay in the scheduler's
  table.
* Two receive cycles on one object: `ReceiveCycle` reaches it; the consume services
  are modelled with one cycle.

## 6. Plan

What is left is composition: `Assignments` and `ReceiveCycle` with `ProcessQueue`
(several queues of a topic, two cycles on one object), and then the liveness of
that composition with TLC.
