---------------------------- MODULE PullConsumer ----------------------------
(***************************************************************************)
(* A pull consumer reading one queue from its beginning: queuesFor, then   *)
(* queryOffset, then pull after pull, each from the offset that the one    *)
(* before returned.  A pull is synchronous (AwaitPullCallback) or calls    *)
(* back on a thread of the client.                                         *)
(*                                                                         *)
(* The application and the broker are external.  The broker appends what   *)
(* producers send (MessageCodec), deletes from the beginning and may       *)
(* return any error; a stored message may have been damaged.  The          *)
(* application repeats a failed pull after asking for the beginning of the *)
(* queue again: no error tells it that its offset was deleted.             *)
(***************************************************************************)
EXTENDS MessageCodec, Sequences, FiniteSetsExt

CONSTANTS
  Messages,     \* what producers may send: records of payload, length and type
  DigestType,   \* the digest types that brokers use
  MaxLog,       \* bound: messages that the queue ever holds
  MaxBatch      \* bound: messages of one answer

ASSUME PullAssumption ==
  /\ MaxLog \in Nat /\ MaxBatch \in Nat \ {0}
  /\ \A m \in Messages : m.type \in MessageType

VARIABLES
  synchronous,  \* how the application pulls
  running,      \* shutdown has not reset client_manager_
  dangling,     \* a callback used client_manager_ after that
  cached,       \* the topic is in topic_route_table_
  pc,           \* the application: "start", "route", "query", "offset", "pull", "wait", "asleep"
  position,     \* the offset of the next pull; -1 before the first queryOffset
  request,      \* the offset of the pull on its way; -1 if none
  pull,         \* AwaitPullCallback: completed_, ec_ and pull_result_
  log,          \* every item the queue ever held, by offset; the first one is at 0
  first,        \* the offset of the first item that is not deleted
  pulled,       \* what the application got: a sequence of offset, body and type
  unread        \* offsets it had not reached when they were deleted

pullVars == <<synchronous, running, dangling, cached, pc, position, request, pull, log, first,
          pulled, unread>>

NotCompleted == [completed |-> FALSE, ok |-> FALSE, messages |-> <<>>, next |-> 0]

\* What a broker may hold for a message that was sent, with a digest of type d.
Item(m, d, state) ==
  LET wrapped == wrapSendMessageRequest(m)
  IN  [ type |-> wrapped.type, encoding |-> wrapped.encoding,
        body |-> [wrapped.body EXCEPT !.state = state],
        sent |-> m, digest |-> [type |-> d, of |-> wrapped.body] ]

Items ==
  { Item(m, d, state) : m \in {x \in Messages : validate(x)}, d \in DigestType,
                        state \in {"intact", "altered", "empty"} }

PullInit ==
  /\ synchronous \in BOOLEAN
  /\ running = TRUE /\ dangling = FALSE /\ cached = FALSE
  /\ pc = "start" /\ position = -1 /\ request = -1
  /\ pull = NotCompleted
  /\ log = <<>> /\ first = 0
  /\ pulled = <<>> /\ unread = {}

-----------------------------------------------------------------------------
(* The broker *)

append ==
  /\ Len(log) < MaxLog
  /\ \E item \in Items : log' = Append(log, item)
  /\ UNCHANGED <<synchronous, running, dangling, cached, pc, position, request, pull, first,
                 pulled, unread>>

delete ==
  /\ first < Len(log)
  /\ first' = first + 1
  /\ UNCHANGED <<synchronous, running, dangling, cached, pc, position, request, pull, log,
                 pulled, unread>>

-----------------------------------------------------------------------------
(* queuesFor and queryOffset *)

\* The route comes from the table or from the name server.
queuesFor ==
  /\ running /\ pc = "start"
  /\ pc' = IF cached THEN "query" ELSE "route"
  /\ UNCHANGED <<synchronous, running, dangling, cached, position, request, pull, log, first,
                 pulled, unread>>

\* The future gets the queues of the route, or an exception.
onRoute(ok) ==
  /\ pc = "route"
  /\ cached' = (cached \/ ok)
  /\ pc' = IF ok THEN "query" ELSE "start"
  /\ UNCHANGED <<synchronous, running, dangling, position, request, pull, log, first, pulled,
                 unread>>

queryOffset ==
  /\ running /\ pc = "query"
  /\ pc' = "offset"
  /\ UNCHANGED <<synchronous, running, dangling, cached, position, request, pull, log, first,
                 pulled, unread>>

\* The future gets the first offset, or an exception; the application never
\* goes back.
onOffset(ok) ==
  /\ pc = "offset"
  /\ IF ok
       THEN /\ pc' = "pull"
            /\ position' = Max({position, first})
            /\ unread' = unread \cup (Max({position, 0}) .. first - 1)
       ELSE /\ pc' = "start"
            /\ UNCHANGED <<position, unread>>
  /\ UNCHANGED <<synchronous, running, dangling, cached, request, pull, log, first, pulled>>

-----------------------------------------------------------------------------
(* pull *)

pullMessage ==
  /\ running /\ pc = "pull"
  /\ request' = position
  /\ pull' = NotCompleted
  /\ pc' = "wait"
  /\ UNCHANGED <<synchronous, running, dangling, cached, position, log, first, pulled, unread>>

\* What the application does with the result of a pull.
use(result) ==
  IF result.ok
    THEN /\ pulled' = pulled \o result.messages
         /\ position' = result.next
         /\ pc' = "pull"
    ELSE /\ pc' = "query"
         /\ UNCHANGED <<pulled, position>>

\* Mutant: a failure is noted and nobody is woken.
onCompletion_Silent(result) ==
  IF synchronous
    THEN /\ pull' = result
         /\ pc' = IF pc = "asleep" /\ result.ok THEN "wait" ELSE pc
         /\ UNCHANGED <<pulled, position>>
    ELSE use(result) /\ UNCHANGED pull

\* AwaitPullCallback::onSuccess and onFailure, which wake the caller of a
\* synchronous pull, or the callback of the application.
onCompletion(result) ==
  IF synchronous
    THEN /\ pull' = result
         /\ pc' = IF pc = "asleep" THEN "wait" ELSE pc
         /\ UNCHANGED <<pulled, position>>
    ELSE use(result) /\ UNCHANGED pull

\* Mutant: min_offset, max_offset and next_offset are given in another order.
PullResult_MaxAsNext(messages, max, next) ==
  [completed |-> TRUE, ok |-> TRUE, messages |-> messages, next |-> max]

PullResult(messages, max, next) ==
  [completed |-> TRUE, ok |-> TRUE, messages |-> messages, next |-> next]

\* The message that the application gets for the item at an offset.
Message(offset) ==
  LET message == wrapMessage(log[offset + 1])
  IN  [offset |-> offset, body |-> message.body, type |-> message.type]

\* The messages of the items at offsets o .. o + n - 1 that pass their digest:
\* accepted[i] has those of the first i.
Accepted(o, n, md5Works) ==
  LET accepted[i \in 0..n] ==
        IF i = 0 THEN <<>>
        ELSE IF DigestMatches(log[o + i], md5Works) THEN Append(accepted[i - 1], Message(o + i - 1))
        ELSE accepted[i - 1]
  IN  accepted[n]

\* The answer has the items from the offset of the request on, none when the
\* wait of a long poll was in vain.  wrapMessage is a method of the client
\* manager, which shutdown may have reset.
onAnswer(n, md5Works) ==
  /\ request >= first /\ n <= Min({MaxBatch, Len(log) - request})
  /\ request' = -1
  /\ IF n > 0 /\ ~running
       THEN dangling' = TRUE /\ UNCHANGED <<pc, position, pull, pulled>>
       ELSE /\ onCompletion(PullResult(Accepted(request, n, md5Works), Len(log), request + n))
            /\ UNCHANGED dangling
  /\ UNCHANGED <<synchronous, running, cached, log, first, unread>>

\* No answer in time, or one with an error, OUT_OF_RANGE included.
onFailure ==
  /\ request >= 0
  /\ request' = -1
  /\ onCompletion([NotCompleted EXCEPT !.completed = TRUE])
  /\ UNCHANGED <<synchronous, running, dangling, cached, log, first, unread>>

await ==
  /\ synchronous /\ pc = "wait"
  /\ IF pull.completed
       THEN use(pull)
       ELSE pc' = "asleep" /\ UNCHANGED <<pulled, position>>
  /\ UNCHANGED <<synchronous, running, dangling, cached, request, pull, log, first, unread>>

shutdown ==
  /\ running
  /\ running' = FALSE
  /\ UNCHANGED <<synchronous, dangling, cached, pc, position, request, pull, log, first, pulled,
                 unread>>

-----------------------------------------------------------------------------
(* The specification *)

PullNext ==
  \/ append \/ delete \/ shutdown
  \/ /\ ~dangling
     /\ \/ queuesFor \/ queryOffset \/ pullMessage \/ await \/ onFailure
        \/ \E ok \in BOOLEAN : onRoute(ok) \/ onOffset(ok)
        \/ \E n \in 0..MaxBatch, md5Works \in BOOLEAN : onAnswer(n, md5Works)

\* The application goes on; every request is answered, at the latest by its
\* deadline, and not always with an error.
PullFairness ==
  /\ WF_pullVars(~dangling /\ (queuesFor \/ queryOffset \/ pullMessage \/ await))
  /\ WF_pullVars(~dangling /\ (onFailure \/ onRoute(FALSE) \/ onOffset(FALSE)))
  /\ SF_pullVars(~dangling /\ onRoute(TRUE))
  /\ SF_pullVars(~dangling /\ onOffset(TRUE))
  /\ SF_pullVars(~dangling /\ \E n \in 1..MaxBatch : onAnswer(n, TRUE))

PullSpec == PullInit /\ [][PullNext]_pullVars /\ PullFairness

-----------------------------------------------------------------------------
(* Properties *)

Pulled == {pulled[i].offset : i \in DOMAIN pulled}

\* The messages that no check of the consumer may reject.
Sound(item) == item.body.state = "intact"

\* Following the next offset of each result reads the queue in order, each
\* message once, and passes over nothing but messages that were damaged and
\* messages deleted before they were reached.
PulledInOrder ==
  /\ \A i, j \in DOMAIN pulled : i < j => pulled[i].offset < pulled[j].offset
  /\ \A o \in 0 .. position - 1 :
       o \in Pulled \cup unread \/ ~Sound(log[o + 1])

\* What the application gets is what the producer sent, compressed on the way
\* or not, unless the body was lost or the item had no digest that could be
\* checked.
PulledIntact ==
  \A i \in DOMAIN pulled :
    LET item == log[pulled[i].offset + 1]
    IN  \/ pulled[i].body = item.sent.payload /\ pulled[i].type = item.sent.type
        \/ item.body.state = "empty" /\ pulled[i].body = NoPayload
        \/ item.body.state = "altered" /\ item.digest.type \notin {"CRC32", "SHA1"}

\* While the client runs, each message that is neither damaged nor deleted is
\* pulled in the end, whatever fails on the way: no caller of a synchronous
\* pull is left asleep.
EveryMessagePulled ==
  \A o \in 0 .. MaxLog - 1 :
    (Len(log) > o /\ Sound(log[o + 1]))
      ~> (o \in Pulled \/ first > o \/ ~running)

=============================================================================
