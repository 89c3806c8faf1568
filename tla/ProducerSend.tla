---------------------------- MODULE ProducerSend ----------------------------
(***************************************************************************)
(* ProducerImpl::send, synchronous and asynchronous, to one topic: obtain  *)
(* the publish info (getPublishInfo blocks the caller until a callback     *)
(* delivers it), choose candidate queues, then try them in turn through    *)
(* RetrySendCallback until the broker accepts or the attempts are used up; *)
(* AwaitSendCallback hands the outcome back to a blocked caller.           *)
(*                                                                         *)
(* getRouteFor is used as RouteLookup specifies it, and may never answer.  *)
(* shutdown sets the state, gives up the producer's reference to the       *)
(* client manager and leaves the calls that are under way to themselves:   *)
(* what they do next dereferences a null pointer, and once no client uses  *)
(* the manager it stops, and the answers still due are dropped.            *)
(***************************************************************************)
EXTENDS Naturals, Sequences, FiniteSets

CONSTANTS
  Senders,          \* calls of send
  Synchronous,      \* those of send(message, ec)
  MaxAttemptTimes,  \* max_attempt_times_
  MaxQueues         \* most queues takeMessageQueues may return

ASSUME SendAssumption ==
  /\ Synchronous \subseteq Senders
  /\ MaxAttemptTimes \in Nat \ {0}
  /\ MaxQueues \in Nat \ {0}

VARIABLES
  stage,       \* how far shutdown is: "running" (state_ is STARTED), "stopping",
               \* "reset" (client_manager_ is null), "stopped" (the manager too)
  destroyed,   \* the producer object is gone
  crash,       \* what ended the process: "none", "null" (client_manager_), "division"
  published,   \* topic_publish_info_table_ has the topic
  pc,          \* where the thread that called send is
  admitted,    \* calls that passed ensureRunning
  info,        \* the publish info asked for
  queues,      \* number of candidates_
  targets,     \* queues of the attempts made so far, 0-based indices
  rpc,         \* the attempt on the wire, or where its callback thread is
  completed,   \* completed_ of the caller's AwaitSendCallback
  ec,          \* its ec_ is set
  callbacks,   \* calls of the caller's onSuccess or onFailure
  accepted,    \* calls whose message a broker acknowledged
  result       \* what the synchronous call returned

callVars == <<queues, targets, rpc, completed, ec, callbacks, accepted>>
life == <<stage, destroyed, crash>>
vars == <<life, published, pc, admitted, info, callVars, result>>

TypeOK ==
  /\ stage \in {"running", "stopping", "reset", "stopped"}
  /\ destroyed \in BOOLEAN
  /\ crash \in {"none", "null", "division"}
  /\ published \in BOOLEAN
  /\ pc \in [Senders -> {"idle", "ask", "check", "block", "wait", "routed", "select",
                         "await", "awaiting", "read", "done"}]
  /\ admitted \in SUBSET Senders
  /\ info \in [Senders -> {"none", "asked", "found", "failed", "lost"}]
  /\ queues \in [Senders -> 0..MaxQueues]
  /\ targets \in [Senders -> Seq(0..(MaxQueues - 1))]
  /\ rpc \in [Senders -> {"none", "sent", "lost", "failing", "signal"}]
  /\ completed \in [Senders -> BOOLEAN]
  /\ ec \in [Senders -> BOOLEAN]
  /\ callbacks \in [Senders -> 0..2]
  /\ accepted \in SUBSET Senders
  /\ result \in [Senders -> {"none", "ok", "failed"}]

Init ==
  /\ stage = "running"
  /\ destroyed = FALSE
  /\ crash = "none"
  /\ published = FALSE
  /\ pc = [s \in Senders |-> "idle"]
  /\ admitted = {}
  /\ info = [s \in Senders |-> "none"]
  /\ queues = [s \in Senders |-> 0]
  /\ targets = [s \in Senders |-> <<>>]
  /\ rpc = [s \in Senders |-> "none"]
  /\ completed = [s \in Senders |-> FALSE]
  /\ ec = [s \in Senders |-> FALSE]
  /\ callbacks = [s \in Senders |-> 0]
  /\ accepted = {}
  /\ result = [s \in Senders |-> "none"]

Sync(s) == s \in Synchronous

Goto(s, from, to) == pc[s] = from /\ pc' = [pc EXCEPT ![s] = to]

Return(s, r) == result' = [result EXCEPT ![s] = r]

\* The caller's onSuccess or onFailure is called.
Callback(s) == callbacks' = [callbacks EXCEPT ![s] = @ + 1]

-----------------------------------------------------------------------------
(* The end of the producer *)

running == stage = "running"

\* client_manager_ can be used.
Managed == stage \in {"running", "stopping"}

\* ClientImpl::shutdown leaves the state STARTED ...
shutdown ==
  /\ stage = "running"
  /\ stage' = "stopping"
  /\ UNCHANGED <<destroyed, crash, published, pc, admitted, info, callVars, result>>

\* ... and at its end drops the reference, whoever else uses the manager.
resetManager ==
  /\ stage = "stopping"
  /\ stage' = "reset"
  /\ UNCHANGED <<destroyed, crash, published, pc, admitted, info, callVars, result>>

\* No client has a reference any more: the manager shuts down.
stopManager ==
  /\ stage = "reset"
  /\ stage' = "stopped"
  /\ UNCHANGED <<destroyed, crash, published, pc, admitted, info, callVars, result>>

\* The application drops the producer it shut down; attempts may be on the wire.
destroyProducer ==
  /\ ~Managed /\ ~destroyed
  /\ \A s \in Senders : pc[s] \in {"idle", "done"}
  /\ destroyed' = TRUE
  /\ UNCHANGED <<stage, crash, published, pc, admitted, info, callVars, result>>

Crash(cause) ==
  /\ crash' = cause
  /\ UNCHANGED <<stage, destroyed, published, pc, admitted, info, callVars, result>>

-----------------------------------------------------------------------------
(* The thread that calls send *)

sendSync(s) ==
  /\ Sync(s) /\ ~destroyed
  /\ Goto(s, "idle", IF running THEN "ask" ELSE "done")
  /\ admitted' = IF running THEN admitted \cup {s} ELSE admitted
  /\ Return(s, IF running THEN "none" ELSE "failed")
  /\ UNCHANGED <<life, published, info, callVars>>

\* When the producer is not running the callback is told, and the call goes on.
sendAsync(s) ==
  /\ ~Sync(s) /\ ~destroyed
  /\ Goto(s, "idle", "ask")
  /\ admitted' = IF running THEN admitted \cup {s} ELSE admitted
  /\ callbacks' = IF running THEN callbacks ELSE [callbacks EXCEPT ![s] = @ + 1]
  /\ UNCHANGED <<life, published, info, queues, targets, rpc, completed, ec,
                 accepted, result>>

\* The callback runs at once when the publish info is cached; otherwise a route
\* is requested, or a request of another call is joined.
asyncPublishInfo(s) ==
  /\ published \/ Managed \/ \E t \in Senders : info[t] = "asked"
  /\ Goto(s, "ask", IF Sync(s) THEN "check" ELSE IF published THEN "select" ELSE "routed")
  /\ info' = [info EXCEPT ![s] = IF published THEN "found" ELSE "asked"]
  /\ UNCHANGED <<life, published, admitted, callVars, result>>

\* fetchRouteFor knows no name server, for this call or the one it joined: it
\* returns, and nothing is ever called back.
forgetLookup(s) ==
  /\ ~published
  /\ Goto(s, "ask", IF Sync(s) THEN "check" ELSE "routed")
  /\ info' = [info EXCEPT ![s] = "lost"]
  /\ UNCHANGED <<life, published, admitted, callVars, result>>

\* fetchRouteFor calls resolveRoute of client_manager_, which is null.
lookupUnmanaged(s) ==
  /\ pc[s] = "ask" /\ ~published /\ ~Managed
  /\ Crash("null")

\* The loop of getPublishInfo tests complete without holding the mutex ...
checkComplete(s) ==
  /\ Goto(s, "check", IF info[s] \in {"asked", "lost"} THEN "block" ELSE "select")
  /\ UNCHANGED <<life, published, admitted, info, callVars, result>>

\* ... takes it afterwards and waits, whatever happened in between.
waitComplete(s) ==
  /\ Goto(s, "block", "wait")
  /\ UNCHANGED <<life, published, admitted, info, callVars, result>>

-----------------------------------------------------------------------------
(* The callback of getRouteFor *)

\* Fills the table, sets complete and signals the waiting thread, if it waits.
publishInfoReady(s, found) ==
  /\ info[s] = "asked"
  /\ info' = [info EXCEPT ![s] = IF found THEN "found" ELSE "failed"]
  /\ published' = (published \/ found)
  /\ pc' = [pc EXCEPT ![s] = IF pc[s] = "wait" THEN "check"
                             ELSE IF pc[s] = "routed" THEN "select" ELSE pc[s]]
  /\ UNCHANGED <<life, admitted, callVars, result>>

\* The pool of a manager that stops no longer runs the callback.
dropLookup(s) ==
  /\ info[s] = "asked" /\ stage = "stopped"
  /\ info' = [info EXCEPT ![s] = "lost"]
  /\ UNCHANGED <<life, published, pc, admitted, callVars, result>>

-----------------------------------------------------------------------------
(* send0 and RetrySendCallback *)

\* The candidate that messageQueue() gives for an attempt, of n candidates.
messageQueue(attempt, n) == attempt % n

\* The next attempt, through client_manager_ (candidates have an address).
sendImpl(s, n) ==
  /\ targets' = [targets EXCEPT ![s] = Append(@, messageQueue(Len(@), n))]
  /\ crash' = IF Managed THEN crash ELSE "null"

\* No publish info, no queue to send to, or a message that is not valid.
reject(s) ==
  /\ Goto(s, "select", "done")
  /\ IF Sync(s) THEN Return(s, "failed") /\ UNCHANGED callbacks
                ELSE Callback(s) /\ UNCHANGED result
  /\ UNCHANGED <<life, published, admitted, info, queues, targets, rpc, completed,
                 ec, accepted>>

\* An asynchronous send of a message with a group, to a topic without a writable
\* queue: the group's hash modulo the length of the empty list.
divideByZero(s) ==
  /\ ~Sync(s) /\ pc[s] = "select" /\ info[s] = "found"
  /\ Crash("division")

send0(s, n) ==
  /\ info[s] = "found"
  /\ Goto(s, "select", IF Sync(s) THEN "await" ELSE "done")
  /\ queues' = [queues EXCEPT ![s] = n]
  /\ sendImpl(s, n)
  /\ rpc' = [rpc EXCEPT ![s] = "sent"]
  /\ UNCHANGED <<stage, destroyed, published, admitted, info, completed, ec, callbacks,
                 accepted, result>>

\* A broker acknowledges.  send_result_ is set before completed_.
onSuccess(s) ==
  /\ rpc[s] = "sent" /\ stage # "stopped"
  /\ accepted' = accepted \cup {s}
  /\ rpc' = [rpc EXCEPT ![s] = IF Sync(s) THEN "signal" ELSE "none"]
  /\ completed' = [completed EXCEPT ![s] = Sync(s)]
  /\ Callback(s)
  /\ UNCHANGED <<life, published, pc, admitted, info, queues, targets, ec, result>>

\* Mutant: one attempt too many.
onFailure_OneMore(s) ==
  /\ rpc[s] = "sent" /\ stage # "stopped"
  /\ IF Len(targets[s]) > MaxAttemptTimes \/ destroyed
       THEN /\ rpc' = [rpc EXCEPT ![s] = IF Sync(s) THEN "failing" ELSE "none"]
            /\ completed' = [completed EXCEPT ![s] = Sync(s)]
            /\ Callback(s)
            /\ UNCHANGED <<targets, crash>>
       ELSE /\ sendImpl(s, queues[s])
            /\ UNCHANGED <<rpc, completed, callbacks>>
  /\ UNCHANGED <<stage, destroyed, published, pc, admitted, info, queues, ec, accepted, result>>

\* Mutant: the caller is told of every failure.
onFailure_Each(s) ==
  /\ rpc[s] = "sent" /\ stage # "stopped"
  /\ Callback(s)
  /\ IF Len(targets[s]) >= MaxAttemptTimes \/ destroyed
       THEN /\ rpc' = [rpc EXCEPT ![s] = IF Sync(s) THEN "failing" ELSE "none"]
            /\ completed' = [completed EXCEPT ![s] = Sync(s)]
            /\ UNCHANGED <<targets, crash>>
       ELSE /\ sendImpl(s, queues[s])
            /\ UNCHANGED <<rpc, completed>>
  /\ UNCHANGED <<stage, destroyed, published, pc, admitted, info, queues, ec, accepted, result>>

\* The attempt failed: the next candidate, or the failure is handed over if it
\* was the last attempt or the producer is gone.
onFailure(s) ==
  /\ rpc[s] = "sent" /\ stage # "stopped"
  /\ IF Len(targets[s]) >= MaxAttemptTimes \/ destroyed
       THEN /\ rpc' = [rpc EXCEPT ![s] = IF Sync(s) THEN "failing" ELSE "none"]
            /\ completed' = [completed EXCEPT ![s] = Sync(s)]
            /\ Callback(s)
            /\ UNCHANGED <<targets, crash>>
       ELSE /\ sendImpl(s, queues[s])
            /\ UNCHANGED <<rpc, completed, callbacks>>
  /\ UNCHANGED <<stage, destroyed, published, pc, admitted, info, queues, ec, accepted, result>>

\* The manager is gone or not STARTED: the answer is dropped, nobody is told.
dropAnswer(s) ==
  /\ rpc[s] = "sent" /\ stage = "stopped"
  /\ rpc' = [rpc EXCEPT ![s] = "lost"]
  /\ UNCHANGED <<life, published, pc, admitted, info, queues, targets, completed, ec,
                 callbacks, accepted, result>>

\* Mutant: the waiting thread is not signalled.
setErrorCode_NoSignal(s) ==
  /\ rpc[s] = "failing"
  /\ ec' = [ec EXCEPT ![s] = TRUE]
  /\ rpc' = [rpc EXCEPT ![s] = "none"]
  /\ UNCHANGED <<life, published, pc, admitted, info, queues, targets, completed,
                 callbacks, accepted, result>>

\* AwaitSendCallback::onFailure sets ec_ after completed_, before it locks.
setErrorCode(s) ==
  /\ rpc[s] = "failing"
  /\ ec' = [ec EXCEPT ![s] = TRUE]
  /\ rpc' = [rpc EXCEPT ![s] = "signal"]
  /\ UNCHANGED <<life, published, pc, admitted, info, queues, targets, completed,
                 callbacks, accepted, result>>

signalAll(s) ==
  /\ rpc[s] = "signal"
  /\ rpc' = [rpc EXCEPT ![s] = "none"]
  /\ pc' = [pc EXCEPT ![s] = IF pc[s] = "awaiting" THEN "await" ELSE pc[s]]
  /\ UNCHANGED <<life, published, admitted, info, queues, targets, completed, ec,
                 callbacks, accepted, result>>

-----------------------------------------------------------------------------
(* AwaitSendCallback::await and the end of the synchronous send *)

await(s) ==
  /\ Goto(s, "await", IF completed[s] THEN "read" ELSE "awaiting")
  /\ UNCHANGED <<life, published, admitted, info, callVars, result>>

readResult(s) ==
  /\ Goto(s, "read", "done")
  /\ Return(s, IF ec[s] THEN "failed" ELSE "ok")
  /\ UNCHANGED <<life, published, admitted, info, callVars>>

-----------------------------------------------------------------------------
\* The steps of the thread that called send.
call(s) ==
  \/ asyncPublishInfo(s) \/ forgetLookup(s) \/ lookupUnmanaged(s)
  \/ checkComplete(s) \/ waitComplete(s)
  \/ reject(s) \/ divideByZero(s) \/ \E n \in 1..MaxQueues : send0(s, n)
  \/ await(s) \/ readResult(s)

\* The steps of callback threads.
complete(s) ==
  \/ \E found \in BOOLEAN : publishInfoReady(s, found)
  \/ dropLookup(s)
  \/ onSuccess(s) \/ onFailure(s) \/ dropAnswer(s) \/ setErrorCode(s) \/ signalAll(s)

end == shutdown \/ resetManager \/ stopManager \/ destroyProducer

Next ==
  /\ crash = "none"
  /\ \/ end
     \/ \E s \in Senders : sendSync(s) \/ sendAsync(s) \/ call(s) \/ complete(s)

\* The threads that work for a call keep running, a route that was requested and
\* every attempt is answered by the server or by a connection error (the attempt
\* itself has no deadline), unless the manager stops and drops the answer.  A call
\* takes finitely many steps: none of its threads can starve another.
Fairness == \A s \in Senders : WF_vars(crash = "none" /\ (call(s) \/ complete(s)))

Spec == Init /\ [][Next]_vars /\ Fairness

-----------------------------------------------------------------------------
\* "Number of attempts before claiming a send action as failure"
\* (DefaultMQProducer.h): a send that reached a broker is reported as failed
\* only after exactly max_attempt_times_ attempts, none of them acknowledged,
\* and no attempt is made beyond that; and "Once the first publish attempt
\* failed, the following routable message queues are employed"
\* (SendCallbacks.h): a queue is tried again only after every other candidate.
FailsAfterAllAttempts ==
  \A s \in Senders :
    /\ Len(targets[s]) <= MaxAttemptTimes
    /\ ec[s] => Len(targets[s]) = MaxAttemptTimes /\ s \notin accepted
    /\ \A i, j \in 1..Len(targets[s]) :
         i < j /\ targets[s][i] = targets[s][j] => j - i >= queues[s]

\* The callback given to send, or the AwaitSendCallback of a synchronous call,
\* is called at most once over all attempts of RetrySendCallback, and never while
\* an attempt is on the wire, if the call passed ensureRunning; one that did not
\* is told twice at most (the asynchronous send goes on after the failure).
CallbackOnce ==
  \A s \in Senders :
    IF s \in admitted THEN callbacks[s] <= IF rpc[s] = "sent" THEN 0 ELSE 1
                      ELSE callbacks[s] <= IF rpc[s] = "sent" THEN 1 ELSE 2

\* What leaves a call without an outcome for ever: the end of the process (a null
\* client_manager_ after shutdown, or the division), or an answer or a route that
\* was dropped because the client manager stopped or no name server was known.
Abandoned(s) ==
  \/ crash = "null" /\ ~Managed
  \/ crash = "division"
  \/ rpc[s] = "lost" /\ stage = "stopped"
  \/ info[s] = "lost"

\* The outcome of the call is handed over, or it has not come to the point where
\* it waits for it: AwaitSendCallback, or the callback of an asynchronous send.
Over(s) == IF Sync(s) THEN pc[s] \notin {"await", "awaiting", "read"}
                      ELSE pc[s] = "idle" \/ callbacks[s] > 0

\* Once its message is on its way a synchronous send returns: the signal of
\* AwaitSendCallback is never lost, although completed_ is set outside the lock.
\* An asynchronous send ends in a call of its callback.  Both also when the
\* producer is shut down on the way, unless the call is abandoned.  (The wait of
\* getPublishInfo before it can miss its signal, against "Wait till acquiring
\* topic publish info completes": the property starts after it.)
SendsComplete == <>[](\A s \in Senders : Over(s) \/ Abandoned(s))

=============================================================================
