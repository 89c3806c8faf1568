----------------------------- MODULE SendProofs ------------------------------
(***************************************************************************)
(* Proofs about ProducerSend and Transactions, for every set of calls,     *)
(* every number of attempts and of candidate queues: what an outcome tells *)
(* the caller of send, and what the verdict of commit or rollback tells    *)
(* the owner of a transaction.                                             *)
(***************************************************************************)
EXTENDS Transactions, Integers, FiniteSetTheorems, TLAPS

-----------------------------------------------------------------------------
(* The candidates in turn *)

\* A candidate has an index.
LEMMA CandidateIndex == ASSUME NEW a \in Nat, NEW n \in Nat \ {0} PROVE messageQueue(a, n) \in Nat
BY DEF messageQueue

\* Two attempts on the same candidate of n are at least n attempts apart.
LEMMA SameCandidate ==
  ASSUME NEW n \in Nat \ {0}, NEW a \in Nat, NEW b \in Nat, a < b,
         messageQueue(a, n) = messageQueue(b, n)
  PROVE  b - a >= n
<1>1. PICK p \in Nat, r \in Int : a = n * p + r /\ r = a % n
  BY a = n * (a \div n) + (a % n), a \div n \in Nat, a % n \in Int
<1>2. PICK q \in Nat : b = n * q + r
  BY <1>1, b = n * (b \div n) + (b % n), b \div n \in Nat DEF messageQueue
<1>3. b - a = n * (q - p)
  BY <1>1, <1>2
<1>4. q - p > 0
  BY <1>3
<1>5. n * (q - p) >= n
  BY <1>4
<1> QED BY <1>3, <1>5

-----------------------------------------------------------------------------
(* The inductive invariant of a send *)

Places == {"idle", "ask", "check", "block", "wait", "routed", "select",
           "await", "awaiting", "read", "done"}

\* Before send0.
Early == {"idle", "ask", "check", "block", "wait", "routed", "select"}

\* The variables the argument is about hold values of their types.
SendType ==
  /\ pc \in [Senders -> Places]
  /\ admitted \in SUBSET Senders
  /\ queues \in [Senders -> Nat]
  /\ targets \in [Senders -> Seq(Nat)]
  /\ rpc \in [Senders -> {"none", "sent", "lost", "failing", "signal"}]
  /\ completed \in [Senders -> BOOLEAN]
  /\ ec \in [Senders -> BOOLEAN]
  /\ callbacks \in [Senders -> Nat]
  /\ accepted \in SUBSET Senders

\* The attempts go through the candidates in turn.
AttemptInv(s) ==
  /\ Len(targets[s]) <= MaxAttemptTimes
  /\ targets[s] # <<>> => queues[s] > 0
  /\ \A i \in 1..Len(targets[s]) : targets[s][i] = messageQueue(i - 1, queues[s])

\* An error code follows the last attempt; the call is open until then.
OutcomeInv(s) ==
  /\ pc[s] \in Early => targets[s] = <<>> /\ rpc[s] = "none" /\ ~ec[s] /\ s \notin accepted
  /\ rpc[s] = "sent" => targets[s] # <<>> /\ ~ec[s] /\ s \notin accepted
  /\ rpc[s] = "failing" => Len(targets[s]) = MaxAttemptTimes /\ s \notin accepted
  /\ ec[s] => Len(targets[s]) = MaxAttemptTimes /\ s \notin accepted

\* While a call is open its callback was called by ensureRunning at most.
CallbackInv(s) ==
  /\ pc[s] = "idle" => callbacks[s] = 0 /\ s \notin admitted
  /\ pc[s] \in Early \/ rpc[s] = "sent" => callbacks[s] <= IF s \in admitted THEN 0 ELSE 1
  /\ callbacks[s] <= IF s \in admitted THEN 1 ELSE 2

\* The producer is destroyed only when no thread is in a call, so that no attempt
\* of a synchronous call is answered afterwards.
AwaitInv(s) ==
  /\ pc[s] \in Early => ~completed[s]
  /\ Sync(s) /\ rpc[s] = "sent" => pc[s] \in {"await", "awaiting"} /\ ~completed[s]
  /\ destroyed => pc[s] \in {"idle", "done"}

CallInv(s) == AttemptInv(s) /\ OutcomeInv(s) /\ CallbackInv(s) /\ AwaitInv(s)

\* Transactions adds one way to end the process to the steps of the producer.
SendStep == Next \/ Crash("null")

SendInv == SendType /\ \A s \in Senders : CallInv(s)

\* A step of another call.
Apart(t) ==
  /\ pc'[t] = pc[t] /\ queues'[t] = queues[t] /\ targets'[t] = targets[t]
  /\ rpc'[t] = rpc[t] /\ ec'[t] = ec[t] /\ callbacks'[t] = callbacks[t]
  /\ completed'[t] = completed[t] /\ destroyed' = destroyed
  /\ t \in admitted' <=> t \in admitted
  /\ t \in accepted' <=> t \in accepted

\* The calls do not share state: a step of one keeps the invariant of the others.
LEMMA ApartStep ==
  ASSUME SendInv, NEW s \in Senders, SendType', CallInv(s)',
         \A t \in Senders \ {s} : Apart(t)
  PROVE  SendInv'
<1>1. ASSUME NEW t \in Senders \ {s} PROVE CallInv(t)'
  <2>1. Apart(t) /\ CallInv(t)
    BY DEF SendInv
  <2>2. AttemptInv(t)'
    BY <2>1 DEF Apart, CallInv, AttemptInv
  <2>3. OutcomeInv(t)'
    BY <2>1 DEF Apart, CallInv, OutcomeInv
  <2>4. CallbackInv(t)'
    BY <2>1 DEF Apart, CallInv, CallbackInv
  <2>5. AwaitInv(t)'
    BY <2>1 DEF Apart, CallInv, AwaitInv, Sync
  <2> QED BY <2>2, <2>3, <2>4, <2>5 DEF CallInv
<1> QED BY <1>1 DEF SendInv

\* The count of callbacks stays a count.
LEMMA Counted ==
  ASSUME NEW f \in [Senders -> Nat], NEW s \in Senders
  PROVE  [f EXCEPT ![s] = @ + 1] \in [Senders -> Nat]
<1>1. f[s] + 1 \in Nat
  OBVIOUS
<1> QED BY <1>1

\* The next attempt goes to the candidate after the last one.
LEMMA AttemptStep ==
  ASSUME SendInv, NEW s \in Senders, NEW n \in Nat \ {0},
         targets[s] # <<>> => n = queues[s],
         Len(targets[s]) < MaxAttemptTimes,
         queues'[s] = n,
         sendImpl(s, n)
  PROVE  /\ targets' \in [Senders -> Seq(Nat)]
         /\ \A t \in Senders \ {s} : targets'[t] = targets[t]
         /\ targets'[s] # <<>>
         /\ AttemptInv(s)'
<1>1. targets[s] \in Seq(Nat) /\ Len(targets[s]) \in Nat
  BY DEF SendInv, SendType
<1>2. messageQueue(Len(targets[s]), n) \in Nat
  BY <1>1, CandidateIndex
<1>3. targets'[s] = Append(targets[s], messageQueue(Len(targets[s]), n))
      /\ \A t \in Senders \ {s} : targets'[t] = targets[t]
  BY DEF sendImpl, SendInv, SendType
<1> DEFINE old == targets[s]
           q == messageQueue(Len(old), n)
<1>4. Append(old, q) \in Seq(Nat)
  BY <1>1, <1>2
<1>5. targets' \in [Senders -> Seq(Nat)]
  BY <1>4 DEF sendImpl, SendInv, SendType
<1>6. /\ Len(targets'[s]) = Len(old) + 1
      /\ \A i \in 1..Len(old) : targets'[s][i] = old[i]
      /\ targets'[s][Len(old) + 1] = q
  BY <1>1, <1>2, <1>3
<1>7. ASSUME NEW i \in 1..(Len(old) + 1) PROVE targets'[s][i] = messageQueue(i - 1, n)
  <2>1. CASE i \in 1..Len(old)
    <3>1. old # <<>>
      BY <1>1, <2>1
    <3> QED BY <1>6, <2>1, <3>1 DEF SendInv, CallInv, AttemptInv
  <2>2. CASE i = Len(old) + 1
    <3>1. i - 1 = Len(old)
      BY <1>1, <2>2
    <3> QED BY <1>6, <2>2, <3>1
  <2> QED BY <1>1, <2>1, <2>2
<1>8. targets'[s] # <<>>
  BY <1>1, <1>6
<1>9. AttemptInv(s)'
  <2>1. Len(targets'[s]) <= MaxAttemptTimes
    BY <1>1, <1>6, SendAssumption
  <2> QED BY <1>6, <1>7, <2>1 DEF AttemptInv
<1> QED BY <1>3, <1>5, <1>8, <1>9

\* The variables of a call but its program counter.
restOfCall == <<destroyed, admitted, queues, targets, rpc, completed, ec, callbacks, accepted>>

\* A step that only moves the calling thread, never back before send0.
LEMMA ThreadStep ==
  ASSUME SendInv, NEW s \in Senders, NEW to \in Places,
         pc' = [pc EXCEPT ![s] = to], UNCHANGED restOfCall,
         to \in Early => pc[s] \in Early,
         to = "idle" => pc[s] = "idle",
         pc[s] \in {"idle", "done"} => to = pc[s],
         pc[s] \in {"await", "awaiting"} /\ ~completed[s] => to \in {"await", "awaiting"}
  PROVE  SendInv'
<1>1. UNCHANGED <<destroyed, admitted, queues, targets, rpc, completed, ec, callbacks, accepted>>
  BY DEF restOfCall
<1>2. pc' \in [Senders -> Places] /\ pc'[s] = to /\ \A t \in Senders \ {s} : pc'[t] = pc[t]
  BY DEF SendInv, SendType
<1>3. SendType'
  BY <1>1, <1>2 DEF SendInv, SendType
<1>4. \A t \in Senders \ {s} : Apart(t)
  BY <1>1, <1>2 DEF Apart
<1>5. AttemptInv(s) /\ OutcomeInv(s) /\ CallbackInv(s) /\ AwaitInv(s)
  BY DEF SendInv, CallInv
<1>6. AttemptInv(s)'
  BY <1>1, <1>5 DEF AttemptInv
<1>7. OutcomeInv(s)'
  BY <1>1, <1>2, <1>5 DEF OutcomeInv
<1>8. CallbackInv(s)'
  BY <1>1, <1>2, <1>5 DEF CallbackInv
<1>9. AwaitInv(s)'
  BY <1>1, <1>2, <1>5 DEF AwaitInv, Sync
<1> QED BY <1>3, <1>4, <1>6, <1>7, <1>8, <1>9, ApartStep DEF CallInv

\* The head of send.
LEMMA EnterStep ==
  ASSUME SendInv, NEW s \in Senders, sendSync(s) \/ sendAsync(s)
  PROVE  SendInv'
<1>1. /\ pc[s] = "idle" /\ ~destroyed
      /\ pc' = [pc EXCEPT ![s] = pc'[s]]
      /\ pc'[s] \in {"ask", "done"}
      /\ UNCHANGED <<destroyed, queues, targets, rpc, completed, ec, accepted>>
  BY DEF sendSync, sendAsync, Goto, callVars, life, SendInv, SendType
<1>2. /\ admitted' = admitted \/ admitted' = admitted \cup {s}
      /\ callbacks' = callbacks
         \/ (s \notin admitted' /\ callbacks' = [callbacks EXCEPT ![s] = @ + 1])
  BY DEF sendSync, sendAsync, callVars, SendInv, CallInv, CallbackInv, Goto
<1>3. SendType'
  <2>1. callbacks' \in [Senders -> Nat]
    <3>1. callbacks \in [Senders -> Nat]
      BY DEF SendInv, SendType
    <3>2. [callbacks EXCEPT ![s] = @ + 1] \in [Senders -> Nat]
      BY <3>1, Counted
    <3> QED BY <1>2, <3>1, <3>2
  <2>2. admitted' \in SUBSET Senders /\ pc' \in [Senders -> Places]
    BY <1>1, <1>2 DEF SendInv, SendType, Places
  <2> QED BY <1>1, <2>1, <2>2 DEF SendInv, SendType
<1>4. \A t \in Senders \ {s} : Apart(t)
  BY <1>1, <1>2 DEF Apart, SendInv, SendType
<1>5. AttemptInv(s) /\ OutcomeInv(s) /\ CallbackInv(s) /\ AwaitInv(s)
  BY DEF SendInv, CallInv
<1>6. AttemptInv(s)'
  BY <1>1, <1>5 DEF AttemptInv
<1>7. OutcomeInv(s)' /\ AwaitInv(s)'
  BY <1>1, <1>5 DEF OutcomeInv, AwaitInv, Early
<1>8. CallbackInv(s)'
  <2>1. callbacks[s] = 0 /\ pc'[s] # "idle"
    BY <1>1, <1>5 DEF CallbackInv
  <2>2. callbacks'[s] = 0 \/ (s \notin admitted' /\ callbacks'[s] = 1)
    BY <1>2, <2>1 DEF SendInv, SendType
  <2> QED BY <2>1, <2>2 DEF CallbackInv
<1> QED BY <1>3, <1>4, <1>6, <1>7, <1>8, ApartStep DEF CallInv

\* send ends before an attempt is made.
LEMMA RejectStep ==
  ASSUME SendInv, NEW s \in Senders, reject(s)
  PROVE  SendInv'
<1>1. /\ pc[s] = "select" /\ pc' = [pc EXCEPT ![s] = "done"]
      /\ UNCHANGED <<destroyed, admitted, queues, targets, rpc, completed, ec, accepted>>
      /\ callbacks' = callbacks \/ callbacks' = [callbacks EXCEPT ![s] = @ + 1]
  BY DEF reject, Goto, Callback, life
<1>2. SendType'
  <2>1. callbacks' \in [Senders -> Nat]
    BY <1>1, Counted DEF SendInv, SendType
  <2>2. pc' \in [Senders -> Places]
    BY <1>1 DEF SendInv, SendType, Places
  <2> QED BY <1>1, <2>1, <2>2 DEF SendInv, SendType
<1>3. \A t \in Senders \ {s} : Apart(t)
  BY <1>1 DEF Apart, SendInv, SendType
<1>4. AttemptInv(s) /\ OutcomeInv(s) /\ CallbackInv(s) /\ AwaitInv(s) /\ pc[s] \in Early
  BY <1>1 DEF SendInv, CallInv, Early
<1>5. pc'[s] = "done" /\ pc'[s] \notin Early
  BY <1>1 DEF SendInv, SendType, Early
<1>6. AttemptInv(s)'
  BY <1>1, <1>4 DEF AttemptInv
<1>7. OutcomeInv(s)' /\ AwaitInv(s)'
  BY <1>1, <1>4, <1>5 DEF OutcomeInv, AwaitInv
<1>8. CallbackInv(s)'
  <2>1. callbacks[s] \in Nat /\ (callbacks'[s] = callbacks[s] \/ callbacks'[s] = callbacks[s] + 1)
    BY <1>1 DEF SendInv, SendType
  <2>2. rpc'[s] # "sent"
    BY <1>1, <1>4 DEF OutcomeInv
  <2> QED BY <1>1, <1>4, <1>5, <2>1, <2>2 DEF CallbackInv
<1> QED BY <1>2, <1>3, <1>6, <1>7, <1>8, ApartStep DEF CallInv

\* The first attempt.
LEMMA FirstStep ==
  ASSUME SendInv, NEW s \in Senders, NEW n \in 1..MaxQueues, send0(s, n)
  PROVE  SendInv'
<1>1. /\ pc[s] = "select" /\ pc' = [pc EXCEPT ![s] = pc'[s]]
      /\ pc'[s] = IF Sync(s) THEN "await" ELSE "done"
      /\ queues' = [queues EXCEPT ![s] = n]
      /\ sendImpl(s, n)
      /\ rpc' = [rpc EXCEPT ![s] = "sent"]
      /\ UNCHANGED <<destroyed, admitted, completed, ec, callbacks, accepted>>
  BY DEF send0, Goto, SendInv, SendType
<1>2. OutcomeInv(s) /\ CallbackInv(s) /\ AwaitInv(s) /\ pc[s] \in Early /\ n \in Nat \ {0}
  BY <1>1, SendAssumption DEF SendInv, CallInv, Early
<1>3. targets[s] = <<>> /\ ~ec[s] /\ s \notin accepted
  BY <1>2 DEF OutcomeInv
<1>4. /\ targets' \in [Senders -> Seq(Nat)]
      /\ \A t \in Senders \ {s} : targets'[t] = targets[t]
      /\ targets'[s] # <<>>
      /\ AttemptInv(s)'
  <2>1. Len(targets[s]) < MaxAttemptTimes
    BY <1>3, SendAssumption
  <2>2. queues'[s] = n
    BY <1>1 DEF SendInv, SendType
  <2> QED BY <1>1, <1>2, <1>3, <2>1, <2>2, AttemptStep
<1>5. SendType'
  BY <1>1, <1>2, <1>4 DEF SendInv, SendType, Places
<1>6. \A t \in Senders \ {s} : Apart(t)
  BY <1>1, <1>4 DEF Apart, SendInv, SendType
<1>7. rpc'[s] = "sent" /\ pc'[s] \notin Early /\ pc'[s] # "idle"
  BY <1>1 DEF SendInv, SendType, Early
<1>8. OutcomeInv(s)' /\ AwaitInv(s)'
  <2>1. AwaitInv(s)'
    BY <1>1, <1>2, <1>7 DEF AwaitInv, Sync
  <2> QED BY <1>1, <1>3, <1>4, <1>7, <2>1 DEF OutcomeInv
<1>9. CallbackInv(s)'
  BY <1>1, <1>2, <1>7 DEF CallbackInv
<1> QED BY <1>4, <1>5, <1>6, <1>8, <1>9, ApartStep DEF CallInv

\* The answer to an attempt: success, the failure of the last one, or the next
\* attempt.
LEMMA AnswerStep ==
  ASSUME SendInv, NEW s \in Senders, onSuccess(s) \/ onFailure(s)
  PROVE  SendInv'
<1>1. rpc[s] = "sent" /\ UNCHANGED <<destroyed, pc, admitted, queues, ec>>
  BY DEF onSuccess, onFailure, life
<1>2. AttemptInv(s) /\ OutcomeInv(s) /\ CallbackInv(s) /\ AwaitInv(s)
  BY DEF SendInv, CallInv
<1>3. pc[s] \notin Early /\ targets[s] # <<>> /\ ~ec[s] /\ s \notin accepted
  BY <1>1, <1>2 DEF OutcomeInv
<1>4. pc[s] # "idle"
  BY <1>3 DEF Early
<1>5. CASE onSuccess(s) \/ (onFailure(s) /\ (Len(targets[s]) >= MaxAttemptTimes \/ destroyed))
  <2>1. /\ callbacks' = [callbacks EXCEPT ![s] = @ + 1]
        /\ rpc' = [rpc EXCEPT ![s] = rpc'[s]] /\ rpc'[s] \in {"none", "failing", "signal"}
        /\ completed' = [completed EXCEPT ![s] = Sync(s)]
        /\ UNCHANGED targets
        /\ accepted' = accepted \/ (accepted' = accepted \cup {s} /\ rpc'[s] # "failing")
    BY <1>5 DEF onSuccess, onFailure, Callback, SendInv, SendType
  <2>2. rpc'[s] = "failing" => Len(targets[s]) = MaxAttemptTimes /\ accepted' = accepted
    <3>1. rpc'[s] = "failing" => /\ Sync(s) /\ accepted' = accepted
                                 /\ Len(targets[s]) >= MaxAttemptTimes \/ destroyed
      BY <1>5, <2>1 DEF onSuccess, onFailure, SendInv, SendType
    <3>2. Sync(s) => ~destroyed
      BY <1>1, <1>2 DEF AwaitInv
    <3> QED BY <1>2, <3>1, <3>2, SendAssumption DEF AttemptInv, SendInv, SendType
  <2>3. SendType'
    <3>1. callbacks' \in [Senders -> Nat]
      BY <2>1, Counted DEF SendInv, SendType
    <3>2. rpc' \in [Senders -> {"none", "sent", "lost", "failing", "signal"}]
      BY <2>1 DEF SendInv, SendType
    <3>3. accepted' \in SUBSET Senders /\ completed' \in [Senders -> BOOLEAN]
      BY <2>1 DEF SendInv, SendType, Sync
    <3> QED BY <1>1, <2>1, <3>1, <3>2, <3>3 DEF SendInv, SendType
  <2>4. \A t \in Senders \ {s} : Apart(t)
    BY <1>1, <2>1 DEF Apart, SendInv, SendType
  <2>5. AttemptInv(s)'
    BY <1>1, <1>2, <2>1 DEF AttemptInv
  <2>6. OutcomeInv(s)' /\ AwaitInv(s)'
    <3>1. AwaitInv(s)'
      BY <1>1, <1>2, <1>3, <2>1 DEF AwaitInv
    <3> QED BY <1>1, <1>3, <2>1, <2>2, <3>1 DEF OutcomeInv
  <2>7. CallbackInv(s)'
    <3>1. callbacks'[s] = callbacks[s] + 1 /\ callbacks[s] \in Nat
      BY <2>1 DEF SendInv, SendType
    <3> QED BY <1>1, <1>2, <1>3, <1>4, <2>1, <3>1 DEF CallbackInv
  <2> QED BY <2>3, <2>4, <2>5, <2>6, <2>7, ApartStep DEF CallInv
<1>6. CASE onFailure(s) /\ ~ (Len(targets[s]) >= MaxAttemptTimes \/ destroyed)
  <2>1. sendImpl(s, queues[s]) /\ UNCHANGED <<rpc, completed, callbacks, accepted>>
    BY <1>6 DEF onFailure
  <2>2. queues[s] \in Nat \ {0} /\ queues'[s] = queues[s] /\ Len(targets[s]) < MaxAttemptTimes
    BY <1>1, <1>2, <1>3, <1>6, SendAssumption DEF AttemptInv, SendInv, SendType
  <2>3. /\ targets' \in [Senders -> Seq(Nat)]
        /\ \A t \in Senders \ {s} : targets'[t] = targets[t]
        /\ targets'[s] # <<>>
        /\ AttemptInv(s)'
    BY <2>1, <2>2, AttemptStep
  <2>4. SendType'
    BY <1>1, <2>1, <2>3 DEF SendInv, SendType
  <2>5. \A t \in Senders \ {s} : Apart(t)
    BY <1>1, <2>1, <2>3 DEF Apart
  <2>6. OutcomeInv(s)' /\ AwaitInv(s)'
    BY <1>1, <1>2, <1>3, <2>1, <2>3 DEF OutcomeInv, AwaitInv, Sync
  <2>7. CallbackInv(s)'
    BY <1>1, <1>2, <2>1 DEF CallbackInv
  <2> QED BY <2>3, <2>4, <2>5, <2>6, <2>7, ApartStep DEF CallInv
<1> QED BY <1>5, <1>6

\* AwaitSendCallback publishes the outcome, or the answer is dropped.
LEMMA SignalStep ==
  ASSUME SendInv, NEW s \in Senders, setErrorCode(s) \/ signalAll(s) \/ dropAnswer(s)
  PROVE  SendInv'
<1>1. /\ rpc[s] \in {"sent", "failing", "signal"}
      /\ rpc' = [rpc EXCEPT ![s] = rpc'[s]] /\ rpc'[s] \in {"none", "signal", "lost"}
      /\ UNCHANGED <<destroyed, admitted, queues, targets, completed, callbacks, accepted>>
      /\ ec' = ec \/ (rpc[s] = "failing" /\ ec' = [ec EXCEPT ![s] = TRUE])
      /\ pc' = [pc EXCEPT ![s] = pc'[s]]
      /\ pc'[s] = pc[s] \/ (pc[s] = "awaiting" /\ pc'[s] = "await")
  BY DEF setErrorCode, signalAll, dropAnswer, life, SendInv, SendType
<1>2. AttemptInv(s) /\ OutcomeInv(s) /\ CallbackInv(s) /\ AwaitInv(s)
  BY DEF SendInv, CallInv
<1>3. pc[s] \notin Early /\ pc'[s] \notin Early
  BY <1>1, <1>2 DEF OutcomeInv, Early
<1>4. SendType'
  <2>1. pc' \in [Senders -> Places]
    <3>1. pc'[s] \in Places
      BY <1>1 DEF SendInv, SendType, Places
    <3> QED BY <1>1, <3>1 DEF SendInv, SendType
  <2>2. rpc' \in [Senders -> {"none", "sent", "lost", "failing", "signal"}]
    BY <1>1 DEF SendInv, SendType
  <2>3. ec' \in [Senders -> BOOLEAN]
    BY <1>1 DEF SendInv, SendType
  <2> QED BY <1>1, <2>1, <2>2, <2>3 DEF SendInv, SendType
<1>5. \A t \in Senders \ {s} : Apart(t)
  BY <1>1 DEF Apart, SendInv, SendType
<1>6. AttemptInv(s)'
  BY <1>1, <1>2 DEF AttemptInv
<1>7. OutcomeInv(s)'
  <2>1. ec'[s] => ec[s] \/ rpc[s] = "failing"
    BY <1>1 DEF SendInv, SendType
  <2> QED BY <1>1, <1>2, <1>3, <2>1 DEF OutcomeInv
<1>8. CallbackInv(s)'
  BY <1>1, <1>2, <1>3 DEF CallbackInv, Early
<1>9. AwaitInv(s)'
  BY <1>1, <1>2, <1>3 DEF AwaitInv
<1> QED BY <1>4, <1>5, <1>6, <1>7, <1>8, <1>9, ApartStep DEF CallInv

\* Every step of the producer keeps the invariant.
LEMMA SendInductive == SendInv /\ [SendStep]_vars => SendInv'
<1> SUFFICES ASSUME SendInv, [SendStep]_vars PROVE SendInv'
  OBVIOUS
<1>1. CASE UNCHANGED <<pc, admitted, queues, targets, rpc, completed, ec, callbacks, accepted>>
           /\ (UNCHANGED destroyed \/ \A s \in Senders : pc[s] \in {"idle", "done"})
  <2>1. SendType'
    BY <1>1 DEF SendInv, SendType
  <2>2. ASSUME NEW s \in Senders PROVE CallInv(s)'
    <3>1. AwaitInv(s)'
      BY <1>1 DEF SendInv, CallInv, AwaitInv, Sync
    <3> QED BY <1>1, <3>1 DEF SendInv, CallInv, AttemptInv, OutcomeInv, CallbackInv
  <2> QED BY <2>1, <2>2 DEF SendInv
<1>11. CASE end \/ UNCHANGED vars
  BY <1>1, <1>11 DEF end, shutdown, resetManager, stopManager, destroyProducer, vars, life, callVars
<1>12. ASSUME NEW cause, Crash(cause) PROVE SendInv'
  BY <1>1, <1>12 DEF Crash, callVars
<1>13. ASSUME NEW s \in Senders, lookupUnmanaged(s) \/ divideByZero(s) \/ dropLookup(s)
       PROVE  SendInv'
  BY <1>1, <1>12, <1>13 DEF lookupUnmanaged, divideByZero, dropLookup, life, callVars
<1>2. ASSUME NEW s \in Senders,
             \/ asyncPublishInfo(s) \/ forgetLookup(s) \/ checkComplete(s) \/ waitComplete(s)
             \/ await(s) \/ readResult(s)
             \/ \E found \in BOOLEAN : publishInfoReady(s, found)
      PROVE  SendInv'
  <2>1. UNCHANGED restOfCall
    BY <1>2 DEF asyncPublishInfo, forgetLookup, checkComplete, waitComplete, await, readResult,
                publishInfoReady, life, callVars, restOfCall
  <2> DEFINE Moves(to) ==
        /\ pc' = [pc EXCEPT ![s] = to]
        /\ to \in Early => pc[s] \in Early
        /\ to = "idle" => pc[s] = "idle"
        /\ pc[s] \in {"idle", "done"} => to = pc[s]
        /\ pc[s] \in {"await", "awaiting"} /\ ~completed[s] => to \in {"await", "awaiting"}
  <2>2. PICK to \in Places : Moves(to)
    <3>1. CASE asyncPublishInfo(s) \/ forgetLookup(s) \/ checkComplete(s) \/ waitComplete(s)
      BY <3>1 DEF asyncPublishInfo, forgetLookup, checkComplete, waitComplete, Goto, Places, Early
    <3>2. CASE await(s) \/ readResult(s)
      BY <3>2 DEF await, readResult, Goto, Places, Early
    <3>3. ASSUME NEW found \in BOOLEAN, publishInfoReady(s, found)
          PROVE  \E to \in Places : Moves(to)
      <4>1. pc[s] \in Places
        BY DEF SendInv, SendType
      <4> QED BY <3>3, <4>1 DEF publishInfoReady, Places, Early
    <3> QED BY <1>2, <3>1, <3>2, <3>3
  <2> QED BY <2>1, <2>2, ThreadStep
<1> QED BY <1>11, <1>12, <1>13, <1>2, EnterStep, RejectStep, FirstStep, AnswerStep, SignalStep
        DEF SendStep, Next, call, complete

\* No call has begun.
LEMMA SendInitial == Init => SendInv
<1> SUFFICES ASSUME Init PROVE SendInv
  OBVIOUS
<1>1. SendType
  BY DEF Init, SendType, Places
<1>2. ASSUME NEW s \in Senders PROVE CallInv(s)
  <2>1. /\ pc[s] = "idle" /\ targets[s] = <<>> /\ rpc[s] = "none" /\ ~ec[s] /\ callbacks[s] = 0
        /\ s \notin accepted /\ s \notin admitted /\ ~completed[s] /\ ~destroyed
    BY DEF Init
  <2>2. Len(targets[s]) = 0
    BY <2>1
  <2>3. AttemptInv(s)
    BY <2>1, <2>2, SendAssumption DEF AttemptInv
  <2> QED BY <2>1, <2>3 DEF CallInv, OutcomeInv, CallbackInv, AwaitInv
<1> QED BY <1>1, <1>2 DEF SendInv

-----------------------------------------------------------------------------
(* What the outcome of a send says *)

\* Transactions only adds to a send: but for a call of commit or rollback that
\* meets a null client_manager_ it allows no step that ProducerSend forbids.
LEMMA TxStepIsSendStep == [TxNext]_allVars => [SendStep]_vars
<1> SUFFICES ASSUME [TxNext]_allVars PROVE [SendStep]_vars
  OBVIOUS
<1>1. CASE UNCHANGED allVars
  BY <1>1 DEF allVars
<1> SUFFICES ASSUME TxNext PROVE [SendStep]_vars
  BY <1>1
<1>2. CASE shutdown \/ resetManager \/ stopManager \/ destroyProducer
  BY <1>2 DEF SendStep, Next, TxNext, end
<1>3. ASSUME NEW s \in Senders, sendSync(s) \/ sendAsync(s) \/ call(s) \/ complete(s)
      PROVE  SendStep
  BY <1>3 DEF SendStep, Next, TxNext
<1>5. ASSUME NEW s \in Transactional,
             store(s) \/ prepare(s) \/ EndStep(s) \/ waitEnd(s) \/ endUnmanaged(s)
      PROVE  [SendStep]_vars
  <2>1. CASE prepare(s)
    <3>1. s \in Senders
      BY SendAssumption, TransactionAssumption
    <3> QED BY <1>3, <2>1, <3>1 DEF prepare
  <2>2. CASE store(s) \/ EndStep(s) \/ waitEnd(s)
    BY <2>2 DEF store, EndStep, resolve, fail, dropEnd, onAnswer, signalEnd, waitEnd
  <2>3. CASE endUnmanaged(s)
    BY <2>3 DEF endUnmanaged, SendStep
  <2> QED BY <1>5, <2>1, <2>2, <2>3
<1>6. ASSUME NEW s \in Transactional, NEW r \in TransactionState, endTransaction(s, r)
      PROVE  [SendStep]_vars
  BY <1>6 DEF endTransaction
<1> QED BY <1>2, <1>3, <1>5, <1>6 DEF TxNext

\* The invariant of a send holds with transactions and without.
LEMMA SendInvariant == (Spec => []SendInv) /\ (TxSpec => []SendInv)
<1>1. TxInit => Init
  BY DEF TxInit
<1>2. [Next]_vars => [SendStep]_vars
  BY DEF SendStep
<1> QED BY <1>1, <1>2, SendInitial, SendInductive, TxStepIsSendStep, PTL DEF Spec, TxSpec

\* What the invariant says of the attempts: the candidates are visited in turn.
LEMMA AttemptsInTurn == SendInv => FailsAfterAllAttempts
<1> SUFFICES ASSUME SendInv, NEW s \in Senders
             PROVE  /\ Len(targets[s]) <= MaxAttemptTimes
                    /\ ec[s] => Len(targets[s]) = MaxAttemptTimes /\ s \notin accepted
                    /\ \A i, j \in 1..Len(targets[s]) :
                         i < j /\ targets[s][i] = targets[s][j] => j - i >= queues[s]
  BY DEF FailsAfterAllAttempts
<1>1. AttemptInv(s) /\ OutcomeInv(s)
  BY DEF SendInv, CallInv
<1>2. ASSUME NEW i \in 1..Len(targets[s]), NEW j \in 1..Len(targets[s]), i < j,
             targets[s][i] = targets[s][j]
      PROVE  j - i >= queues[s]
  <2>1. queues[s] \in Nat \ {0} /\ Len(targets[s]) \in Nat
    <3>1. targets[s] \in Seq(Nat) /\ queues[s] \in Nat
      BY DEF SendInv, SendType
    <3>2. targets[s] # <<>>
      BY <3>1, <1>2
    <3> QED BY <1>1, <3>1, <3>2 DEF AttemptInv
  <2>2. i - 1 \in Nat /\ j - 1 \in Nat /\ i - 1 < j - 1
    BY <1>2, <2>1
  <2>3. messageQueue(i - 1, queues[s]) = messageQueue(j - 1, queues[s])
    BY <1>1, <1>2 DEF AttemptInv
  <2>4. (j - 1) - (i - 1) >= queues[s]
    BY <2>1, <2>2, <2>3, SameCandidate
  <2> QED BY <1>2, <2>1, <2>4
<1> QED BY <1>1, <1>2 DEF AttemptInv, OutcomeInv

\* A send is reported as failed only after exactly max_attempt_times_ attempts,
\* none of them acknowledged, and a candidate queue is tried again only after
\* every other one: for every number of calls, attempts and candidates, whatever
\* shutdown, transactions and the callbacks of other calls do in between.
THEOREM SendFailsAfterAllAttempts == TxSpec => []FailsAfterAllAttempts
BY SendInvariant, AttemptsInTurn, PTL

\* RetrySendCallback ends in one call of the caller's callback at most, and in
\* none while an attempt is on the wire.
THEOREM SendCallbackOnce == TxSpec => []CallbackOnce
<1>1. SendInv => CallbackOnce
  BY DEF SendInv, SendType, CallInv, CallbackInv, CallbackOnce
<1> QED BY <1>1, SendInvariant, PTL

-----------------------------------------------------------------------------
(* The inductive invariant of a transaction *)

TxType ==
  /\ stored \in [Transactional -> SUBSET Nat]
  /\ resolutions \in [Transactional -> SUBSET (Nat \X TransactionState)]
  /\ acknowledged \in [Transactional -> Nat]
  /\ ends \in [Transactional -> Seq(TransactionState)]
  /\ tpc \in [Transactional -> {"idle", "wait", "asleep"}]
  /\ answer \in [Transactional -> {"none", "sent", "ok", "error", "signal", "lost"}]
  /\ success \in [Transactional -> BOOLEAN]
  /\ verdicts \in [Transactional -> SUBSET TransactionState]

\* What the broker keeps: the last attempt is the acknowledged one, and it is the
\* only one that is ever resolved.
BrokerInv(s) ==
  /\ stored[s] \subseteq 1..Len(targets[s])
  /\ s \in accepted => acknowledged[s] = Len(targets[s]) /\ acknowledged[s] \in stored[s]
  /\ s \notin accepted => acknowledged[s] = 0 /\ resolutions[s] = {}
  /\ \A x \in resolutions[s] : x[1] = acknowledged[s]
  /\ \A x, y \in resolutions[s] : x = y

\* The request in flight was carried out.
Confirmed(s) == <<acknowledged[s], Resolution(s)>> \in resolutions[s]

\* A good answer, and a flag set from one, belong to the request in flight.
EndInv(s) ==
  /\ tpc[s] = "idle" => answer[s] = "none"
  /\ answer[s] # "none" => ends[s] # <<>>
  /\ answer[s] = "ok" \/ (answer[s] = "signal" /\ success[s]) => Confirmed(s)
  /\ \A r \in verdicts[s] : <<acknowledged[s], r>> \in resolutions[s]

TxInv == TxType /\ \A s \in Transactional : BrokerInv(s) /\ EndInv(s)

\* A step of the send that made the transaction, or of another transaction.
SendSide(t) ==
  /\ Len(targets[t]) <= Len(targets'[t])
  /\ t \in accepted => targets'[t] = targets[t]

TxApart(t) ==
  /\ stored'[t] = stored[t] /\ resolutions'[t] = resolutions[t]
  /\ acknowledged'[t] = acknowledged[t] /\ ends'[t] = ends[t] /\ tpc'[t] = tpc[t]
  /\ answer'[t] = answer[t] /\ success'[t] = success[t] /\ verdicts'[t] = verdicts[t]
  /\ t \in accepted' <=> t \in accepted

\* The attempts of a call only grow in number, and not once one is acknowledged.
LEMMA TargetsGrow ==
  ASSUME SendInv, [SendStep]_vars, NEW t \in Senders
  PROVE  SendSide(t)
<1>1. CASE UNCHANGED targets
  BY <1>1 DEF SendSide, SendInv, SendType
<1>2. ASSUME NEW s \in Senders, NEW n \in Nat, sendImpl(s, n), s \notin accepted
      PROVE  SendSide(t)
  <2>1. targets[s] \in Seq(Nat) /\ Len(targets[s]) \in Nat /\ targets[t] \in Seq(Nat)
    BY DEF SendInv, SendType
  <2>2. t = s => Len(targets'[t]) = Len(targets[t]) + 1
    BY <1>2, <2>1 DEF sendImpl, SendInv, SendType
  <2>3. t # s => targets'[t] = targets[t]
    BY <1>2 DEF sendImpl, SendInv, SendType
  <2> QED BY <1>2, <2>1, <2>2, <2>3 DEF SendSide
<1>3. ASSUME NEW s \in Senders, NEW n \in 1..MaxQueues, send0(s, n)
      PROVE  SendSide(t)
  <2>1. pc[s] \in Early /\ sendImpl(s, n) /\ n \in Nat
    BY <1>3, SendAssumption DEF send0, Goto, Early
  <2>2. s \notin accepted
    BY <2>1 DEF SendInv, CallInv, OutcomeInv
  <2> QED BY <1>2, <2>1, <2>2
<1>4. ASSUME NEW s \in Senders, onFailure(s)
      PROVE  SendSide(t)
  <2>1. UNCHANGED targets \/ sendImpl(s, queues[s])
    BY <1>4 DEF onFailure
  <2>2. s \notin accepted /\ queues[s] \in Nat
    BY <1>4 DEF onFailure, SendInv, SendType, CallInv, OutcomeInv
  <2> QED BY <1>1, <1>2, <2>1, <2>2
<1>5. CASE UNCHANGED vars \/ end \/ Crash("null")
  BY <1>1, <1>5 DEF vars, callVars, end, shutdown, resetManager, stopManager, destroyProducer, Crash
<1>6. ASSUME NEW s \in Senders,
             \/ sendSync(s) \/ sendAsync(s) \/ asyncPublishInfo(s) \/ checkComplete(s)
             \/ waitComplete(s) \/ reject(s) \/ await(s) \/ readResult(s)
             \/ forgetLookup(s) \/ lookupUnmanaged(s) \/ divideByZero(s)
             \/ dropLookup(s) \/ dropAnswer(s)
             \/ onSuccess(s) \/ setErrorCode(s) \/ signalAll(s)
             \/ \E found \in BOOLEAN : publishInfoReady(s, found)
      PROVE  UNCHANGED targets
  BY <1>6 DEF sendSync, sendAsync, asyncPublishInfo, checkComplete, waitComplete, reject,
              forgetLookup, lookupUnmanaged, divideByZero, dropLookup, dropAnswer, Crash,
              await, readResult, onSuccess, setErrorCode, signalAll, publishInfoReady, callVars
<1> QED BY <1>1, <1>3, <1>4, <1>5, <1>6 DEF SendStep, Next, call, complete

\* Only the answer to its own attempt makes a call an accepted one.
LEMMA AcceptedGrows ==
  ASSUME NEW s \in Senders
  PROVE  /\ sendSync(s) \/ sendAsync(s) \/ call(s) => accepted' = accepted
         /\ complete(s) => accepted' = accepted \/ (rpc[s] = "sent" /\ accepted' = accepted \cup {s})
         /\ complete(s) /\ accepted' # accepted => targets' = targets
<1>1. sendSync(s) \/ sendAsync(s) \/ call(s) => accepted' = accepted
  BY DEF call, sendSync, sendAsync, asyncPublishInfo, checkComplete, waitComplete, reject,
         forgetLookup, lookupUnmanaged, divideByZero, Crash, send0, await, readResult, callVars
<1>2. complete(s) => accepted' = accepted \/ onSuccess(s)
  BY DEF complete, publishInfoReady, dropLookup, onFailure, dropAnswer, setErrorCode, signalAll, callVars
<1> QED BY <1>1, <1>2 DEF onSuccess

\* What does not touch a transaction keeps its invariant, even while the send
\* that made it goes on.
LEMMA TxApartStep ==
  ASSUME SendInv, SendInv', NEW t \in Transactional, BrokerInv(t), EndInv(t),
         TxApart(t), SendSide(t)
  PROVE  BrokerInv(t)' /\ EndInv(t)'
<1>1. Len(targets[t]) \in Nat /\ Len(targets'[t]) \in Nat
  <2>1. t \in Senders
    BY SendAssumption, TransactionAssumption
  <2> QED BY <2>1 DEF SendInv, SendType
<1>2. stored'[t] \subseteq 1..Len(targets'[t])
  BY <1>1 DEF BrokerInv, TxApart, SendSide
<1>3. BrokerInv(t)'
  BY <1>2 DEF BrokerInv, TxApart, SendSide
<1>4. Confirmed(t)' <=> Confirmed(t)
  BY DEF Confirmed, Resolution, TxApart
<1>5. EndInv(t)'
  BY <1>4 DEF EndInv, TxApart
<1> QED BY <1>3, <1>5

\* A step that leaves the transactions alone and accepts no send of one.
LEMMA SendSideStep ==
  ASSUME TxInv, SendInv, SendInv', [SendStep]_vars,
         \A t \in Transactional : TxApart(t), TxType'
  PROVE  TxInv'
<1>1. ASSUME NEW t \in Transactional PROVE BrokerInv(t)' /\ EndInv(t)'
  <2>1. SendSide(t)
    BY TargetsGrow, SendAssumption, TransactionAssumption
  <2> QED BY <2>1, TxApartStep DEF TxInv
<1> QED BY <1>1 DEF TxInv

\* A step of one transaction keeps the invariant of the others.
LEMMA OneTransaction ==
  ASSUME TxInv, SendInv, SendInv', [SendStep]_vars, NEW s \in Transactional,
         \A t \in Transactional \ {s} : TxApart(t),
         TxType', BrokerInv(s)', EndInv(s)'
  PROVE  TxInv'
<1>1. ASSUME NEW t \in Transactional \ {s} PROVE BrokerInv(t)' /\ EndInv(t)'
  <2>1. SendSide(t)
    BY TargetsGrow, SendAssumption, TransactionAssumption
  <2> QED BY <2>1, TxApartStep DEF TxInv
<1> QED BY <1>1 DEF TxInv

\* The broker stores an attempt of a call it has not acknowledged.
LEMMA StoreStep ==
  ASSUME TxInv, SendInv, SendInv', NEW s \in Transactional, store(s)
  PROVE  TxInv'
<1>1. s \in Senders /\ rpc[s] = "sent" /\ UNCHANGED vars
  BY SendAssumption, TransactionAssumption DEF store
<1>2. UNCHANGED <<targets, accepted, resolutions, acknowledged, ends, tpc, answer, success, verdicts>>
  BY <1>1 DEF store, vars, callVars
<1>3. s \notin accepted /\ Len(targets[s]) \in Nat \ {0}
  <2>1. targets[s] \in Seq(Nat) /\ targets[s] # <<>> /\ s \notin accepted
    BY <1>1 DEF SendInv, SendType, CallInv, OutcomeInv
  <2> QED BY <2>1
<1>4. /\ stored' \in [Transactional -> SUBSET Nat]
      /\ stored'[s] = stored[s] \cup {Len(targets[s])}
      /\ \A t \in Transactional \ {s} : stored'[t] = stored[t]
  BY <1>3 DEF store, TxInv, TxType
<1>5. TxType'
  BY <1>2, <1>4 DEF TxInv, TxType
<1>6. \A t \in Transactional \ {s} : TxApart(t)
  BY <1>2, <1>4 DEF TxApart
<1>7. BrokerInv(s) /\ EndInv(s)
  BY DEF TxInv
<1>8. BrokerInv(s)'
  BY <1>2, <1>3, <1>4, <1>7 DEF BrokerInv
<1>9. EndInv(s)'
  BY <1>2, <1>7 DEF EndInv, Confirmed, Resolution
<1> QED BY <1>1, <1>5, <1>6, <1>8, <1>9, OneTransaction

\* A callback of the send: the acknowledged attempt is the last one, and nothing
\* was resolved before it.
LEMMA PrepareStep ==
  ASSUME TxInv, SendInv, SendInv', [SendStep]_vars, NEW s \in Transactional, prepare(s)
  PROVE  TxInv'
<1>1. s \in Senders /\ complete(s) /\ [SendStep]_vars
  BY SendAssumption, TransactionAssumption DEF prepare
<1>2. UNCHANGED <<stored, resolutions, ends, tpc, answer, success, verdicts>>
  BY DEF prepare
<1>3. CASE accepted' = accepted
  <2>1. acknowledged' = acknowledged
    BY <1>3 DEF prepare
  <2>2. TxType' /\ \A t \in Transactional : TxApart(t)
    BY <1>2, <1>3, <2>1 DEF TxInv, TxType, TxApart
  <2> QED BY <1>1, <2>2, SendSideStep
<1>4. CASE accepted' # accepted
  <2>1. rpc[s] = "sent" /\ accepted' = accepted \cup {s} /\ targets' = targets
    BY <1>1, <1>4, AcceptedGrows
  <2>2. s \in accepted' /\ s \notin accepted
    BY <1>4, <2>1
  <2>3. Len(targets[s]) \in Nat
    BY <1>1 DEF SendInv, SendType
  <2>4. /\ acknowledged' \in [Transactional -> Nat]
        /\ acknowledged'[s] = Len(targets[s])
        /\ \A t \in Transactional \ {s} : acknowledged'[t] = acknowledged[t]
    BY <2>2, <2>3 DEF prepare, Acknowledged, TxInv, TxType
  <2>5. TxType'
    BY <1>2, <2>4 DEF TxInv, TxType
  <2>6. \A t \in Transactional \ {s} : TxApart(t)
    BY <1>2, <2>1, <2>4 DEF TxApart
  <2>7. BrokerInv(s) /\ EndInv(s) /\ resolutions[s] = {}
    BY <2>2 DEF TxInv, BrokerInv
  <2>8. BrokerInv(s)'
    <3>1. Len(targets[s]) \in stored[s]
      BY <2>2 DEF prepare
    <3> QED BY <1>2, <2>1, <2>2, <2>4, <2>7, <3>1 DEF BrokerInv
  <2>9. EndInv(s)'
    <3>1. ~Confirmed(s) /\ verdicts[s] = {}
      BY <2>7 DEF Confirmed, EndInv, TxInv, TxType
    <3> QED BY <1>2, <2>7, <3>1 DEF EndInv
  <2> QED BY <1>1, <2>5, <2>6, <2>8, <2>9, OneTransaction
<1> QED BY <1>3, <1>4

\* The broker resolves: it resolved nothing of this transaction before.
LEMMA ResolveStep ==
  ASSUME TxInv, SendInv, SendInv', NEW s \in Transactional, resolve(s)
  PROVE  TxInv'
<1>1. UNCHANGED <<vars, stored, acknowledged, ends, tpc, success, verdicts, accepted, targets>>
  BY DEF resolve, vars, callVars
<1>2. BrokerInv(s) /\ EndInv(s) /\ answer[s] = "sent"
  BY DEF TxInv, resolve
<1>3. Resolution(s) \in TransactionState /\ acknowledged[s] \in Nat
  <2>1. ends[s] \in Seq(TransactionState) /\ ends[s] # <<>> /\ acknowledged[s] \in Nat
    BY <1>2 DEF EndInv, TxInv, TxType
  <2> QED BY <2>1 DEF Resolution
<1>4. s \in accepted
  <2>1. acknowledged[s] \in stored[s]
    BY DEF resolve, Refused
  <2>2. Len(targets[s]) \in Nat
    BY SendAssumption, TransactionAssumption DEF SendInv, SendType
  <2>3. acknowledged[s] # 0
    BY <1>2, <2>1, <2>2 DEF BrokerInv
  <2> QED BY <1>2, <2>3 DEF BrokerInv
<1>5. resolutions[s] = {}
  <2>1. SUFFICES ASSUME NEW x \in resolutions[s] PROVE FALSE
    OBVIOUS
  <2>2. x \in Nat \X TransactionState /\ x[1] = acknowledged[s]
    BY <1>2 DEF BrokerInv, TxInv, TxType
  <2>3. PICK r \in TransactionState : x = <<acknowledged[s], r>>
    BY <2>2
  <2> QED BY <2>1, <2>3 DEF resolve, Refused
<1> DEFINE done == <<acknowledged[s], Resolution(s)>>
<1>6. done \in Nat \X TransactionState /\ done[1] = acknowledged[s]
  BY <1>3
<1>7. resolutions' = [resolutions EXCEPT ![s] = resolutions[s] \cup {done}]
  BY DEF resolve
<1>8. /\ resolutions' \in [Transactional -> SUBSET (Nat \X TransactionState)]
      /\ resolutions'[s] = {done}
      /\ \A t \in Transactional \ {s} : resolutions'[t] = resolutions[t]
  <2> HIDE DEF done
  <2> QED BY <1>5, <1>6, <1>7 DEF TxInv, TxType
<1>9. /\ answer' \in [Transactional -> {"none", "sent", "ok", "error", "signal", "lost"}]
      /\ answer'[s] = "ok"
      /\ \A t \in Transactional \ {s} : answer'[t] = answer[t]
  BY DEF resolve, TxInv, TxType
<1>10. TxType'
  BY <1>1, <1>8, <1>9 DEF TxInv, TxType
<1>11. \A t \in Transactional \ {s} : TxApart(t)
  BY <1>1, <1>8, <1>9 DEF TxApart
<1>12. BrokerInv(s)'
  <2> HIDE DEF done
  <2> QED BY <1>1, <1>2, <1>4, <1>6, <1>8 DEF BrokerInv
<1>13. EndInv(s)'
  <2>1. tpc[s] # "idle" /\ ends[s] # <<>> /\ verdicts[s] = {}
    BY <1>2, <1>5 DEF EndInv, TxInv, TxType
  <2>2. Confirmed(s)'
    BY <1>1, <1>8 DEF Confirmed, Resolution
  <2> QED BY <1>1, <2>1, <2>2 DEF EndInv
<1> QED BY <1>1, <1>10, <1>11, <1>12, <1>13, OneTransaction

\* The rest of a call of commit or rollback leaves the broker alone.
LEMMA CallerStep ==
  ASSUME TxInv, SendInv, SendInv', NEW s \in Transactional,
         \/ fail(s) \/ dropEnd(s) \/ onAnswer(s) \/ signalEnd(s) \/ waitEnd(s)
         \/ \E r \in TransactionState : endTransaction(s, r)
  PROVE  TxInv'
<1>1. UNCHANGED <<vars, stored, resolutions, acknowledged, accepted, targets>>
  BY DEF fail, dropEnd, onAnswer, signalEnd, waitEnd, endTransaction, vars, callVars
<1>2. BrokerInv(s) /\ EndInv(s)
  BY DEF TxInv
<1>3. BrokerInv(s)'
  BY <1>1, <1>2 DEF BrokerInv
<1>4. ASSUME /\ ends' \in [Transactional -> Seq(TransactionState)]
             /\ tpc' \in [Transactional -> {"idle", "wait", "asleep"}]
             /\ answer' \in [Transactional -> {"none", "sent", "ok", "error", "signal", "lost"}]
             /\ success' \in [Transactional -> BOOLEAN]
             /\ verdicts' \in [Transactional -> SUBSET TransactionState],
             \A t \in Transactional \ {s} :
               /\ ends'[t] = ends[t] /\ tpc'[t] = tpc[t] /\ answer'[t] = answer[t]
               /\ success'[t] = success[t] /\ verdicts'[t] = verdicts[t],
             EndInv(s)'
      PROVE  TxInv'
  <2>1. TxType'
    BY <1>1, <1>4 DEF TxInv, TxType
  <2>2. \A t \in Transactional \ {s} : TxApart(t)
    BY <1>1, <1>4 DEF TxApart
  <2> QED BY <1>1, <1>3, <1>4, <2>1, <2>2, OneTransaction
<1>5. CASE fail(s) \/ dropEnd(s)
  <2>1. EndInv(s)'
    BY <1>2, <1>5 DEF fail, dropEnd, EndInv, TxInv, TxType
  <2> QED BY <1>4, <1>5, <2>1 DEF fail, dropEnd, TxInv, TxType
<1>6. CASE onAnswer(s)
  <2>1. success'[s] => answer[s] = "ok"
    BY <1>6 DEF onAnswer, TxInv, TxType
  <2>2. answer'[s] = "signal" /\ answer[s] # "none" /\ UNCHANGED <<ends, tpc, verdicts>>
    BY <1>6 DEF onAnswer, TxInv, TxType
  <2>3. EndInv(s)'
    BY <1>1, <1>2, <2>1, <2>2 DEF EndInv, Confirmed, Resolution
  <2> QED BY <1>4, <1>6, <2>3 DEF onAnswer, TxInv, TxType
<1>7. CASE signalEnd(s)
  <2>1. answer[s] = "signal" /\ answer'[s] = "none" /\ UNCHANGED <<ends, success>>
    BY <1>7 DEF signalEnd, TxInv, TxType
  <2>2. success[s] => Confirmed(s) /\ Resolution(s) \in TransactionState
    BY <1>2, <2>1 DEF EndInv, Confirmed, TxInv, TxType
  <2>3. PICK v \in SUBSET TransactionState :
             /\ verdicts' = [verdicts EXCEPT ![s] = v]
             /\ v = verdicts[s] \/ (success[s] /\ v = verdicts[s] \cup {Resolution(s)})
    <3>1. verdicts[s] \in SUBSET TransactionState
      BY DEF TxInv, TxType
    <3>2. CASE verdicts' = verdicts
      BY <3>1, <3>2 DEF TxInv, TxType
    <3>3. CASE Returned(s)
      BY <2>2, <3>1, <3>3 DEF Returned
    <3> QED BY <1>7, <3>2, <3>3 DEF signalEnd
  <2>4. verdicts'[s] = v
    BY <2>3 DEF TxInv, TxType
  <2>5. \A r \in verdicts'[s] : <<acknowledged[s], r>> \in resolutions[s]
    BY <1>2, <2>2, <2>3, <2>4 DEF EndInv, Confirmed
  <2>6. EndInv(s)'
    BY <1>1, <2>1, <2>5 DEF EndInv
  <2>7. tpc' = [tpc EXCEPT ![s] = tpc'[s]] /\ tpc'[s] \in {"idle", "wait", "asleep"}
    BY <1>7 DEF signalEnd, TxInv, TxType
  <2>8. answer' = [answer EXCEPT ![s] = "none"]
    BY <1>7 DEF signalEnd
  <2> QED BY <1>4, <2>1, <2>3, <2>6, <2>7, <2>8 DEF TxInv, TxType
<1>8. CASE waitEnd(s)
  <2>1. EndInv(s)'
    BY <1>1, <1>2, <1>8 DEF waitEnd, EndInv, Confirmed, Resolution, TxInv, TxType
  <2> QED BY <1>4, <1>8, <2>1 DEF waitEnd, TxInv, TxType
<1>9. ASSUME NEW r \in TransactionState, endTransaction(s, r) PROVE TxInv'
  <2>1. tpc[s] = "idle" /\ answer[s] = "none" /\ UNCHANGED verdicts
    BY <1>2, <1>9 DEF endTransaction, EndInv
  <2>2. /\ answer' = [answer EXCEPT ![s] = answer'[s]] /\ answer'[s] \in {"none", "sent"}
        /\ tpc' = [tpc EXCEPT ![s] = tpc'[s]] /\ tpc'[s] \in {"idle", "wait"}
        /\ tpc'[s] = "idle" => answer'[s] = "none"
    BY <1>9, <2>1 DEF endTransaction, TxInv, TxType
  <2>3. /\ ends' \in [Transactional -> Seq(TransactionState)] /\ ends'[s] # <<>>
        /\ \A t \in Transactional \ {s} : ends'[t] = ends[t]
    <3>1. ends[s] \in Seq(TransactionState)
      BY DEF TxInv, TxType
    <3>2. Append(ends[s], r) \in Seq(TransactionState) /\ Append(ends[s], r) # <<>>
      BY <3>1
    <3>3. ends' = [ends EXCEPT ![s] = Append(ends[s], r)]
      BY <1>9 DEF endTransaction
    <3> QED BY <3>2, <3>3 DEF TxInv, TxType
  <2>4. EndInv(s)'
    BY <1>1, <1>2, <2>1, <2>2, <2>3 DEF EndInv
  <2>5. success' = [success EXCEPT ![s] = FALSE]
    BY <1>9 DEF endTransaction
  <2>6. /\ answer' \in [Transactional -> {"none", "sent", "ok", "error", "signal", "lost"}]
        /\ tpc' \in [Transactional -> {"idle", "wait", "asleep"}]
        /\ \A t \in Transactional \ {s} : tpc'[t] = tpc[t] /\ answer'[t] = answer[t]
    BY <2>2 DEF TxInv, TxType
  <2>7. /\ success' \in [Transactional -> BOOLEAN]
        /\ \A t \in Transactional \ {s} : success'[t] = success[t]
    BY <2>5 DEF TxInv, TxType
  <2>8. verdicts' \in [Transactional -> SUBSET TransactionState]
    BY <2>1 DEF TxInv, TxType
  <2> QED BY <1>4, <2>1, <2>3, <2>4, <2>6, <2>7, <2>8
<1> QED BY <1>5, <1>6, <1>7, <1>8, <1>9

\* Every step of the composition keeps both invariants.
LEMMA TxInductive == SendInv /\ TxInv /\ [TxNext]_allVars => SendInv' /\ TxInv'
<1> SUFFICES ASSUME SendInv, TxInv, [TxNext]_allVars PROVE SendInv' /\ TxInv'
  OBVIOUS
<1>1. [SendStep]_vars /\ SendInv'
  BY TxStepIsSendStep, SendInductive
<1>2. CASE UNCHANGED txVars /\ \A t \in Transactional : t \in accepted' <=> t \in accepted
  <2>1. UNCHANGED <<stored, resolutions, acknowledged, ends, tpc, answer, success, verdicts>>
    BY <1>2 DEF txVars
  <2>2. TxType'
    BY <2>1 DEF TxInv, TxType
  <2>3. \A t \in Transactional : TxApart(t)
    BY <1>2, <2>1 DEF TxApart
  <2> QED BY <1>1, <2>2, <2>3, SendSideStep
<1>3. CASE UNCHANGED allVars
  BY <1>2, <1>3 DEF allVars, vars, callVars
<1>4. CASE (shutdown \/ resetManager \/ stopManager \/ destroyProducer) /\ UNCHANGED txVars
  BY <1>2, <1>4 DEF shutdown, resetManager, stopManager, destroyProducer, callVars
<1>5. ASSUME NEW s \in Senders, sendSync(s) \/ sendAsync(s) \/ call(s), UNCHANGED txVars
      PROVE  TxInv'
  <2>1. accepted' = accepted
    BY <1>5, AcceptedGrows
  <2> QED BY <1>1, <1>2, <1>5, <2>1
<1>6. ASSUME NEW s \in Senders, s \notin Transactional, complete(s), UNCHANGED txVars
      PROVE  TxInv'
  <2>1. accepted' = accepted \/ accepted' = accepted \cup {s}
    BY <1>6, AcceptedGrows
  <2> QED BY <1>1, <1>2, <1>6, <2>1
<1>7. ASSUME NEW s \in Transactional, endUnmanaged(s) PROVE TxInv'
  BY <1>2, <1>7 DEF endUnmanaged, Crash, callVars
<1> QED BY <1>1, <1>3, <1>4, <1>5, <1>6, <1>7, StoreStep, PrepareStep, ResolveStep, CallerStep
        DEF TxNext, EndStep

\* No transaction has begun.
LEMMA TxInitial == TxInit => SendInv /\ TxInv
<1> SUFFICES ASSUME TxInit PROVE TxInv
  BY SendInitial DEF TxInit
<1>1. TxType
  BY DEF TxInit, TxType
<1>2. ASSUME NEW s \in Transactional PROVE BrokerInv(s) /\ EndInv(s)
  <2>1. /\ stored[s] = {} /\ resolutions[s] = {} /\ acknowledged[s] = 0 /\ tpc[s] = "idle"
        /\ answer[s] = "none" /\ verdicts[s] = {} /\ s \notin accepted
    BY <1>2 DEF TxInit, Init
  <2> QED BY <2>1 DEF BrokerInv, EndInv
<1> QED BY <1>1, <1>2 DEF TxInv

-----------------------------------------------------------------------------
(* What the verdict of commit or rollback says *)

\* A set whose members are all equal has one at most.
LEMMA AtMostOne ==
  ASSUME NEW S, \A x, y \in S : x = y
  PROVE  Cardinality(S) <= 1
<1>1. CASE S = {}
  BY <1>1, FS_EmptySet
<1>2. CASE S # {}
  <2>1. PICK x : S = {x}
    BY <1>2
  <2> QED BY <2>1, FS_Singleton
<1> QED BY <1>1, <1>2

\* commit() or rollback() returns true only if the broker resolved, that way, the
\* attempt it acknowledged; not both do; and whatever else the attempts left with
\* brokers is older: for every number of transactions, attempts and calls,
\* whichever answers are lost.
THEOREM VerdictsAreTrue == TxSpec => []VerdictIsTrue
<1>1. SendInv /\ TxInv => VerdictIsTrue
  <2> SUFFICES ASSUME SendInv, TxInv, NEW s \in Transactional
               PROVE  /\ \A r \in verdicts[s] :
                           s \in accepted /\ <<acknowledged[s], r>> \in resolutions[s]
                      /\ Cardinality(verdicts[s]) <= 1 /\ Cardinality(resolutions[s]) <= 1
                      /\ resolutions[s] # {} => \A a \in stored[s] : a <= acknowledged[s]
    BY DEF VerdictIsTrue
  <2>1. BrokerInv(s) /\ EndInv(s)
    BY DEF TxInv
  <2>2. ASSUME NEW r \in verdicts[s]
        PROVE  s \in accepted /\ <<acknowledged[s], r>> \in resolutions[s]
    BY <2>1 DEF BrokerInv, EndInv
  <2>3. ASSUME NEW r \in verdicts[s], NEW q \in verdicts[s] PROVE r = q
    <3>1. <<acknowledged[s], r>> = <<acknowledged[s], q>>
      BY <2>1, <2>2 DEF BrokerInv
    <3> QED BY <3>1
  <2>4. Cardinality(verdicts[s]) <= 1
    BY <2>3, AtMostOne
  <2>5. Cardinality(resolutions[s]) <= 1
    BY <2>1, AtMostOne DEF BrokerInv
  <2>6. ASSUME resolutions[s] # {}, NEW a \in stored[s] PROVE a <= acknowledged[s]
    <3>1. Len(targets[s]) \in Nat
      BY SendAssumption, TransactionAssumption DEF SendInv, SendType
    <3> QED BY <2>1, <2>6, <3>1 DEF BrokerInv
  <2> QED BY <2>2, <2>4, <2>5, <2>6
<1> QED BY <1>1, TxInductive, TxInitial, PTL DEF TxSpec

=============================================================================
