---------------------------- MODULE Transactions ----------------------------
(***************************************************************************)
(* Transactional messages: ProducerImpl::prepare, which is a synchronous   *)
(* send (ProducerSend), and the commit or rollback of the transaction it   *)
(* returns, composed with a broker that keeps prepared messages.           *)
(*                                                                         *)
(* Each attempt of a send carries a message id of its own, so that an      *)
(* attempt that a broker stores and does not acknowledge is a prepared     *)
(* message besides the one acknowledged later.  An attempt is named by its *)
(* number; targets tells the queue it went to.                             *)
(*                                                                         *)
(* The application may end a transaction at any time: while the producer   *)
(* runs or shuts down, when client_manager_ is null and the code           *)
(* dereferences it, and after the producer was destroyed.                  *)
(***************************************************************************)
EXTENDS ProducerSend

CONSTANTS
  Transactional,  \* the sends that are made by prepare
  MaxEnds         \* bound: calls of commit or rollback of a transaction

ASSUME TransactionAssumption == Transactional \subseteq Synchronous /\ MaxEnds \in Nat

VARIABLES
  stored,         \* the attempts that brokers stored
  resolutions,    \* what brokers did with them: set of attempt and resolution
  acknowledged,   \* the attempt whose ids the SendResult carries; 0 if none
  ends,           \* calls of commit or rollback so far: the resolution asked for
  tpc,            \* where the call is: "idle", "wait", "asleep"
  answer,         \* its request: "none", "sent", "ok", "error"; "signal" once success
                  \* is set; "lost" when its callback never runs
  success,        \* the flag the call returns
  verdicts        \* resolutions for which a call has returned true

txVars == <<stored, resolutions, acknowledged, ends, tpc, answer, success, verdicts>>
allVars == <<vars, txVars>>

Attempts == 1..MaxAttemptTimes
TransactionState == {"COMMIT", "ROLLBACK"}

TxTypeOK ==
  /\ TypeOK
  /\ stored \in [Transactional -> SUBSET Attempts]
  /\ resolutions \in [Transactional -> SUBSET (Attempts \X TransactionState)]
  /\ acknowledged \in [Transactional -> Attempts \cup {0}]
  /\ ends \in [Transactional -> Seq(TransactionState)]
  /\ tpc \in [Transactional -> {"idle", "wait", "asleep"}]
  /\ answer \in [Transactional -> {"none", "sent", "ok", "error", "signal", "lost"}]
  /\ success \in [Transactional -> BOOLEAN]
  /\ verdicts \in [Transactional -> SUBSET TransactionState]

TxInit ==
  /\ Init
  /\ stored = [s \in Transactional |-> {}]
  /\ resolutions = [s \in Transactional |-> {}]
  /\ acknowledged = [s \in Transactional |-> 0]
  /\ ends = [s \in Transactional |-> <<>>]
  /\ tpc = [s \in Transactional |-> "idle"]
  /\ answer = [s \in Transactional |-> "none"]
  /\ success = [s \in Transactional |-> FALSE]
  /\ verdicts = [s \in Transactional |-> {}]

-----------------------------------------------------------------------------
(* prepare *)

\* The broker stores the attempt on the wire; its answer may still be lost.
store(s) ==
  /\ rpc[s] = "sent"
  /\ stored' = [stored EXCEPT ![s] = @ \cup {Len(targets[s])}]
  /\ UNCHANGED <<vars, resolutions, acknowledged, ends, tpc, answer, success, verdicts>>

\* The attempt that RetrySendCallback::onSuccess puts into the SendResult.
Acknowledged(s) == Len(targets[s])

\* A callback of the send; only a stored attempt is acknowledged.
prepare(s) ==
  /\ complete(s)
  /\ s \in accepted' \ accepted => Len(targets[s]) \in stored[s]
  /\ acknowledged' = IF s \in accepted' \ accepted
                       THEN [acknowledged EXCEPT ![s] = Acknowledged(s)]
                       ELSE acknowledged
  /\ UNCHANGED <<stored, resolutions, ends, tpc, answer, success, verdicts>>

-----------------------------------------------------------------------------
(* TransactionImpl::commit and rollback, ProducerImpl::endTransaction0 *)

\* Without a producer the call returns false.
endTransaction(s, resolution) ==
  /\ result[s] = "ok" /\ tpc[s] = "idle" /\ Len(ends[s]) < MaxEnds
  /\ Managed \/ destroyed
  /\ ends' = [ends EXCEPT ![s] = Append(@, resolution)]
  /\ success' = [success EXCEPT ![s] = FALSE]
  /\ IF destroyed
       THEN UNCHANGED <<tpc, answer>>
       ELSE /\ tpc' = [tpc EXCEPT ![s] = "wait"]
            /\ answer' = [answer EXCEPT ![s] = "sent"]
  /\ UNCHANGED <<vars, stored, resolutions, acknowledged, verdicts>>

\* The producer was shut down and still exists: client_manager_ is null.
endUnmanaged(s) ==
  /\ result[s] = "ok" /\ tpc[s] = "idle" /\ Len(ends[s]) < MaxEnds
  /\ ~Managed /\ ~destroyed
  /\ Crash("null")
  /\ UNCHANGED txVars

Resolution(s) == ends[s][Len(ends[s])]

\* A transaction without ids (a failed send whose error was not yet visible)
\* or one that was ended already is refused.
Refused(s) ==
  \/ acknowledged[s] \notin stored[s]
  \/ \E r \in TransactionState : <<acknowledged[s], r>> \in resolutions[s]

\* The broker resolves the prepared message that the request names.
resolve(s) ==
  /\ answer[s] = "sent" /\ ~Refused(s)
  /\ resolutions' = [resolutions EXCEPT ![s] = @ \cup {<<acknowledged[s], Resolution(s)>>}]
  /\ answer' = [answer EXCEPT ![s] = "ok"]
  /\ UNCHANGED <<vars, stored, acknowledged, ends, tpc, success, verdicts>>

\* The request is refused, fails, times out, or its good answer is lost.
fail(s) ==
  /\ answer[s] \in {"sent", "ok"}
  /\ answer' = [answer EXCEPT ![s] = "error"]
  /\ UNCHANGED <<vars, stored, resolutions, acknowledged, ends, tpc, success, verdicts>>

\* The manager stops: its pool no longer runs the callback.
dropEnd(s) ==
  /\ answer[s] \in {"sent", "ok", "error"} /\ stage = "stopped"
  /\ answer' = [answer EXCEPT ![s] = "lost"]
  /\ UNCHANGED <<vars, stored, resolutions, acknowledged, ends, tpc, success, verdicts>>

\* Mutant: an answer is an answer.
onAnswer_AnyAnswer(s) ==
  /\ answer[s] \in {"ok", "error"}
  /\ success' = [success EXCEPT ![s] = TRUE]
  /\ answer' = [answer EXCEPT ![s] = "signal"]
  /\ UNCHANGED <<vars, stored, resolutions, acknowledged, ends, tpc, verdicts>>

\* The callback sets success without the lock, then takes the lock to signal.
onAnswer(s) ==
  /\ answer[s] \in {"ok", "error"}
  /\ success' = [success EXCEPT ![s] = (answer[s] = "ok")]
  /\ answer' = [answer EXCEPT ![s] = "signal"]
  /\ UNCHANGED <<vars, stored, resolutions, acknowledged, ends, tpc, verdicts>>

Returned(s) == verdicts' = [verdicts EXCEPT ![s] = IF success[s] THEN @ \cup {Resolution(s)} ELSE @]

\* Mutant: the caller is not signalled when the transaction could not be ended.
signalEnd_OnSuccess(s) ==
  /\ answer[s] = "signal"
  /\ answer' = [answer EXCEPT ![s] = "none"]
  /\ IF tpc[s] = "asleep" /\ success[s]
       THEN tpc' = [tpc EXCEPT ![s] = "idle"] /\ Returned(s)
       ELSE UNCHANGED <<tpc, verdicts>>
  /\ UNCHANGED <<vars, stored, resolutions, acknowledged, ends, success>>

signalEnd(s) ==
  /\ answer[s] = "signal"
  /\ answer' = [answer EXCEPT ![s] = "none"]
  /\ IF tpc[s] = "asleep"
       THEN tpc' = [tpc EXCEPT ![s] = "idle"] /\ Returned(s)
       ELSE UNCHANGED <<tpc, verdicts>>
  /\ UNCHANGED <<vars, stored, resolutions, acknowledged, ends, success>>

\* The caller waits without a look at completed: a signal that came first is lost.
waitEnd(s) ==
  /\ tpc[s] = "wait"
  /\ tpc' = [tpc EXCEPT ![s] = "asleep"]
  /\ UNCHANGED <<vars, stored, resolutions, acknowledged, ends, answer, success, verdicts>>

-----------------------------------------------------------------------------
EndStep(s) == resolve(s) \/ fail(s) \/ dropEnd(s) \/ onAnswer(s) \/ signalEnd(s)

TxNext ==
  /\ crash = "none"
  /\ \/ (shutdown \/ resetManager \/ stopManager) /\ UNCHANGED txVars
     \/ destroyProducer /\ (\A s \in Transactional : tpc[s] = "idle") /\ UNCHANGED txVars
     \/ \E s \in Senders :
          \/ (sendSync(s) \/ sendAsync(s) \/ call(s)) /\ UNCHANGED txVars
          \/ s \notin Transactional /\ complete(s) /\ UNCHANGED txVars
     \/ \E s \in Transactional :
          \/ store(s) \/ prepare(s) \/ EndStep(s) \/ waitEnd(s) \/ endUnmanaged(s)
          \/ \E r \in TransactionState : endTransaction(s, r)

\* As in ProducerSend; the request to end a transaction has a deadline.
TxFairness ==
  /\ \A s \in Senders \ Transactional :
       WF_allVars(crash = "none" /\ (call(s) \/ complete(s)) /\ UNCHANGED txVars)
  /\ \A s \in Transactional :
       WF_allVars(crash = "none" /\ (\/ call(s) /\ UNCHANGED txVars
                                    \/ prepare(s) \/ EndStep(s)))

TxSpec == TxInit /\ [][TxNext]_allVars /\ TxFairness

-----------------------------------------------------------------------------
\* commit() or rollback() returns true only if the broker resolved, that way,
\* the very attempt that it acknowledged to prepare, and they never both do,
\* however often they are called and whichever answers were lost; and the other
\* prepared messages that the attempts left with brokers are earlier attempts
\* that were not acknowledged, left to the broker's check of orphaned ones.
VerdictIsTrue ==
  \A s \in Transactional :
    /\ \A r \in verdicts[s] : s \in accepted /\ <<acknowledged[s], r>> \in resolutions[s]
    /\ Cardinality(verdicts[s]) <= 1 /\ Cardinality(resolutions[s]) <= 1
    /\ resolutions[s] # {} => \A a \in stored[s] : a <= acknowledged[s]

\* Every send completes, and a commit or rollback that is asleep before its
\* answer has come returns: no caller is left waiting for a signal already sent,
\* although the producer may be shut down and the manager stop at any moment;
\* then a call may be abandoned, and in no other way.
CallsReturn ==
  /\ SendsComplete
  /\ \A s \in Transactional :
       (tpc[s] = "asleep" /\ answer[s] # "none")
         ~> (\/ tpc[s] = "idle" \/ Abandoned(s)
             \/ answer[s] = "lost" /\ stage = "stopped")

=============================================================================
