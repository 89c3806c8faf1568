--------------------------- MODULE LifecycleProofs ---------------------------
(***************************************************************************)
(* Proofs about ClientLifecycle, for every number of clients and managers: *)
(* clients share one manager, which serves them while they are started;    *)
(* what ends the process; and what the shutdown of a manager leaves.       *)
(***************************************************************************)
EXTENDS ClientLifecycle, FiniteSetTheorems, TLAPS

-----------------------------------------------------------------------------
(* The inductive invariant.  The places of the application's thread: *)

\* before a client has its manager, within ClientManagerImpl::start, after it,
\* and after client_manager_.reset()
Fresh == {"idle", "getManager"}
Inside == {"waitScheduler", "asleepScheduler", "scheduleTasks", "storeStarted"}
Served == {"exporter", "waitPoller", "asleepPoller", "schedule", "running", "notify", "reset"}
Gone == {"stop", "done"}
Holding == {"testState", "storeStarting"} \cup Inside \cup Served
InStart == {"getManager", "testState", "storeStarting", "exporter", "waitPoller", "asleepPoller",
            "schedule"} \cup Inside

\* state_ of a client follows the thread.
Life ==
    \A c \in Clients :
        /\ cstate[c] = "CREATED" <=> pc[c] = "idle"
        /\ cstate[c] = "STARTING" <=> pc[c] \in InStart
        /\ cstate[c] = "STARTED" <=> pc[c] = "running"
        /\ cstate[c] = "STOPPED" <=> pc[c] = "done"

\* A client holds the manager it was given until it resets the pointer, and what
\* is held is the manager in the factory's table.
Pointers ==
    \A c \in Clients :
        /\ pc[c] \in Fresh => home[c] = None /\ held[c] = None /\ route[c] = "none" /\ request[c] = "none"
        /\ pc[c] \notin Fresh => home[c] \in Managers
        /\ pc[c] \in Holding => held[c] = home[c] /\ home[c] = table
        /\ pc[c] \in Gone => held[c] = None

\* The managers are created one after another.
Homes ==
    /\ \E k \in Nat : {home[c] : c \in Clients} \ {None} = 1..k
    /\ table # None => \E c \in Clients : home[c] = table

\* The parts of a manager follow its state: what start has made by then, and what
\* shutdown has ended.  STARTING never outlives the thread that starts it.
Stages ==
    \A m \in Managers :
        /\ mstate[m] = "CREATED" => /\ sched[m] = "CREATED" /\ pool[m] = "none" /\ poller[m] = "none"
                                    /\ timer[m] = "none" /\ destroyer[m] = "nobody"
        /\ mstate[m] = "STARTING" => pool[m] = "running" /\ destroyer[m] = "nobody"
        /\ mstate[m] = "STARTED" => pool[m] = "running" /\ poller[m] = "running" /\ destroyer[m] = "nobody"
        /\ mstate[m] \in {"STOPPING", "STOPPED"} => destroyer[m] # "nobody"
        /\ mstate[m] = "STOPPED" => sched[m] = "STOPPED" /\ poller[m] = "ended"
        /\ pool[m] = "stopped" => destroyer[m] # "nobody"
        /\ sched[m] = "STOPPED" => pool[m] = "stopped" /\ timer[m] = "none"

\* A manager nobody was given is as created, and one that is STARTING has a client
\* within its start.
Begun ==
    \A m \in Managers :
        /\ (\A c \in Clients : home[c] # m) => mstate[m] = "CREATED"
        /\ mstate[m] = "STARTING" => \E c \in Clients : home[c] = m /\ pc[c] \in Inside

\* The destructor runs when nobody has a pointer to the manager, and nobody gets
\* one afterwards.
Released ==
    \A m \in Managers : destroyer[m] # "nobody" =>
        /\ timer[m] # "running"
        /\ \A c \in Clients : home[c] = m => pc[c] \in Gone /\ request[c] # "running"

\* What the steps of shutdown have ended does not come back.
Left ==
    \A c \in Clients : home[c] # None =>
        /\ pool[home[c]] = "stopped" => request[c] \notin {"queued", "running"}
        /\ sched[home[c]] = "STOPPED" => route[c] = "none"
        /\ mstate[home[c]] = "STOPPED" => request[c] # "sent"

\* Within its start a manager is STARTING, or STARTED by another client.
Started ==
    \A c \in Clients :
        /\ pc[c] \in Inside => mstate[home[c]] \in {"STARTING", "STARTED"}
        /\ pc[c] = "storeStarted" => poller[home[c]] = "running"

\* When clients start one after another: at most one is within start, and it
\* finds its manager as created or STARTED.
OneByOne ==
    staggered =>
        /\ \A c, d \in Clients : cstate[c] = "STARTING" /\ cstate[d] = "STARTING" => c = d
        /\ \A c \in Clients :
            /\ pc[c] = "testState" => mstate[home[c]] \in {"CREATED", "STARTED"}
            /\ pc[c] = "storeStarting" => mstate[home[c]] = "CREATED"
            /\ pc[c] \in Inside \ {"storeStarted"} => poller[home[c]] = "none"
            /\ pc[c] \in Served => mstate[home[c]] = "STARTED"

Inv ==
    /\ TypeOK /\ Life /\ Pointers /\ Homes /\ Stages /\ Begun /\ Released /\ Left /\ Started
    /\ OneByOne /\ CrashNeedsRace

-----------------------------------------------------------------------------
(* Conjuncts that a step does not touch *)

USE DEF Fresh, Inside, Served, Gone, Holding, InStart

\* Each part of the invariant is about a few variables only.
LEMMA Frames ==
    /\ Life /\ UNCHANGED <<cstate, pc>> => Life'
    /\ Pointers /\ UNCHANGED <<pc, held, home, table, route, request>> => Pointers'
    /\ Homes /\ UNCHANGED <<home, table>> => Homes'
    /\ Stages /\ UNCHANGED <<mstate, sched, pool, timer, poller, destroyer>> => Stages'
    /\ Begun /\ UNCHANGED <<home, pc, mstate>> => Begun'
    /\ Released /\ UNCHANGED <<destroyer, timer, home, pc, request>> => Released'
    /\ Left /\ UNCHANGED <<home, pool, request, sched, route, mstate>> => Left'
    /\ Started /\ UNCHANGED <<pc, home, mstate, poller>> => Started'
    /\ OneByOne /\ UNCHANGED <<staggered, cstate, pc, home, mstate, poller>> => OneByOne'
    /\ CrashNeedsRace /\ UNCHANGED <<crash, staggered, cstate>> => CrashNeedsRace'
<1>1. Life /\ UNCHANGED <<cstate, pc>> => Life'
  BY DEF Life
<1>2. Pointers /\ UNCHANGED <<pc, held, home, table, route, request>> => Pointers'
  BY DEF Pointers
<1>3. Homes /\ UNCHANGED <<home, table>> => Homes'
  BY DEF Homes
<1>4. Stages /\ UNCHANGED <<mstate, sched, pool, timer, poller, destroyer>> => Stages'
  BY DEF Stages
<1>5. Begun /\ UNCHANGED <<home, pc, mstate>> => Begun'
  BY DEF Begun
<1>6. Released /\ UNCHANGED <<destroyer, timer, home, pc, request>> => Released'
  BY DEF Released
<1>7. Left /\ UNCHANGED <<home, pool, request, sched, route, mstate>> => Left'
  BY DEF Left
<1>8. Started /\ UNCHANGED <<pc, home, mstate, poller>> => Started'
  BY DEF Started
<1>9. OneByOne /\ UNCHANGED <<staggered, cstate, pc, home, mstate, poller>> => OneByOne'
  BY DEF OneByOne
<1>10. CrashNeedsRace /\ UNCHANGED <<crash, staggered, cstate>> => CrashNeedsRace'
  BY DEF CrashNeedsRace
<1> QED BY <1>1, <1>2, <1>3, <1>4, <1>5, <1>6, <1>7, <1>8, <1>9, <1>10

\* Who has a pointer to a manager.
LEMMA RefsDefined ==
  ASSUME NEW m \in Managers, Refs(m) = {}
  PROVE  /\ \A c \in Clients : held[c] # m
         /\ \A c \in Clients : ~(home[c] = m /\ request[c] = "running")
         /\ timer[m] # "running"
BY DEF Refs

\* A manager whose destructor runs has no pointer to it, and a client that had one
\* is shutting down or has.
LEMMA Destroyed ==
  ASSUME Inv, NEW m \in Managers, destroyer[m] # "nobody"
  PROVE  /\ Refs(m) = {}
         /\ \E c \in Clients : cstate[c] \in {"STOPPING", "STOPPED"}
<1>1. /\ timer[m] # "running"
      /\ \A c \in Clients : home[c] = m => held[c] = None /\ pc[c] \in Gone /\ request[c] # "running"
  BY DEF Inv, Released, Pointers
<1>2. \A c \in Clients : held[c] # m
  <2> SUFFICES ASSUME NEW c \in Clients, held[c] = m PROVE FALSE
    OBVIOUS
  <2>1. m # None
    BY LifecycleAssumption
  <2>2. home[c] = m
    BY <2>1 DEF Inv, Pointers, TypeOK
  <2> QED BY <1>1, <2>1, <2>2
<1>3. Refs(m) = {}
  BY <1>1, <1>2 DEF Refs
<1>4. PICK c \in Clients : home[c] = m
  BY DEF Inv, Stages, Begun
<1>5. cstate[c] \in {"STOPPING", "STOPPED"}
  BY <1>1, <1>4 DEF Inv, Life, TypeOK, States
<1> QED BY <1>3, <1>5

\* The last pointer is the only one.
LEMMA LastRef ==
  ASSUME NEW m \in Managers, NEW ref, Refs(m) = {ref}
  PROVE  /\ \A c \in Clients : held[c] = m => ref = <<"client", c>>
         /\ \A c \in Clients : home[c] = m /\ request[c] = "running" => ref = <<"callback", c>>
         /\ timer[m] = "running" => ref = <<"timer", m>>
BY DEF Refs

-----------------------------------------------------------------------------
(* Steps that drop no pointer *)

\* A client begins to start; staggered, no other one does.
LEMMA ClientStartStep ==
  ASSUME Inv, crash = "none", NEW c \in Clients, start(c)
  PROVE  Inv'
<1>1. TypeOK'
  BY DEF Inv, start, Goto, managerVars, TypeOK, States
<1>2. Life'
  BY DEF Inv, start, Goto, managerVars, TypeOK, Life
<1>3. Pointers'
  BY DEF Inv, start, Goto, managerVars, TypeOK, Pointers
<1>4. Begun'
  BY DEF Inv, start, Goto, managerVars, TypeOK, Pointers, Begun
<1>5. Released'
  BY DEF Inv, start, Goto, managerVars, TypeOK, Pointers, Released
<1>6. Started'
  BY DEF Inv, start, Goto, managerVars, TypeOK, Pointers, Started
<1>7. OneByOne'
  BY DEF Inv, start, Goto, managerVars, TypeOK, Pointers, OneByOne
<1>8. CrashNeedsRace'
  BY DEF Inv, start, Goto, managerVars, TypeOK, CrashNeedsRace
<1> QED BY <1>1, <1>2, <1>3, <1>4, <1>5, <1>6, <1>7, <1>8, Frames DEF Inv, start, Goto, managerVars

\* Somebody who finds the manager as created goes on to start it.
LEMMA ManagerStartStep ==
  ASSUME Inv, crash = "none", NEW c \in Clients, managerStart(c)
  PROVE  Inv'
<1>1. TypeOK'
  BY DEF Inv, managerStart, Goto, managerVars, TypeOK, States, Pointers
<1>2. Life'
  BY DEF Inv, managerStart, Goto, managerVars, TypeOK, Life
<1>3. Pointers'
  BY DEF Inv, managerStart, Goto, managerVars, TypeOK, Pointers
<1>4. Begun'
  BY DEF Inv, managerStart, Goto, managerVars, TypeOK, Pointers, Begun
<1>5. Released'
  BY DEF Inv, managerStart, Goto, managerVars, TypeOK, Pointers, Released
<1>6. Started'
  BY DEF Inv, managerStart, Goto, managerVars, TypeOK, Pointers, Started
<1>7. OneByOne'
  BY DEF Inv, managerStart, Goto, managerVars, TypeOK, Pointers, OneByOne
<1> QED BY <1>1, <1>2, <1>3, <1>4, <1>5, <1>6, <1>7, Frames DEF Inv, managerStart, Goto, managerVars

\* The manager is not past its life: this client holds it.
LEMMA StoreStartingStep ==
  ASSUME Inv, crash = "none", NEW c \in Clients, storeStarting(c)
  PROVE  Inv'
<1>1. TypeOK'
  BY DEF Inv, storeStarting, Goto, TypeOK, States, Pointers
<1>2. Life'
  BY DEF Inv, storeStarting, Goto, TypeOK, Life
<1>3. Pointers'
  BY DEF Inv, storeStarting, Goto, TypeOK, Pointers
<1>4. Stages'
  BY DEF Inv, storeStarting, Goto, TypeOK, Pointers, Stages, Released
<1>5. Begun'
  BY DEF Inv, storeStarting, Goto, TypeOK, Pointers, Begun
<1>6. Released'
  BY DEF Inv, storeStarting, Goto, TypeOK, Pointers, Released
<1>7. Left'
  BY DEF Inv, storeStarting, Goto, TypeOK, Pointers, Left
<1>8. Started'
  BY DEF Inv, storeStarting, Goto, TypeOK, Pointers, Started
<1>9. OneByOne'
  BY DEF Inv, storeStarting, Goto, TypeOK, Pointers, OneByOne, Life, Stages
<1> QED BY <1>1, <1>2, <1>3, <1>4, <1>5, <1>6, <1>7, <1>8, <1>9, Frames DEF Inv, storeStarting, Goto

\* The wait for the threads of the scheduler.
LEMMA SchedulerWaitStep ==
  ASSUME Inv, crash = "none", NEW c \in Clients, schedulerWait(c)
  PROVE  Inv'
<1>1. TypeOK'
  BY DEF Inv, schedulerWait, Goto, managerVars, TypeOK, States
<1>2. Life'
  BY DEF Inv, schedulerWait, Goto, managerVars, TypeOK, Life
<1>3. Pointers'
  BY DEF Inv, schedulerWait, Goto, managerVars, TypeOK, Pointers
<1>4. Begun'
  BY DEF Inv, schedulerWait, Goto, managerVars, TypeOK, Pointers, Begun
<1>5. Released'
  BY DEF Inv, schedulerWait, Goto, managerVars, TypeOK, Pointers, Released
<1>6. Started'
  BY DEF Inv, schedulerWait, Goto, managerVars, TypeOK, Pointers, Started
<1>7. OneByOne'
  BY DEF Inv, schedulerWait, Goto, managerVars, TypeOK, Pointers, OneByOne
<1> QED BY <1>1, <1>2, <1>3, <1>4, <1>5, <1>6, <1>7, Frames DEF Inv, schedulerWait, Goto,
        managerVars

\* The first thread of the scheduler.
LEMMA SchedulerThreadStep ==
  ASSUME Inv, crash = "none", NEW m \in Managers, schedulerThread(m)
  PROVE  Inv'
<1>1. TypeOK'
  BY DEF Inv, schedulerThread, clientVars, TypeOK, States
<1>2. Stages'
  BY DEF Inv, schedulerThread, clientVars, TypeOK, Pointers, Stages
<1>3. Left'
  BY DEF Inv, schedulerThread, clientVars, TypeOK, Pointers, Left
<1> QED BY <1>1, <1>2, <1>3, Frames DEF Inv, schedulerThread, clientVars

\* It wakes the threads that wait.
LEMMA SchedulerSignalStep ==
  ASSUME Inv, crash = "none", NEW m \in Managers, schedulerSignal(m)
  PROVE  Inv'
<1>1. TypeOK'
  BY DEF Inv, schedulerSignal, TypeOK, States
<1>2. Life'
  BY DEF Inv, schedulerSignal, TypeOK, Life
<1>3. Pointers'
  BY DEF Inv, schedulerSignal, TypeOK, Pointers
<1>4. Begun'
  BY DEF Inv, schedulerSignal, TypeOK, Pointers, Begun
<1>5. Released'
  BY DEF Inv, schedulerSignal, TypeOK, Pointers, Released
<1>6. Started'
  BY DEF Inv, schedulerSignal, TypeOK, Pointers, Started
<1>7. OneByOne'
  BY DEF Inv, schedulerSignal, TypeOK, Pointers, OneByOne
<1> QED BY <1>1, <1>2, <1>3, <1>4, <1>5, <1>6, <1>7, Frames DEF Inv, schedulerSignal

\* The start of the manager ends.
LEMMA StoreStartedStep ==
  ASSUME Inv, crash = "none", NEW c \in Clients, storeStarted(c)
  PROVE  Inv'
<1>1. TypeOK'
  BY DEF Inv, storeStarted, Goto, TypeOK, States, Pointers
<1>2. Life'
  BY DEF Inv, storeStarted, Goto, TypeOK, Life
<1>3. Pointers'
  BY DEF Inv, storeStarted, Goto, TypeOK, Pointers
<1>4. Stages'
  BY DEF Inv, storeStarted, Goto, TypeOK, Pointers, Stages, Released, Started
<1>5. Begun'
  BY DEF Inv, storeStarted, Goto, TypeOK, Pointers, Begun
<1>6. Released'
  BY DEF Inv, storeStarted, Goto, TypeOK, Pointers, Released
<1>7. Left'
  BY DEF Inv, storeStarted, Goto, TypeOK, Pointers, Left
<1>8. Started'
  BY DEF Inv, storeStarted, Goto, TypeOK, Pointers, Started
<1>9. OneByOne'
  BY DEF Inv, storeStarted, Goto, TypeOK, Pointers, OneByOne, Life
<1> QED BY <1>1, <1>2, <1>3, <1>4, <1>5, <1>6, <1>7, <1>8, <1>9, Frames DEF Inv, storeStarted, Goto

\* The exporter starts.
LEMMA ExporterStartStep ==
  ASSUME Inv, crash = "none", NEW c \in Clients, exporterStart(c)
  PROVE  Inv'
<1>1. TypeOK'
  BY DEF Inv, exporterStart, Goto, managerVars, TypeOK, States
<1>2. Life'
  BY DEF Inv, exporterStart, Goto, managerVars, TypeOK, Life
<1>3. Pointers'
  BY DEF Inv, exporterStart, Goto, managerVars, TypeOK, Pointers
<1>4. Begun'
  BY DEF Inv, exporterStart, Goto, managerVars, TypeOK, Pointers, Begun
<1>5. Released'
  BY DEF Inv, exporterStart, Goto, managerVars, TypeOK, Pointers, Released
<1>6. Started'
  BY DEF Inv, exporterStart, Goto, managerVars, TypeOK, Pointers, Started
<1>7. OneByOne'
  BY DEF Inv, exporterStart, Goto, managerVars, TypeOK, Pointers, OneByOne
<1> QED BY <1>1, <1>2, <1>3, <1>4, <1>5, <1>6, <1>7, Frames DEF Inv, exporterStart, Goto,
        managerVars

\* The wait for its poll thread.
LEMMA WaitPollerStep ==
  ASSUME Inv, crash = "none", NEW c \in Clients, waitPoller(c)
  PROVE  Inv'
<1>1. TypeOK'
  BY DEF Inv, waitPoller, Goto, managerVars, TypeOK, States
<1>2. Life'
  BY DEF Inv, waitPoller, Goto, managerVars, TypeOK, Life
<1>3. Pointers'
  BY DEF Inv, waitPoller, Goto, managerVars, TypeOK, Pointers
<1>4. Begun'
  BY DEF Inv, waitPoller, Goto, managerVars, TypeOK, Pointers, Begun
<1>5. Released'
  BY DEF Inv, waitPoller, Goto, managerVars, TypeOK, Pointers, Released
<1>6. Started'
  BY DEF Inv, waitPoller, Goto, managerVars, TypeOK, Pointers, Started
<1>7. OneByOne'
  BY DEF Inv, waitPoller, Goto, managerVars, TypeOK, Pointers, OneByOne
<1> QED BY <1>1, <1>2, <1>3, <1>4, <1>5, <1>6, <1>7, Frames DEF Inv, waitPoller, Goto, managerVars

\* The poll thread signals.
LEMMA ExporterPollStep ==
  ASSUME Inv, crash = "none", NEW c \in Clients, exporterPoll(c)
  PROVE  Inv'
<1>1. TypeOK'
  BY DEF Inv, exporterPoll, managerVars, TypeOK, States
<1>2. Life'
  BY DEF Inv, exporterPoll, managerVars, TypeOK, Life
<1>3. Pointers'
  BY DEF Inv, exporterPoll, managerVars, TypeOK, Pointers
<1>4. Begun'
  BY DEF Inv, exporterPoll, managerVars, TypeOK, Pointers, Begun
<1>5. Released'
  BY DEF Inv, exporterPoll, managerVars, TypeOK, Pointers, Released
<1>6. Started'
  BY DEF Inv, exporterPoll, managerVars, TypeOK, Pointers, Started
<1>7. OneByOne'
  BY DEF Inv, exporterPoll, managerVars, TypeOK, Pointers, OneByOne
<1> QED BY <1>1, <1>2, <1>3, <1>4, <1>5, <1>6, <1>7, Frames DEF Inv, exporterPoll, managerVars

\* The client is STARTED; the scheduler of a manager that is held has not stopped.
LEMMA ScheduleRouteUpdateStep ==
  ASSUME Inv, crash = "none", NEW c \in Clients, scheduleRouteUpdate(c)
  PROVE  Inv'
<1>1. TypeOK'
  BY DEF Inv, scheduleRouteUpdate, Goto, schedule, managerVars, TypeOK, States
<1>2. Life'
  BY DEF Inv, scheduleRouteUpdate, Goto, schedule, managerVars, TypeOK, Life
<1>3. Pointers'
  BY DEF Inv, scheduleRouteUpdate, Goto, schedule, managerVars, TypeOK, Pointers
<1>4. Begun'
  BY DEF Inv, scheduleRouteUpdate, Goto, schedule, managerVars, TypeOK, Pointers, Begun
<1>5. Released'
  BY DEF Inv, scheduleRouteUpdate, Goto, schedule, managerVars, TypeOK, Pointers, Released
<1>6. Left'
  BY DEF Inv, scheduleRouteUpdate, Goto, schedule, managerVars, TypeOK, Pointers, Left, Stages,
         Released
<1>7. Started'
  BY DEF Inv, scheduleRouteUpdate, Goto, schedule, managerVars, TypeOK, Pointers, Started
<1>8. OneByOne'
  BY DEF Inv, scheduleRouteUpdate, Goto, schedule, managerVars, TypeOK, Pointers, OneByOne
<1>9. CrashNeedsRace'
  BY DEF Inv, scheduleRouteUpdate, Goto, schedule, managerVars, TypeOK, CrashNeedsRace
<1> QED BY <1>1, <1>2, <1>3, <1>4, <1>5, <1>6, <1>7, <1>8, <1>9, Frames DEF Inv,
        scheduleRouteUpdate, Goto, schedule, managerVars

\* A request, while the manager is held.
LEMMA SendRequestStep ==
  ASSUME Inv, crash = "none", NEW c \in Clients, sendRequest(c)
  PROVE  Inv'
<1>1. TypeOK'
  BY DEF Inv, sendRequest, managerVars, TypeOK, States
<1>2. Pointers'
  BY DEF Inv, sendRequest, managerVars, TypeOK, Pointers
<1>3. Released'
  BY DEF Inv, sendRequest, managerVars, TypeOK, Pointers, Released
<1>4. Left'
  BY DEF Inv, sendRequest, managerVars, TypeOK, Pointers, Left, Stages, Released
<1> QED BY <1>1, <1>2, <1>3, <1>4, Frames DEF Inv, sendRequest, managerVars

\* The completion queue hands an answer to the pool.
LEMMA PollCompletionQueueStep ==
  ASSUME Inv, crash = "none", NEW c \in Clients, pollCompletionQueue(c)
  PROVE  Inv'
<1>1. TypeOK'
  BY DEF Inv, pollCompletionQueue, managerVars, TypeOK, States
<1>2. Pointers'
  BY DEF Inv, pollCompletionQueue, managerVars, TypeOK, Pointers
<1>3. Released'
  BY DEF Inv, pollCompletionQueue, managerVars, TypeOK, Pointers, Released
<1>4. Left'
  BY DEF Inv, pollCompletionQueue, managerVars, TypeOK, Pointers, Left
<1> QED BY <1>1, <1>2, <1>3, <1>4, Frames DEF Inv, pollCompletionQueue, managerVars

\* The callback runs only if the manager is STARTED.
LEMMA OnCompletionStep ==
  ASSUME Inv, crash = "none", NEW c \in Clients, onCompletion(c)
  PROVE  Inv'
<1>1. TypeOK'
  BY DEF Inv, onCompletion, managerVars, TypeOK, States
<1>2. Pointers'
  BY DEF Inv, onCompletion, managerVars, TypeOK, Pointers
<1>3. Released'
  BY DEF Inv, onCompletion, managerVars, TypeOK, Pointers, Released, Stages
<1>4. Left'
  BY DEF Inv, onCompletion, managerVars, TypeOK, Pointers, Left
<1> QED BY <1>1, <1>2, <1>3, <1>4, Frames DEF Inv, onCompletion, managerVars

\* The functor runs only if it can lock the manager.
LEMMA FireTimerStep ==
  ASSUME Inv, crash = "none", NEW m \in Managers, fireTimer(m)
  PROVE  Inv'
<1>1. TypeOK'
  BY DEF Inv, fireTimer, clientVars, TypeOK, States
<1>2. Stages'
  BY DEF Inv, fireTimer, clientVars, TypeOK, Pointers, Stages
<1>3. Released'
  BY Destroyed DEF Inv, fireTimer, clientVars, TypeOK, Pointers, Released
<1> QED BY <1>1, <1>2, <1>3, Frames DEF Inv, fireTimer, clientVars

\* The functor of a client.
LEMMA FireRouteUpdateStep ==
  ASSUME Inv, crash = "none", NEW c \in Clients, fireRouteUpdate(c)
  PROVE  Inv'
<1>1. TypeOK'
  BY DEF Inv, fireRouteUpdate, managerVars, TypeOK, States
<1>2. Pointers'
  BY DEF Inv, fireRouteUpdate, managerVars, TypeOK, Pointers
<1>3. Left'
  BY DEF Inv, fireRouteUpdate, managerVars, TypeOK, Pointers, Left
<1> QED BY <1>1, <1>2, <1>3, Frames DEF Inv, fireRouteUpdate, managerVars

\* A client begins to shut down.
LEMMA ClientShutdownStep ==
  ASSUME Inv, crash = "none", NEW c \in Clients, shutdown(c)
  PROVE  Inv'
<1>1. TypeOK'
  BY DEF Inv, shutdown, Goto, cancel, managerVars, TypeOK, States
<1>2. Life'
  BY DEF Inv, shutdown, Goto, cancel, managerVars, TypeOK, Life
<1>3. Pointers'
  BY DEF Inv, shutdown, Goto, cancel, managerVars, TypeOK, Pointers
<1>4. Begun'
  BY DEF Inv, shutdown, Goto, cancel, managerVars, TypeOK, Pointers, Begun
<1>5. Released'
  BY DEF Inv, shutdown, Goto, cancel, managerVars, TypeOK, Pointers, Released
<1>6. Left'
  BY DEF Inv, shutdown, Goto, cancel, managerVars, TypeOK, Pointers, Left
<1>7. Started'
  BY DEF Inv, shutdown, Goto, cancel, managerVars, TypeOK, Pointers, Started
<1>8. OneByOne'
  BY DEF Inv, shutdown, Goto, cancel, managerVars, TypeOK, Pointers, OneByOne
<1>9. CrashNeedsRace'
  BY DEF Inv, shutdown, Goto, cancel, managerVars, TypeOK, CrashNeedsRace
<1> QED BY <1>1, <1>2, <1>3, <1>4, <1>5, <1>6, <1>7, <1>8, <1>9, Frames DEF Inv, shutdown, Goto,
        cancel, managerVars

\* The notice to the brokers.
LEMMA NotifyClientTerminationStep ==
  ASSUME Inv, crash = "none", NEW c \in Clients, notifyClientTermination(c)
  PROVE  Inv'
<1>1. TypeOK'
  BY DEF Inv, notifyClientTermination, Goto, managerVars, TypeOK, States
<1>2. Life'
  BY DEF Inv, notifyClientTermination, Goto, managerVars, TypeOK, Life
<1>3. Pointers'
  BY DEF Inv, notifyClientTermination, Goto, managerVars, TypeOK, Pointers
<1>4. Begun'
  BY DEF Inv, notifyClientTermination, Goto, managerVars, TypeOK, Pointers, Begun
<1>5. Released'
  BY DEF Inv, notifyClientTermination, Goto, managerVars, TypeOK, Pointers, Released
<1>6. Started'
  BY DEF Inv, notifyClientTermination, Goto, managerVars, TypeOK, Pointers, Started
<1>7. OneByOne'
  BY DEF Inv, notifyClientTermination, Goto, managerVars, TypeOK, Pointers, OneByOne
<1> QED BY <1>1, <1>2, <1>3, <1>4, <1>5, <1>6, <1>7, Frames DEF Inv, notifyClientTermination,
        Goto, managerVars

\* A client is STOPPED.
LEMMA StopStep ==
  ASSUME Inv, crash = "none", NEW c \in Clients, stop(c)
  PROVE  Inv'
<1>1. TypeOK'
  BY DEF Inv, stop, Goto, managerVars, TypeOK, States
<1>2. Life'
  BY DEF Inv, stop, Goto, managerVars, TypeOK, Life
<1>3. Pointers'
  BY DEF Inv, stop, Goto, managerVars, TypeOK, Pointers
<1>4. Begun'
  BY DEF Inv, stop, Goto, managerVars, TypeOK, Pointers, Begun
<1>5. Released'
  BY DEF Inv, stop, Goto, managerVars, TypeOK, Pointers, Released
<1>6. Started'
  BY DEF Inv, stop, Goto, managerVars, TypeOK, Pointers, Started
<1>7. OneByOne'
  BY DEF Inv, stop, Goto, managerVars, TypeOK, Pointers, OneByOne
<1>8. CrashNeedsRace'
  BY DEF Inv, stop, Goto, managerVars, TypeOK, CrashNeedsRace
<1> QED BY <1>1, <1>2, <1>3, <1>4, <1>5, <1>6, <1>7, <1>8, Frames DEF Inv, stop, Goto, managerVars

\* The pool is stopped, or joins itself.
LEMMA PoolShutdownStep ==
  ASSUME Inv, crash = "none", NEW m \in Managers, poolShutdown(m)
  PROVE  Inv'
<1>1. TypeOK'
  BY DEF Inv, poolShutdown, TypeOK, States
<1>2. Pointers'
  BY DEF Inv, poolShutdown, TypeOK, Pointers
<1>3. Stages'
  BY DEF Inv, poolShutdown, TypeOK, Pointers, Stages
<1>4. Released'
  BY DEF Inv, poolShutdown, TypeOK, Pointers, Released
<1>5. Left'
  BY DEF Inv, poolShutdown, TypeOK, Pointers, Left
<1>6. CrashNeedsRace'
  BY Destroyed DEF Inv, poolShutdown, TypeOK, CrashNeedsRace
<1> QED BY <1>1, <1>2, <1>3, <1>4, <1>5, <1>6, Frames DEF Inv, poolShutdown

\* The scheduler is stopped, or joins itself.
LEMMA SchedulerShutdownStep ==
  ASSUME Inv, crash = "none", NEW m \in Managers, schedulerShutdown(m)
  PROVE  Inv'
<1>1. TypeOK'
  BY DEF Inv, schedulerShutdown, cancelTasks, TypeOK, States
<1>2. Pointers'
  BY DEF Inv, schedulerShutdown, cancelTasks, TypeOK, Pointers
<1>3. Stages'
  BY DEF Inv, schedulerShutdown, cancelTasks, TypeOK, Pointers, Stages
<1>4. Released'
  BY DEF Inv, schedulerShutdown, cancelTasks, TypeOK, Pointers, Released
<1>5. Left'
  BY DEF Inv, schedulerShutdown, cancelTasks, TypeOK, Pointers, Left
<1>6. CrashNeedsRace'
  BY Destroyed DEF Inv, schedulerShutdown, cancelTasks, TypeOK, CrashNeedsRace
<1> QED BY <1>1, <1>2, <1>3, <1>4, <1>5, <1>6, Frames DEF Inv, schedulerShutdown, cancelTasks

\* The manager is STOPPED.
LEMMA CompletionQueueShutdownStep ==
  ASSUME Inv, crash = "none", NEW m \in Managers, completionQueueShutdown(m)
  PROVE  Inv'
<1>1. TypeOK'
  BY DEF Inv, completionQueueShutdown, clientVars, TypeOK, States
<1>2. Stages'
  BY DEF Inv, completionQueueShutdown, clientVars, TypeOK, Pointers, Stages
<1>3. Begun'
  BY DEF Inv, completionQueueShutdown, clientVars, TypeOK, Pointers, Begun, Stages
<1>4. Left'
  BY DEF Inv, completionQueueShutdown, clientVars, TypeOK, Pointers, Left
<1>5. Started'
  BY DEF Inv, completionQueueShutdown, clientVars, TypeOK, Pointers, Started, Released
<1>6. OneByOne'
  BY DEF Inv, completionQueueShutdown, clientVars, TypeOK, Pointers, OneByOne, Released
<1> QED BY <1>1, <1>2, <1>3, <1>4, <1>5, <1>6, Frames DEF Inv, completionQueueShutdown, clientVars

\* A pointer that is null was reset by shutdown.
LEMMA UpdateRouteInfoStep ==
  ASSUME Inv, crash = "none", NEW c \in Clients, updateRouteInfo(c)
  PROVE  Inv'
<1>1. TypeOK'
  BY DEF Inv, updateRouteInfo, managerVars, TypeOK, States
<1>2. Pointers'
  BY DEF Inv, updateRouteInfo, managerVars, TypeOK, Pointers
<1>3. Left'
  BY DEF Inv, updateRouteInfo, managerVars, TypeOK, Pointers, Left
<1>4. CrashNeedsRace'
  <2>1. CASE held[c] # None
    BY <2>1 DEF Inv, updateRouteInfo, CrashNeedsRace
  <2>2. CASE held[c] = None
    <3>1. pc[c] \notin Fresh /\ pc[c] \notin Holding
      BY <2>2, LifecycleAssumption DEF Inv, updateRouteInfo, Pointers
    <3>2. pc[c] \in Gone
      BY <3>1 DEF Inv, TypeOK
    <3>3. cstate[c] \in {"STOPPING", "STOPPED"}
      BY <3>2 DEF Inv, Life, TypeOK, States
    <3> QED BY <3>3 DEF updateRouteInfo, CrashNeedsRace
  <2> QED BY <2>1, <2>2
<1> QED BY <1>1, <1>2, <1>3, <1>4, Frames DEF Inv, updateRouteInfo, managerVars

\* Staggered, no other client has started the poller.
LEMMA ScheduleTasksStep ==
  ASSUME Inv, crash = "none", NEW c \in Clients, scheduleTasks(c)
  PROVE  Inv'
<1>1. TypeOK'
  BY DEF Inv, scheduleTasks, Goto, TypeOK, States, Pointers
<1>2. Life'
  BY DEF Inv, scheduleTasks, Goto, TypeOK, Life
<1>3. Pointers'
  BY DEF Inv, scheduleTasks, Goto, TypeOK, Pointers
<1>4. Stages'
  BY DEF Inv, scheduleTasks, Goto, TypeOK, Pointers, Stages, Released, Started
<1>5. Begun'
  BY DEF Inv, scheduleTasks, Goto, TypeOK, Pointers, Begun
<1>6. Released'
  BY DEF Inv, scheduleTasks, Goto, TypeOK, Pointers, Released
<1>7. Started'
  BY DEF Inv, scheduleTasks, Goto, TypeOK, Pointers, Started
<1>8. OneByOne'
  BY DEF Inv, scheduleTasks, Goto, TypeOK, Pointers, OneByOne, Life
<1>9. CrashNeedsRace'
  BY DEF Inv, scheduleTasks, Goto, TypeOK, CrashNeedsRace, OneByOne, Pointers
<1> QED BY <1>1, <1>2, <1>3, <1>4, <1>5, <1>6, <1>7, <1>8, <1>9, Frames DEF Inv, scheduleTasks, Goto

-----------------------------------------------------------------------------
(* Steps that drop a pointer, or hand one out *)

\* Whoever drops a pointer that was not the last one leaves the manager alone; the
\* last one starts its destruction, and nobody has a pointer then.
LEMMA DropStep ==
  ASSUME NEW m \in Managers, NEW ref, NEW thread \in {"client", "timer", "callback"}, Inv,
         Drop(m, ref, thread)
  PROVE  \/ UNCHANGED <<mstate, destroyer>>
         \/ /\ Refs(m) = {ref} /\ mstate[m] = "STARTED"
            /\ mstate' = [mstate EXCEPT ![m] = "STOPPING"]
            /\ destroyer' = [destroyer EXCEPT ![m] = thread]
            /\ destroyer'[m] # "nobody"
            /\ \E c \in Clients : home[c] = m
BY DEF Drop, Inv, TypeOK, Begun

\* A callback ends.
LEMMA CompletedStep ==
  ASSUME Inv, crash = "none", NEW c \in Clients, completed(c)
  PROVE  Inv'
<1> DEFINE m == home[c]
<1>1. /\ request[c] = "running" /\ request' = [request EXCEPT ![c] = "called"]
      /\ Drop(m, <<"callback", c>>, "callback")
      /\ UNCHANGED <<staggered, crash, cstate, pc, held, home, exporter, route, table, sched,
                     unsignalled, pool, timer, poller>>
  BY DEF completed
<1>2. m \in Managers
  BY <1>1 DEF Inv, Pointers
<1>3. CASE UNCHANGED <<mstate, destroyer>>
  <2>1. TypeOK'
    BY <1>1, <1>3 DEF Inv, TypeOK
  <2>2. Pointers' /\ Released' /\ Left'
    BY <1>1, <1>3 DEF Inv, TypeOK, Pointers, Released, Left
  <2> QED BY <1>1, <1>3, <2>1, <2>2, Frames DEF Inv
<1>4. CASE /\ Refs(m) = {<<"callback", c>>} /\ mstate[m] = "STARTED"
           /\ mstate' = [mstate EXCEPT ![m] = "STOPPING"]
           /\ destroyer' = [destroyer EXCEPT ![m] = "callback"]
  <2>1. /\ timer[m] # "running"
        /\ \A d \in Clients : held[d] # m
        /\ \A d \in Clients \ {c} : ~(home[d] = m /\ request[d] = "running")
    <3>1. /\ <<"timer", m>> # <<"callback", c>>
          /\ \A d \in Clients : <<"client", d>> # <<"callback", c>>
          /\ \A d \in Clients \ {c} : <<"callback", d>> # <<"callback", c>>
      OBVIOUS
    <3>2. /\ \A d \in Clients : held[d] = m => <<"callback", c>> = <<"client", d>>
          /\ \A d \in Clients : home[d] = m /\ request[d] = "running"
                => <<"callback", c>> = <<"callback", d>>
          /\ timer[m] = "running" => <<"callback", c>> = <<"timer", m>>
      BY <1>2, <1>4, LastRef
    <3> QED BY <3>1, <3>2
  <2>2. \A d \in Clients : home[d] = m => pc[d] \in Gone
    BY <1>2, <2>1, LifecycleAssumption DEF Inv, TypeOK, Pointers
  <2>3. TypeOK'
    BY <1>1, <1>4 DEF Inv, TypeOK, States
  <2>4. Pointers'
    BY <1>1 DEF Inv, TypeOK, Pointers
  <2>5. Stages'
    BY <1>1, <1>2, <1>4 DEF Inv, TypeOK, Stages
  <2>6. Begun'
    BY <1>1, <1>2, <1>4 DEF Inv, TypeOK, Begun
  <2>7. Released'
    BY <1>1, <1>2, <1>4, <2>1, <2>2 DEF Inv, TypeOK, Released
  <2>8. Left'
    BY <1>1, <1>2, <1>4 DEF Inv, TypeOK, Left
  <2>9. Started' /\ OneByOne'
    BY <1>1, <1>2, <1>4, <2>2 DEF Inv, TypeOK, Started, OneByOne
  <2> QED BY <1>1, <2>3, <2>4, <2>5, <2>6, <2>7, <2>8, <2>9, Frames DEF Inv
<1> QED BY <1>1, <1>2, <1>3, <1>4, DropStep

\* A functor of the manager ends.
LEMMA TimerDoneStep ==
  ASSUME Inv, crash = "none", NEW m \in Managers, timerDone(m)
  PROVE  Inv'
<1>1. /\ timer[m] = "running" /\ timer' = [timer EXCEPT ![m] = "armed"]
      /\ Drop(m, <<"timer", m>>, "timer")
      /\ UNCHANGED <<staggered, crash, cstate, pc, held, home, exporter, route, request, table,
                     sched, unsignalled, pool, poller>>
  BY DEF timerDone, clientVars
<1>2. CASE UNCHANGED <<mstate, destroyer>>
  <2>1. TypeOK'
    BY <1>1, <1>2 DEF Inv, TypeOK
  <2>2. Stages' /\ Released'
    BY <1>1, <1>2 DEF Inv, TypeOK, Stages, Released
  <2> QED BY <1>1, <1>2, <2>1, <2>2, Frames DEF Inv
<1>3. CASE /\ Refs(m) = {<<"timer", m>>} /\ mstate[m] = "STARTED"
           /\ mstate' = [mstate EXCEPT ![m] = "STOPPING"]
           /\ destroyer' = [destroyer EXCEPT ![m] = "timer"]
  <2>1. /\ \A d \in Clients : held[d] # m
        /\ \A d \in Clients : ~(home[d] = m /\ request[d] = "running")
    <3>1. \A d \in Clients : <<"client", d>> # <<"timer", m>> /\ <<"callback", d>> # <<"timer", m>>
      OBVIOUS
    <3>2. /\ \A d \in Clients : held[d] = m => <<"timer", m>> = <<"client", d>>
          /\ \A d \in Clients : home[d] = m /\ request[d] = "running"
                => <<"timer", m>> = <<"callback", d>>
      BY <1>3, LastRef
    <3> QED BY <3>1, <3>2
  <2>2. \A d \in Clients : home[d] = m => pc[d] \in Gone
    BY <2>1, LifecycleAssumption DEF Inv, TypeOK, Pointers
  <2>3. TypeOK'
    BY <1>1, <1>3 DEF Inv, TypeOK, States
  <2>4. Stages'
    BY <1>1, <1>3 DEF Inv, TypeOK, Stages
  <2>5. Begun'
    BY <1>1, <1>3 DEF Inv, TypeOK, Begun
  <2>6. Released'
    BY <1>1, <1>3, <2>1, <2>2 DEF Inv, TypeOK, Released
  <2>7. Left'
    BY <1>1, <1>3 DEF Inv, TypeOK, Left
  <2>8. Started' /\ OneByOne'
    BY <1>1, <1>3, <2>2 DEF Inv, TypeOK, Started, OneByOne
  <2> QED BY <1>1, <2>3, <2>4, <2>5, <2>6, <2>7, <2>8, Frames DEF Inv
<1> QED BY <1>1, <1>2, <1>3, DropStep

\* A client resets its pointer.
LEMMA ResetManagerStep ==
  ASSUME Inv, crash = "none", NEW c \in Clients, resetManager(c)
  PROVE  Inv'
<1> DEFINE m == held[c]
<1>1. /\ pc[c] = "reset" /\ pc' = [pc EXCEPT ![c] = "stop"] /\ held' = [held EXCEPT ![c] = None]
      /\ Drop(m, <<"client", c>>, "client")
      /\ UNCHANGED <<staggered, crash, cstate, home, exporter, route, request, table, sched,
                     unsignalled, pool, timer, poller>>
  BY DEF resetManager, Goto
<1>2. m \in Managers /\ home[c] = m
  BY <1>1 DEF Inv, Pointers
<1>3. Life' /\ Pointers'
  BY <1>1 DEF Inv, TypeOK, Life, Pointers
<1>4. CASE UNCHANGED <<mstate, destroyer>>
  <2>1. TypeOK'
    BY <1>1, <1>4 DEF Inv, TypeOK
  <2>2. Begun' /\ Released'
    BY <1>1, <1>4 DEF Inv, TypeOK, Begun, Released
  <2>3. Started' /\ OneByOne'
    BY <1>1, <1>4 DEF Inv, TypeOK, Started, OneByOne
  <2> QED BY <1>1, <1>3, <1>4, <2>1, <2>2, <2>3, Frames DEF Inv
<1>5. CASE /\ Refs(m) = {<<"client", c>>} /\ mstate[m] = "STARTED"
           /\ mstate' = [mstate EXCEPT ![m] = "STOPPING"]
           /\ destroyer' = [destroyer EXCEPT ![m] = "client"]
  <2>1. /\ timer[m] # "running"
        /\ \A d \in Clients \ {c} : held[d] # m
        /\ \A d \in Clients : ~(home[d] = m /\ request[d] = "running")
    <3>1. /\ <<"timer", m>> # <<"client", c>>
          /\ \A d \in Clients : <<"callback", d>> # <<"client", c>>
          /\ \A d \in Clients \ {c} : <<"client", d>> # <<"client", c>>
      OBVIOUS
    <3>2. /\ \A d \in Clients : held[d] = m => <<"client", c>> = <<"client", d>>
          /\ \A d \in Clients : home[d] = m /\ request[d] = "running"
                => <<"client", c>> = <<"callback", d>>
          /\ timer[m] = "running" => <<"client", c>> = <<"timer", m>>
      BY <1>2, <1>5, LastRef
    <3> QED BY <3>1, <3>2
  <2>2. \A d \in Clients : home[d] = m => pc'[d] \in Gone
    BY <1>1, <1>2, <2>1, LifecycleAssumption DEF Inv, TypeOK, Pointers
  <2>3. TypeOK'
    BY <1>1, <1>5 DEF Inv, TypeOK, States
  <2>4. Stages'
    BY <1>1, <1>2, <1>5 DEF Inv, TypeOK, Stages
  <2>5. Begun'
    BY <1>1, <1>2, <1>5 DEF Inv, TypeOK, Begun
  <2>6. Released'
    BY <1>1, <1>2, <1>5, <2>1, <2>2 DEF Inv, TypeOK, Released
  <2>7. Left'
    BY <1>1, <1>2, <1>5 DEF Inv, TypeOK, Left
  <2>8. Started' /\ OneByOne'
    BY <1>1, <1>2, <1>5, <2>2 DEF Inv, TypeOK, Started, OneByOne
  <2> QED BY <1>1, <1>3, <2>3, <2>4, <2>5, <2>6, <2>7, <2>8, Frames DEF Inv
<1> QED BY <1>1, <1>2, <1>4, <1>5, DropStep

\* A client is given the manager of the table while it can be locked, a new one
\* otherwise, and then nobody holds another one.
LEMMA GetClientManagerStep ==
  ASSUME Inv, crash = "none", NEW c \in Clients, getClientManager(c)
  PROVE  Inv'
<1>1. PICK m \in Managers :
        /\ m = IF Reusable THEN table ELSE 1 + Cardinality({home[d] : d \in Clients} \ {None})
        /\ held' = [held EXCEPT ![c] = m] /\ home' = [home EXCEPT ![c] = m] /\ table' = m
  BY DEF getClientManager
<1>2. /\ pc[c] = "getManager" /\ pc' = [pc EXCEPT ![c] = "testState"]
      /\ UNCHANGED <<staggered, crash, cstate, exporter, route, request, mstate, sched,
                     unsignalled, pool, timer, poller, destroyer>>
  BY DEF getClientManager, Goto
<1>3. /\ home[c] = None /\ route[c] = "none" /\ request[c] = "none" /\ m # None
  BY <1>2, LifecycleAssumption DEF Inv, Pointers
<1>4. PICK k \in Nat : {home[d] : d \in Clients} \ {None} = 1..k
  BY DEF Inv, Homes
<1>5. /\ home'[c] = m /\ pc'[c] = "testState"
      /\ \A d \in Clients \ {c} : home'[d] = home[d] /\ pc'[d] = pc[d]
  BY <1>1, <1>2 DEF Inv, TypeOK
<1>6. {home'[d] : d \in Clients} \ {None} = (1..k) \cup {m}
  BY <1>3, <1>4, <1>5
<1>7. /\ \E j \in Nat : {home'[d] : d \in Clients} \ {None} = 1..j
      /\ destroyer[m] = "nobody"
      /\ \A d \in Clients : pc[d] \in Holding => home[d] = m
      /\ staggered => mstate[m] # "STARTING"
  <2>1. CASE Reusable
    <3>1. m = table /\ Refs(m) # {} /\ table # None
      BY <1>1, <2>1 DEF Reusable
    <3>2. m \in 1..k
      BY <1>3, <1>4, <3>1 DEF Inv, Homes
    <3>3. \E j \in Nat : {home'[d] : d \in Clients} \ {None} = 1..j
      BY <1>6, <3>2
    <3>4. destroyer[m] = "nobody"
      BY <3>1, Destroyed
    <3>5. \A d \in Clients : pc[d] \in Holding => home[d] = m
      BY <3>1 DEF Inv, Pointers
    <3>6. ASSUME staggered, mstate[m] = "STARTING" PROVE FALSE
      <4>1. PICK d \in Clients : pc[d] \in Inside
        BY <3>6 DEF Inv, Begun
      <4>2. cstate[d] = "STARTING" /\ cstate[c] = "STARTING" /\ d # c
        BY <1>2, <4>1 DEF Inv, Life
      <4> QED BY <3>6, <4>2 DEF Inv, OneByOne
    <3> QED BY <3>3, <3>4, <3>5, <3>6
  <2>2. CASE ~Reusable
    <3>1. Cardinality(1..k) = k
      BY FS_Interval
    <3>2. m = 1 + Cardinality(1..k)
      BY <1>1, <1>4, <2>2
    <3>3. m = k + 1
      BY <3>1, <3>2
    <3>4. (1..k) \cup {m} = 1..(k + 1)
      BY <3>3
    <3>5. \E j \in Nat : {home'[d] : d \in Clients} \ {None} = 1..j
      BY <1>6, <3>4
    <3>6. ASSUME NEW d \in Clients PROVE home[d] # m
      <4>1. m \notin 1..k
        BY <3>3
      <4> QED BY <1>3, <1>4, <4>1
    <3>7. mstate[m] = "CREATED" /\ destroyer[m] = "nobody"
      BY <3>6 DEF Inv, Begun, Stages
    <3>8. ASSUME NEW d \in Clients, pc[d] \in Holding PROVE FALSE
      <4>1. held[d] = table /\ table \in Managers /\ table # None
        BY <3>8, LifecycleAssumption DEF Inv, Pointers
      <4>2. Refs(table) = {}
        BY <2>2, <4>1 DEF Reusable
      <4> QED BY <4>1, <4>2, RefsDefined
    <3> QED BY <3>5, <3>7, <3>8
  <2> QED BY <2>1, <2>2
<1>8. TypeOK'
  BY <1>1, <1>2 DEF Inv, TypeOK
<1>9. Life'
  BY <1>2 DEF Inv, TypeOK, Life
<1>10. Pointers'
  BY <1>1, <1>2, <1>3, <1>7 DEF Inv, TypeOK, Pointers
<1>11. Homes'
  <2>1. home'[c] = m /\ table' = m
    BY <1>1 DEF Inv, TypeOK
  <2> QED BY <1>7, <2>1 DEF Homes
<1>12. Begun'
  <2>1. ASSUME NEW l \in Managers, \A d \in Clients : home'[d] # l PROVE mstate[l] = "CREATED"
    <3>1. \A d \in Clients : home[d] # l
      BY <1>3, <1>5, <2>1, LifecycleAssumption
    <3> QED BY <3>1 DEF Inv, Begun
  <2>2. ASSUME NEW l \in Managers, mstate[l] = "STARTING"
        PROVE  \E d \in Clients : home'[d] = l /\ pc'[d] \in Inside
    <3>1. PICK d \in Clients : home[d] = l /\ pc[d] \in Inside
      BY <2>2 DEF Inv, Begun
    <3>2. d # c
      BY <1>2, <3>1
    <3> QED BY <1>5, <3>1, <3>2
  <2> QED BY <1>2, <2>1, <2>2 DEF Begun
<1>13. Released'
  BY <1>2, <1>5, <1>7 DEF Inv, Released
<1>14. Left'
  BY <1>1, <1>2, <1>3 DEF Inv, TypeOK, Left
<1>15. Started'
  BY <1>1, <1>2, <1>3 DEF Inv, TypeOK, Started
<1>16. OneByOne'
  <2>1. mstate[m] \in {"CREATED", "STARTING", "STARTED"}
    BY <1>7 DEF Inv, TypeOK, States, Stages
  <2> QED BY <1>2, <1>5, <1>7, <2>1 DEF Inv, OneByOne
<1> QED BY <1>2, <1>8, <1>9, <1>10, <1>11, <1>12, <1>13, <1>14, <1>15, <1>16, Frames DEF Inv

-----------------------------------------------------------------------------
(* What the invariant gives *)

\* Every step keeps the invariant.
LEMMA LifecycleInductive == Inv /\ [Next]_vars => Inv'
<1> SUFFICES ASSUME Inv, [Next]_vars PROVE Inv'
  OBVIOUS
<1>1. CASE UNCHANGED vars
  <2>1. UNCHANGED <<staggered, crash, cstate, pc, held, home, exporter, route, request, table,
                    mstate, sched, unsignalled, pool, timer, poller, destroyer>>
    BY <1>1 DEF vars, clientVars, managerVars
  <2>2. TypeOK'
    BY <2>1 DEF Inv, TypeOK
  <2> QED BY <2>1, <2>2, Frames DEF Inv
<1>2. ASSUME crash = "none", NEW c \in Clients, StartStep(c) \/ ShutdownStep(c) PROVE Inv'
  BY <1>2, GetClientManagerStep, ManagerStartStep, StoreStartingStep, SchedulerWaitStep,
     ScheduleTasksStep, StoreStartedStep, ExporterStartStep, WaitPollerStep,
     ScheduleRouteUpdateStep, NotifyClientTerminationStep, ResetManagerStep, StopStep
  DEF StartStep, ShutdownStep
<1>3. ASSUME crash = "none", NEW c \in Clients,
             \/ start(c) \/ exporterPoll(c) \/ shutdown(c) \/ sendRequest(c)
             \/ pollCompletionQueue(c) \/ onCompletion(c) \/ completed(c)
             \/ fireRouteUpdate(c) \/ updateRouteInfo(c)
      PROVE  Inv'
  BY <1>3, ClientStartStep, ExporterPollStep, ClientShutdownStep, SendRequestStep,
     PollCompletionQueueStep, OnCompletionStep, CompletedStep, FireRouteUpdateStep,
     UpdateRouteInfoStep
<1>4. ASSUME crash = "none", NEW m \in Managers,
             \/ schedulerThread(m) \/ schedulerSignal(m) \/ fireTimer(m) \/ timerDone(m)
             \/ ManagerShutdownStep(m)
      PROVE  Inv'
  BY <1>4, SchedulerThreadStep, SchedulerSignalStep, FireTimerStep, TimerDoneStep,
     PoolShutdownStep, SchedulerShutdownStep, CompletionQueueShutdownStep
  DEF ManagerShutdownStep
<1> QED BY <1>1, <1>2, <1>3, <1>4 DEF Next

\* Before any client starts.
LEMMA LifecycleInitial == Init => Inv
<1> SUFFICES ASSUME Init PROVE Inv
  OBVIOUS
<1>1. TypeOK
  BY DEF Init, TypeOK, States
<1>2. Life /\ Pointers /\ Stages /\ Begun
  BY DEF Init, Life, Pointers, Stages, Begun
<1>3. Released /\ Left /\ Started /\ OneByOne /\ CrashNeedsRace
  BY DEF Init, Released, Left, Started, OneByOne, CrashNeedsRace
<1>4. Homes
  <2>1. {home[c] : c \in Clients} \ {None} = {}
    BY DEF Init
  <2>2. 1..0 = {}
    OBVIOUS
  <2> QED BY <2>1, <2>2 DEF Homes, Init
<1> QED BY <1>1, <1>2, <1>3, <1>4 DEF Inv

\* In every reachable state.
LEMMA LifecycleInvariant == Spec => []Inv
BY LifecycleInductive, LifecycleInitial, PTL DEF Spec

\* Clients, managers and the threads between them keep their types: no manager
\* beyond the ones created is ever referred to.
THEOREM TypeCorrect == Spec => []TypeOK
BY LifecycleInvariant, PTL DEF Inv

\* Clients of a namespace that hold a manager hold the same one, and it is not shut
\* down under a started client; if they start one after another it is STARTED, its
\* pool and its completion queue work: for every number of clients, whatever the
\* others shut down and whoever drops the last pointer.
THEOREM StartedClientsAreServed == Spec => []ServedWhileStarted
<1>1. Inv => ServedWhileStarted
  <2> SUFFICES ASSUME Inv PROVE ServedWhileStarted
    OBVIOUS
  <2>1. ASSUME NEW c \in Clients, held[c] # None PROVE held[c] = table /\ pc[c] \in Holding
    BY <2>1 DEF Inv, TypeOK, Pointers
  <2>2. ASSUME NEW c \in Clients, cstate[c] = "STARTED"
        PROVE  /\ mstate[held[c]] \in {"CREATED", "STARTING", "STARTED"}
               /\ crash = "none" /\ staggered =>
                    /\ mstate[held[c]] = "STARTED" /\ pool[held[c]] = "running"
                    /\ poller[held[c]] = "running"
    <3>1. pc[c] = "running" /\ held[c] = home[c] /\ home[c] \in Managers
      BY <2>2 DEF Inv, Life, Pointers
    <3>2. destroyer[home[c]] = "nobody"
      BY <3>1 DEF Inv, Released
    <3>3. mstate[home[c]] \in {"CREATED", "STARTING", "STARTED"}
      BY <3>1, <3>2 DEF Inv, TypeOK, States, Stages
    <3>4. staggered => mstate[home[c]] = "STARTED"
      BY <3>1 DEF Inv, OneByOne
    <3> QED BY <3>1, <3>3, <3>4 DEF Inv, Stages
  <2> QED BY <2>1, <2>2 DEF ServedWhileStarted
<1> QED BY <1>1, LifecycleInvariant, PTL

\* The process is ended only when starts overlap or a client shuts down.
THEOREM CrashesNeedRace == Spec => []CrashNeedsRace
BY LifecycleInvariant, PTL DEF Inv

\* A manager that is STOPPED is quiet: no callback is queued or runs, no functor is
\* pending, and the thread of the completion queue has ended, whichever requests and
\* timers were on their way.
THEOREM StoppedIsQuiet == Spec => []StoppedQuiet
<1>1. Inv => StoppedQuiet
  <2> SUFFICES ASSUME Inv, NEW m \in Managers, mstate[m] = "STOPPED" PROVE Quiet(m)
    BY DEF StoppedQuiet
  <2>1. pool[m] = "stopped" /\ sched[m] = "STOPPED" /\ timer[m] = "none" /\ poller[m] = "ended"
    BY DEF Inv, Stages
  <2>2. ASSUME NEW c \in Clients, home[c] = m
        PROVE  route[c] = "none" /\ request[c] \in {"none", "called", "dropped"}
    <3>1. home[c] # None
      BY <2>2, LifecycleAssumption
    <3> QED BY <2>1, <2>2, <3>1 DEF Inv, Left, TypeOK
  <2> QED BY <2>1, <2>2 DEF Quiet
<1> QED BY <1>1, LifecycleInvariant, PTL

=============================================================================
