--------------------------- MODULE ClientLifecycle ---------------------------
(***************************************************************************)
(* Start and shutdown of clients that share a client manager: ClientImpl,  *)
(* ClientManagerFactory, ClientManagerImpl with its scheduler, callback    *)
(* pool and completion queue, and the exporter handler a client starts.    *)
(*                                                                         *)
(* All clients have one resource namespace.  A client is started and shut  *)
(* down once, by a thread of the application that pc follows.  A manager   *)
(* lives as long as somebody holds a shared pointer to it (Refs): its      *)
(* clients, a timer functor or a completion callback that has locked its   *)
(* weak pointer.  Whoever drops the last one runs the destructor.          *)
(*                                                                         *)
(* Abstractions: one periodic timer stands for the manager's health check, *)
(* heartbeat and statistics; one request per client for its RPCs.          *)
(***************************************************************************)
EXTENDS Naturals, FiniteSets

CONSTANTS
    Clients,    \* client objects of the application
    Senders,    \* the clients that send a request
    MaxManagers,\* bound: client managers created, one after another
    None        \* no manager: a null pointer, an empty factory table

Managers == 1..MaxManagers

ASSUME LifecycleAssumption == Senders \subseteq Clients /\ MaxManagers \in Nat /\ None \notin Managers

VARIABLES
    staggered,  \* whether the application starts its clients one after another
    crash,      \* why the process ended: "none" while it runs
    cstate,     \* ClientImpl::state_
    pc,         \* where the application's thread is in start or shutdown of a client
    held,       \* client_manager_ of a client
    home,       \* the manager a client was given; what its timers and requests refer to
    exporter,   \* poll thread of the exporter handler: "none", "spawned", "polling"
    route,      \* route_update timer of a client: see fireRouteUpdate
    request,    \* the client's request: see sendRequest

    table,      \* client_manager_table_: a weak pointer
    mstate,     \* ClientManagerImpl::state_
    sched,      \* SchedulerImpl::state_
    unsignalled,\* the managers whose scheduler thread has yet to signal start_cv_
    pool,       \* callback_thread_pool_: "none", "running", "stopped"
    timer,      \* periodic timer of a manager: "none", "armed", "running"
    poller,     \* completion_queue_thread_: "none", "running", "ended"
    destroyer   \* the thread in the manager's destructor: "nobody", "client", "timer", "callback"

clientVars == <<cstate, pc, held, home, exporter, route, request>>
managerVars == <<table, mstate, sched, unsignalled, pool, timer, poller, destroyer>>
vars == <<staggered, crash, clientVars, managerVars>>

States == {"CREATED", "STARTING", "STARTED", "STOPPING", "STOPPED"}

TypeOK ==
    /\ staggered \in BOOLEAN
    /\ crash \in {"none", "double_start", "self_join", "null_manager"}
    /\ cstate \in [Clients -> States]
    /\ pc \in [Clients -> {"idle", "getManager", "testState", "storeStarting", "waitScheduler",
                           "asleepScheduler", "scheduleTasks", "storeStarted", "exporter", "waitPoller",
                           "asleepPoller", "schedule", "running", "notify", "reset", "stop", "done"}]
    /\ held \in [Clients -> Managers \cup {None}]
    /\ home \in [Clients -> Managers \cup {None}]
    /\ exporter \in [Clients -> {"none", "spawned", "polling"}]
    /\ route \in [Clients -> {"none", "armed", "checked", "cancelled"}]
    /\ request \in [Clients -> {"none", "sent", "queued", "running", "called", "dropped"}]
    /\ table \in Managers \cup {None}
    /\ mstate \in [Managers -> States]
    /\ sched \in [Managers -> States]
    /\ unsignalled \subseteq Managers
    /\ pool \in [Managers -> {"none", "running", "stopped"}]
    /\ timer \in [Managers -> {"none", "armed", "running"}]
    /\ poller \in [Managers -> {"none", "running", "ended"}]
    /\ destroyer \in [Managers -> {"nobody", "client", "timer", "callback"}]

Init ==
    /\ staggered \in BOOLEAN
    /\ crash = "none"
    /\ cstate = [c \in Clients |-> "CREATED"]
    /\ pc = [c \in Clients |-> "idle"]
    /\ held = [c \in Clients |-> None]
    /\ home = [c \in Clients |-> None]
    /\ exporter = [c \in Clients |-> "none"]
    /\ route = [c \in Clients |-> "none"]
    /\ request = [c \in Clients |-> "none"]
    /\ table = None
    /\ mstate = [m \in Managers |-> "CREATED"]
    /\ sched = [m \in Managers |-> "CREATED"]
    /\ unsignalled = {}
    /\ pool = [m \in Managers |-> "none"]
    /\ timer = [m \in Managers |-> "none"]
    /\ poller = [m \in Managers |-> "none"]
    /\ destroyer = [m \in Managers |-> "nobody"]

-----------------------------------------------------------------------------
(* Shared pointers to a manager.                                           *)

Refs(m) ==
    {<<"client", c>> : c \in {c \in Clients : held[c] = m}}
        \cup {<<"callback", c>> : c \in {c \in Clients : home[c] = m /\ request[c] = "running"}}
        \cup (IF timer[m] = "running" THEN {<<"timer", m>>} ELSE {})

\* ClientManagerImpl::~ClientManagerImpl and the head of shutdown: the thread
\* that drops reference ref runs it if there is no other reference.
Drop(m, ref, thread) ==
    IF Refs(m) = {ref} /\ mstate[m] = "STARTED"
        THEN /\ mstate' = [mstate EXCEPT ![m] = "STOPPING"]
             /\ destroyer' = [destroyer EXCEPT ![m] = thread]
        ELSE UNCHANGED <<mstate, destroyer>>

Goto(c, label) == pc' = [pc EXCEPT ![c] = label]

\* SchedulerImpl::schedule and cancel of a client's timer.  A functor that runs
\* when its task is cancelled goes on, and its timer is not armed again.
schedule(c) == route' = [route EXCEPT ![c] = "armed"]

cancel(c) == route' = [route EXCEPT ![c] = IF @ = "checked" THEN "cancelled" ELSE "none"]

\* The manager cancels its own tasks.
cancelTasks(m) == timer' = [timer EXCEPT ![m] = "none"]

-----------------------------------------------------------------------------
(* ClientImpl::start                                                       *)

start(c) ==
    /\ pc[c] = "idle" /\ cstate[c] = "CREATED"
    /\ staggered => \A d \in Clients : cstate[d] # "STARTING"
    /\ cstate' = [cstate EXCEPT ![c] = "STARTING"]
    /\ Goto(c, "getManager")
    /\ UNCHANGED <<staggered, crash, held, home, exporter, route, request, managerVars>>

\* Reuse the manager of the table while its weak pointer can be locked.
Reusable == table # None /\ Refs(table) # {}

getClientManager(c) ==
    /\ pc[c] = "getManager"
    /\ \E m \in Managers :
        /\ m = IF Reusable THEN table ELSE 1 + Cardinality({home[d] : d \in Clients} \ {None})
        /\ held' = [held EXCEPT ![c] = m]
        /\ home' = [home EXCEPT ![c] = m]
        /\ table' = m
    /\ Goto(c, "testState")
    /\ UNCHANGED <<staggered, crash, cstate, exporter, route, request, mstate, sched, unsignalled,
                   pool, timer, poller, destroyer>>

\* Mutant: the manager is started by every client that uses it.
managerStart_Restarts(c) ==
    /\ pc[c] = "testState"
    /\ Goto(c, "storeStarting")
    /\ UNCHANGED <<staggered, crash, cstate, held, home, exporter, route, request, managerVars>>

\* ClientManagerImpl::start, first the test of the state ...
managerStart(c) ==
    /\ pc[c] = "testState"
    /\ Goto(c, IF mstate[held[c]] = "CREATED" THEN "storeStarting" ELSE "exporter")
    /\ UNCHANGED <<staggered, crash, cstate, held, home, exporter, route, request, managerVars>>

\* ... then the store, the start of the pool, and SchedulerImpl::start, which
\* creates its threads unless somebody else did.
storeStarting(c) ==
    /\ pc[c] = "storeStarting"
    /\ LET m == held[c] IN
        /\ mstate' = [mstate EXCEPT ![m] = "STARTING"]
        /\ pool' = [pool EXCEPT ![m] = "running"]
        /\ IF sched[m] = "CREATED"
               THEN /\ sched' = [sched EXCEPT ![m] = "STARTING"]
                    /\ Goto(c, "waitScheduler")
               ELSE /\ sched' = sched
                    /\ Goto(c, "scheduleTasks")
    /\ UNCHANGED <<staggered, crash, cstate, held, home, exporter, route, request, table, unsignalled,
                   timer, poller, destroyer>>

\* Mutant: the wait does not look at the state of the scheduler first.
schedulerWait_Unconditional(c) ==
    /\ pc[c] = "waitScheduler"
    /\ Goto(c, "asleepScheduler")
    /\ UNCHANGED <<staggered, crash, cstate, held, home, exporter, route, request, managerVars>>

\* The test of the scheduler's state and the wait are one step under start_mtx_.
schedulerWait(c) ==
    /\ pc[c] = "waitScheduler"
    /\ Goto(c, IF sched[held[c]] = "STARTING" THEN "asleepScheduler" ELSE "scheduleTasks")
    /\ UNCHANGED <<staggered, crash, cstate, held, home, exporter, route, request, managerVars>>

\* The first thread of the scheduler changes the state, then signals.
schedulerThread(m) ==
    /\ sched[m] = "STARTING"
    /\ sched' = [sched EXCEPT ![m] = "STARTED"]
    /\ unsignalled' = unsignalled \cup {m}
    /\ UNCHANGED <<staggered, crash, clientVars, table, mstate, pool, timer, poller, destroyer>>

schedulerSignal(m) ==
    /\ m \in unsignalled
    /\ unsignalled' = unsignalled \ {m}
    /\ pc' = [c \in Clients |-> IF pc[c] = "asleepScheduler" /\ held[c] = m THEN "scheduleTasks" ELSE pc[c]]
    /\ UNCHANGED <<staggered, crash, cstate, held, home, exporter, route, request, table, mstate, sched,
                   pool, timer, poller, destroyer>>

\* The periodic tasks and the completion queue's thread.  Assigning to a
\* std::thread that is joinable ends the process.
scheduleTasks(c) ==
    /\ pc[c] = "scheduleTasks"
    /\ LET m == held[c] IN
        IF poller[m] = "none"
            THEN /\ timer' = [timer EXCEPT ![m] = "armed"]
                 /\ poller' = [poller EXCEPT ![m] = "running"]
                 /\ Goto(c, "storeStarted")
                 /\ crash' = crash
            ELSE /\ crash' = "double_start"
                 /\ UNCHANGED <<timer, poller, pc>>
    /\ UNCHANGED <<staggered, cstate, held, home, exporter, route, request, table, mstate, sched,
                   unsignalled, pool, destroyer>>

storeStarted(c) ==
    /\ pc[c] = "storeStarted"
    /\ mstate' = [mstate EXCEPT ![held[c]] = "STARTED"]
    /\ Goto(c, "exporter")
    /\ UNCHANGED <<staggered, crash, cstate, held, home, exporter, route, request, table, sched,
                   unsignalled, pool, timer, poller, destroyer>>

\* OtlpExporter::start: create the poll thread, then wait for its signal
\* whether or not it has come already.
exporterStart(c) ==
    /\ pc[c] = "exporter"
    /\ exporter' = [exporter EXCEPT ![c] = "spawned"]
    /\ Goto(c, "waitPoller")
    /\ UNCHANGED <<staggered, crash, cstate, held, home, route, request, managerVars>>

waitPoller(c) ==
    /\ pc[c] = "waitPoller"
    /\ Goto(c, "asleepPoller")
    /\ UNCHANGED <<staggered, crash, cstate, held, home, exporter, route, request, managerVars>>

\* OtlpExporterHandler::poll
exporterPoll(c) ==
    /\ exporter[c] = "spawned"
    /\ exporter' = [exporter EXCEPT ![c] = "polling"]
    /\ pc' = IF pc[c] = "asleepPoller" THEN [pc EXCEPT ![c] = "schedule"] ELSE pc
    /\ UNCHANGED <<staggered, crash, cstate, held, home, route, request, managerVars>>

\* The route_update timer; then ProducerImpl::start and its like register the
\* client as an observer.
scheduleRouteUpdate(c) ==
    /\ pc[c] = "schedule"
    /\ schedule(c)
    /\ cstate' = [cstate EXCEPT ![c] = "STARTED"]
    /\ Goto(c, "running")
    /\ UNCHANGED <<staggered, crash, held, home, exporter, request, managerVars>>

-----------------------------------------------------------------------------
(* Requests and timers of a client that runs.                              *)

\* A request is "sent", "queued" in the callback pool once the completion queue
\* has returned its answer, "running" there, and then "called"; it is "dropped"
\* where the code ends it without a call of the callback.
sendRequest(c) ==
    /\ c \in Senders /\ pc[c] = "running" /\ request[c] = "none"
    /\ request' = [request EXCEPT ![c] = "sent"]
    /\ UNCHANGED <<staggered, crash, cstate, pc, held, home, exporter, route, managerVars>>

pollCompletionQueue(c) ==
    /\ request[c] = "sent" /\ poller[home[c]] = "running"
    /\ request' = [request EXCEPT ![c] = IF pool[home[c]] = "running" THEN "queued" ELSE "dropped"]
    /\ UNCHANGED <<staggered, crash, cstate, pc, held, home, exporter, route, managerVars>>

\* The completion callback in a thread of the pool: it locks the manager and
\* returns at once unless the manager is STARTED.
onCompletion(c) ==
    /\ request[c] = "queued" /\ pool[home[c]] = "running"
    /\ request' = [request EXCEPT ![c] =
           IF Refs(home[c]) # {} /\ mstate[home[c]] = "STARTED" THEN "running" ELSE "dropped"]
    /\ UNCHANGED <<staggered, crash, cstate, pc, held, home, exporter, route, managerVars>>

completed(c) ==
    /\ request[c] = "running"
    /\ request' = [request EXCEPT ![c] = "called"]
    /\ Drop(home[c], <<"callback", c>>, "callback")
    /\ UNCHANGED <<staggered, crash, cstate, pc, held, home, exporter, route, table, sched, unsignalled,
                   pool, timer, poller>>

\* SchedulerImpl::execute of the manager's timer: the functor locks the
\* manager; afterwards the timer is armed again.
fireTimer(m) ==
    /\ timer[m] = "armed" /\ sched[m] = "STARTED" /\ Refs(m) # {}
    /\ timer' = [timer EXCEPT ![m] = "running"]
    /\ UNCHANGED <<staggered, crash, clientVars, table, mstate, sched, unsignalled, pool, poller, destroyer>>

timerDone(m) ==
    /\ timer[m] = "running"
    /\ timer' = [timer EXCEPT ![m] = "armed"]
    /\ Drop(m, <<"timer", m>>, "timer")
    /\ UNCHANGED <<staggered, crash, clientVars, table, sched, unsignalled, pool, poller>>

\* The route_update functor: ClientImpl::updateRouteInfo tests the state and
\* then uses client_manager_.  A timer cancelled in between is not armed again.
fireRouteUpdate(c) ==
    /\ route[c] = "armed" /\ sched[home[c]] = "STARTED"
    /\ cstate[c] \in {"STARTING", "STARTED"}
    /\ route' = [route EXCEPT ![c] = "checked"]
    /\ UNCHANGED <<staggered, crash, cstate, pc, held, home, exporter, request, managerVars>>

updateRouteInfo(c) ==
    /\ route[c] \in {"checked", "cancelled"}
    /\ IF held[c] = None
           THEN crash' = "null_manager" /\ route' = route
           ELSE /\ crash' = crash
                /\ route' = [route EXCEPT ![c] = IF route[c] = "checked" THEN "armed" ELSE "none"]
    /\ UNCHANGED <<staggered, cstate, pc, held, home, exporter, request, managerVars>>

-----------------------------------------------------------------------------
(* ClientImpl::shutdown                                                    *)

shutdown(c) ==
    /\ pc[c] = "running"
    /\ cstate' = [cstate EXCEPT ![c] = "STOPPING"]
    /\ cancel(c)
    /\ Goto(c, "notify")
    /\ UNCHANGED <<staggered, crash, held, home, exporter, request, managerVars>>

\* A blocking call to every endpoint in use.
notifyClientTermination(c) ==
    /\ pc[c] = "notify"
    /\ Goto(c, "reset")
    /\ UNCHANGED <<staggered, crash, cstate, held, home, exporter, route, request, managerVars>>

\* Mutant: the client stops the manager it shares.
resetManager_Stops(c) ==
    /\ pc[c] = "reset"
    /\ held' = [held EXCEPT ![c] = None]
    /\ mstate' = [mstate EXCEPT ![held[c]] = "STOPPING"]
    /\ destroyer' = [destroyer EXCEPT ![held[c]] = "client"]
    /\ Goto(c, "stop")
    /\ UNCHANGED <<staggered, crash, cstate, home, exporter, route, request, table, sched, unsignalled,
                   pool, timer, poller>>

\* client_manager_.reset()
resetManager(c) ==
    /\ pc[c] = "reset"
    /\ held' = [held EXCEPT ![c] = None]
    /\ Drop(held[c], <<"client", c>>, "client")
    /\ Goto(c, "stop")
    /\ UNCHANGED <<staggered, crash, cstate, home, exporter, route, request, table, sched, unsignalled,
                   pool, timer, poller>>

\* STOPPED once the destructor, if this thread runs it, has returned.
stop(c) ==
    /\ pc[c] = "stop"
    /\ destroyer[home[c]] = "client" => mstate[home[c]] = "STOPPED"
    /\ cstate' = [cstate EXCEPT ![c] = "STOPPED"]
    /\ Goto(c, "done")
    /\ UNCHANGED <<staggered, crash, held, home, exporter, route, request, managerVars>>

-----------------------------------------------------------------------------
(* ClientManagerImpl::shutdown, in the thread of destroyer.                *)

\* ThreadPoolImpl::shutdown: callbacks not yet begun are forgotten, running
\* ones are waited for.  A thread that joins itself ends the process.
poolShutdown(m) ==
    /\ destroyer[m] # "nobody" /\ pool[m] = "running"
    /\ \A c \in Clients : home[c] = m => request[c] # "running"
    /\ IF destroyer[m] = "callback"
           THEN crash' = "self_join" /\ UNCHANGED <<pool, request>>
           ELSE /\ crash' = crash
                /\ pool' = [pool EXCEPT ![m] = "stopped"]
                /\ request' = [c \in Clients |-> IF home[c] = m /\ request[c] = "queued" THEN "dropped" ELSE request[c]]
    /\ UNCHANGED <<staggered, cstate, pc, held, home, exporter, route, table, mstate, sched, unsignalled,
                   timer, poller, destroyer>>

\* Mutant: the threads are not joined and the tasks not forgotten.
schedulerShutdown_NoJoin(m) ==
    /\ destroyer[m] # "nobody" /\ pool[m] = "stopped" /\ sched[m] = "STARTED"
    /\ crash' = crash
    /\ sched' = [sched EXCEPT ![m] = "STOPPED"]
    /\ UNCHANGED <<staggered, cstate, pc, held, home, exporter, route, timer, request, table, mstate,
                   unsignalled, pool, poller, destroyer>>

\* The timers are cancelled; SchedulerImpl::shutdown forgets all tasks and
\* waits for the functors that run.
schedulerShutdown(m) ==
    /\ destroyer[m] # "nobody" /\ pool[m] = "stopped" /\ sched[m] = "STARTED"
    /\ IF destroyer[m] = "timer"
           THEN crash' = "self_join" /\ UNCHANGED <<sched, timer, route>>
           ELSE /\ \A c \in Clients : home[c] = m => route[c] \notin {"checked", "cancelled"}
                /\ crash' = crash
                /\ sched' = [sched EXCEPT ![m] = "STOPPED"]
                /\ cancelTasks(m)
                /\ route' = [c \in Clients |-> IF home[c] = m THEN "none" ELSE route[c]]
    /\ UNCHANGED <<staggered, cstate, pc, held, home, exporter, request, table, mstate, unsignalled,
                   pool, poller, destroyer>>

\* The connections are dropped, the completion queue is shut down: its thread
\* ends when every request has been answered and polled.
completionQueueShutdown(m) ==
    /\ destroyer[m] # "nobody" /\ sched[m] = "STOPPED" /\ poller[m] = "running"
    /\ \A c \in Clients : home[c] = m => request[c] # "sent"
    /\ poller' = [poller EXCEPT ![m] = "ended"]
    /\ mstate' = [mstate EXCEPT ![m] = "STOPPED"]
    /\ UNCHANGED <<staggered, crash, clientVars, table, sched, unsignalled, pool, timer, destroyer>>

-----------------------------------------------------------------------------
StartStep(c) ==
    \/ getClientManager(c) \/ managerStart(c) \/ storeStarting(c) \/ schedulerWait(c)
    \/ scheduleTasks(c) \/ storeStarted(c) \/ exporterStart(c) \/ waitPoller(c) \/ scheduleRouteUpdate(c)

ShutdownStep(c) == notifyClientTermination(c) \/ resetManager(c) \/ stop(c)

ManagerShutdownStep(m) == poolShutdown(m) \/ schedulerShutdown(m) \/ completionQueueShutdown(m)

Next ==
    /\ crash = "none"
    /\ \/ \E c \in Clients :
            \/ start(c) \/ StartStep(c) \/ exporterPoll(c) \/ shutdown(c) \/ ShutdownStep(c)
            \/ sendRequest(c) \/ pollCompletionQueue(c) \/ onCompletion(c) \/ completed(c)
            \/ fireRouteUpdate(c) \/ updateRouteInfo(c)
       \/ \E m \in Managers :
            \/ schedulerThread(m) \/ schedulerSignal(m) \/ fireTimer(m) \/ timerDone(m)
            \/ ManagerShutdownStep(m)

\* Threads that have something to do go on, timers fire, requests are answered.
Fairness ==
    /\ \A c \in Clients :
        /\ WF_vars(crash = "none" /\ (StartStep(c) \/ ShutdownStep(c)))
        /\ WF_vars(crash = "none" /\ exporterPoll(c))
        /\ WF_vars(crash = "none" /\ (pollCompletionQueue(c) \/ onCompletion(c) \/ completed(c)))
        /\ WF_vars(crash = "none" /\ updateRouteInfo(c))
    /\ \A m \in Managers :
        /\ WF_vars(crash = "none" /\ (schedulerThread(m) \/ schedulerSignal(m)))
        /\ WF_vars(crash = "none" /\ (fireTimer(m) \/ timerDone(m)))
        /\ WF_vars(crash = "none" /\ ManagerShutdownStep(m))

Spec == Init /\ [][Next]_vars /\ Fairness

-----------------------------------------------------------------------------
\* Clients of a namespace share one manager (getClientManager), and it runs as
\* long as a started client uses it, whatever the others shut down.
ServedWhileStarted ==
    /\ \A c, d \in Clients : held[c] # None /\ held[d] # None => held[c] = held[d]
    /\ \A c \in Clients : cstate[c] = "STARTED" =>
        /\ mstate[held[c]] \in {"CREATED", "STARTING", "STARTED"}
        /\ crash = "none" /\ staggered =>
              mstate[held[c]] = "STARTED" /\ pool[held[c]] = "running" /\ poller[held[c]] = "running"

\* The ways in which the code ends the process (two starts of one manager, a
\* destructor that joins its own thread, a functor that uses a reset pointer)
\* need starts that overlap or a shutdown: an application that starts its
\* clients one after another is safe until it shuts one down.
CrashNeedsRace ==
    crash # "none" => ~staggered \/ \E c \in Clients : cstate[c] \in {"STOPPING", "STOPPED"}

\* The manager works for its clients: ClientManagerImpl::start and
\* SchedulerImpl::start return, the wait for the scheduler's threads missing no
\* signal; the periodic timer fires again and again while the manager is STARTED;
\* while clients start one after another the answer of a request reaches its
\* callback unless the client is shut down; and when the last client lets go of
\* the manager its shutdown returns.
ManagerServes ==
    /\ \A c \in Clients : pc[c] = "getManager" ~> (pc[c] = "waitPoller" \/ crash # "none")
    /\ \A m \in Managers :
        /\ mstate[m] = "STARTED" ~> (timer[m] = "running" \/ mstate[m] # "STARTED" \/ crash # "none")
        /\ mstate[m] = "STOPPING" ~> (mstate[m] = "STOPPED" \/ crash # "none")
    /\ \A c \in Senders : staggered /\ request[c] = "sent"
        ~> (request[c] = "called" \/ crash # "none" \/ cstate[c] \in {"STOPPING", "STOPPED"})

\* Nothing of a manager moves any more: no callback is queued or runs, no functor
\* is pending, the thread of the completion queue has ended.
Quiet(m) ==
    /\ pool[m] = "stopped" /\ sched[m] = "STOPPED" /\ timer[m] = "none" /\ poller[m] = "ended"
    /\ \A c \in Clients : home[c] = m =>
          route[c] = "none" /\ request[c] \in {"none", "called", "dropped"}

\* Once its shutdown has returned a manager leaves nothing behind, although the
\* destructor runs while requests are answered and functors of clients may run.
StoppedQuiet == \A m \in Managers : mstate[m] = "STOPPED" => Quiet(m)

=============================================================================
