----------------------------- MODULE CorePlugin -----------------------------
(***************************************************************************)
(* The process of the core plugin (cmd/core_plugin): the plugin server the *)
(* guest agent calls, the early stage whose modules run one after another, *)
(* the late stage whose modules run together, and the event loop that      *)
(* keeps the process alive until its context is cancelled.                 *)
(***************************************************************************)
EXTENDS Naturals, Sequences, FiniteSets

CONSTANTS
    EarlyModules,       \* the enabled modules of the early stage, in their order
    LateModules,        \* the enabled modules of the late stage (what registers in both is two)
    NoNetworkRequired,  \* the modules that also run when the network is disabled
    NetworkEnabled,     \* InstanceSetup.NetworkEnabled of the configuration
    MaxStarts           \* bound: deliveries of the Start request (Plugin.Start retries it)

VARIABLES
    server,         \* the process: booting, serving, stopping, exited, or failed (logAndExit)
    starts,         \* contexts made by Start so far
    cancelFn,       \* the context ps.cancel belongs to; 0 is nil
    cancelled,      \* the contexts that are cancelled
    mdsWatcher,     \* the metadata watcher was added; the context of runAgent
    stage,          \* where runAgent is; in the end in the events loop, in a callback, or blocked
    metrics,        \* the ModuleMetric of every registered module: its status
    earlyInitDone,
    sigHandled,     \* the signal handler of runAgent waits, has fired or is gone
    initStatus      \* the last answer to GetStatus("early-initialization")

vars == <<server, starts, cancelFn, cancelled, mdsWatcher, stage, metrics, earlyInitDone,
          sigHandled, initStatus>>

Early == {EarlyModules[i] : i \in DOMAIN EarlyModules}
Modules == Early \cup LateModules

Init ==
    /\ server = "booting" /\ starts = 0 /\ cancelFn = 0 /\ cancelled = {}
    /\ mdsWatcher = 0 /\ stage = "none"
    /\ metrics = [m \in Modules |-> "none"]
    /\ earlyInitDone = FALSE /\ sigHandled = "none" /\ initStatus = "none"

alive == server \in {"serving", "stopping"}

\* main and initPluginServer: configuration, logger and listener, each of which may fail.
initPluginServer ==
    /\ server = "booting"
    /\ server' \in {"serving", "failed"}
    /\ UNCHANGED <<starts, cancelFn, cancelled, mdsWatcher, stage, metrics, earlyInitDone,
                   sigHandled, initStatus>>

\* Start makes a context and remembers its cancel function; the watcher can be added once.
Start ==
    /\ server = "serving" /\ starts < MaxStarts
    /\ starts' = starts + 1 /\ cancelFn' = starts + 1
    /\ IF mdsWatcher = 0
       THEN mdsWatcher' = starts + 1 /\ stage' = "early" /\ sigHandled' = "waiting"
       ELSE UNCHANGED <<mdsWatcher, stage, sigHandled>>
    /\ UNCHANGED <<server, cancelled, metrics, earlyInitDone, initStatus>>

\* Stop calls ps.cancel; before the first Start that is nil, and the process panics.
Stop ==
    /\ IF cancelFn = 0
       THEN server' = "failed" /\ UNCHANGED cancelled
       ELSE cancelled' = cancelled \cup {cancelFn} /\ UNCHANGED server

\* The agent stops a plugin it has started, directly or with the event of a shutdown.
StopRequest ==
    /\ server = "serving" /\ starts > 0
    /\ Stop
    /\ UNCHANGED <<starts, cancelFn, mdsWatcher, stage, metrics, earlyInitDone, sigHandled, initStatus>>

\* handleVMEvent: any other event is ignored.
handleVMEvent(shutdown) ==
    /\ server = "serving" /\ starts > 0
    /\ IF shutdown THEN Stop ELSE UNCHANGED <<server, cancelled>>
    /\ UNCHANGED <<starts, cancelFn, mdsWatcher, stage, metrics, earlyInitDone, sigHandled, initStatus>>

\* The first signal after runAgent began stops the plugin; a cancelled context ends the wait.
sigHandler ==
    /\ alive /\ sigHandled = "waiting"
    /\ \/ sigHandled' = "fired" /\ Stop
       \/ mdsWatcher \in cancelled /\ sigHandled' = "gone" /\ UNCHANGED <<server, cancelled>>
    /\ UNCHANGED <<starts, cancelFn, mdsWatcher, stage, metrics, earlyInitDone, initStatus>>

GetStatus ==
    /\ alive
    /\ initStatus' = IF earlyInitDone THEN "done" ELSE "still working"
    /\ UNCHANGED <<server, starts, cancelFn, cancelled, mdsWatcher, stage, metrics,
                   earlyInitDone, sigHandled>>

-----------------------------------------------------------------------------
networkSkips(m) == m \notin NoNetworkRequired /\ ~NetworkEnabled

isDone(m) == metrics[m] \in {"skipped", "succeeded"}

\* The loop of RunBlocking is at position k: the first early module that is not done.
nextModule(k) == ~isDone(EarlyModules[k]) /\ \A j \in 1..k - 1 : isDone(EarlyModules[j])

\* RunBlocking of the early stage: the next module in order is skipped or set up; the
\* first error ends the stage and the process.
RunBlocking ==
    /\ alive /\ stage = "early" /\ ~earlyInitDone
    /\ \E k \in DOMAIN EarlyModules :
         LET m == EarlyModules[k] IN
         /\ nextModule(k)
         /\ IF networkSkips(m)
            THEN metrics' = [metrics EXCEPT ![m] = "skipped"] /\ UNCHANGED server
            ELSE \/ metrics' = [metrics EXCEPT ![m] = "succeeded"] /\ UNCHANGED server
                 \/ metrics' = [metrics EXCEPT ![m] = "failed"] /\ server' = "failed"
    /\ UNCHANGED <<starts, cancelFn, cancelled, mdsWatcher, stage, earlyInitDone, sigHandled, initStatus>>

\* Faulty variant: the stage is over when its last module has been looked at.
earlyDone_Last ==
    /\ alive /\ stage = "early"
    /\ earlyInitDone' = TRUE /\ stage' = "late"
    /\ UNCHANGED <<server, starts, cancelFn, cancelled, mdsWatcher, metrics, sigHandled, initStatus>>

\* The early stage is done.
earlyDone ==
    /\ alive /\ stage = "early" /\ \A m \in Early : isDone(m)
    /\ earlyInitDone' = TRUE /\ stage' = "late"
    /\ UNCHANGED <<server, starts, cancelFn, cancelled, mdsWatcher, metrics, sigHandled, initStatus>>

\* late.Run gets the metadata, with retries until the context is cancelled, or gives up.
getDescriptor ==
    /\ alive /\ stage = "late"
    /\ \/ server' = "failed" /\ UNCHANGED <<stage, metrics>>
       \/ /\ stage' = "modules" /\ UNCHANGED server
          /\ metrics' = [m \in Modules |->
                IF m \notin LateModules THEN metrics[m]
                ELSE IF networkSkips(m) THEN "skipped" ELSE "running"]
    /\ UNCHANGED <<starts, cancelFn, cancelled, mdsWatcher, earlyInitDone, sigHandled, initStatus>>

\* RunConcurrent: every module in its goroutine; one that fails is only logged.
RunConcurrent(m) ==
    /\ alive /\ stage = "modules" /\ metrics[m] = "running"
    /\ \E s \in {"failed", "succeeded"} : metrics' = [metrics EXCEPT ![m] = s]
    /\ UNCHANGED <<server, starts, cancelFn, cancelled, mdsWatcher, stage, earlyInitDone,
                   sigHandled, initStatus>>

\* All modules are done: the event manager runs.
lateDone ==
    /\ alive /\ stage = "modules" /\ \A m \in LateModules : metrics[m] # "running"
    /\ stage' = "events"
    /\ UNCHANGED <<server, starts, cancelFn, cancelled, mdsWatcher, metrics, earlyInitDone,
                   sigHandled, initStatus>>

\* A callback of OS Login that removes the watcher of its pipe runs in the dispatcher of the
\* event manager, and returns; when the context is cancelled meanwhile the watcher may have
\* ended by itself, and RemoveWatcher waits for it for ever.
osloginCallback ==
    /\ alive
    /\ \/ stage = "events" /\ stage' = "callback"
       \/ stage = "callback" /\ stage' = "events"
       \/ stage = "callback" /\ mdsWatcher \in cancelled /\ stage' = "blocked"
    /\ UNCHANGED <<server, starts, cancelFn, cancelled, mdsWatcher, metrics, earlyInitDone,
                   sigHandled, initStatus>>

\* Faulty variant: the event manager runs with a context of its own.
runAgentEnds_Detached ==
    /\ server = "stopping" /\ server' = "exited"
    /\ UNCHANGED <<starts, cancelFn, cancelled, mdsWatcher, stage, metrics, earlyInitDone,
                   sigHandled, initStatus>>

\* The event manager, when no callback is being called, returns when its context is cancelled,
\* the server stops gracefully and main returns.
runAgentEnds ==
    /\ alive
    /\ \/ server = "serving" /\ stage = "events" /\ mdsWatcher \in cancelled /\ server' = "stopping"
       \/ server = "stopping" /\ server' = "exited"
    /\ UNCHANGED <<starts, cancelFn, cancelled, mdsWatcher, stage, metrics, earlyInitDone,
                   sigHandled, initStatus>>

runAgent == RunBlocking \/ earlyDone \/ getDescriptor \/ lateDone \/ osloginCallback \/ runAgentEnds
              \/ \E m \in LateModules : RunConcurrent(m)

over == server \in {"exited", "failed"} /\ UNCHANGED vars

Next ==
    \/ initPluginServer \/ Start \/ StopRequest \/ sigHandler \/ GetStatus \/ runAgent \/ over
    \/ \E shutdown \in BOOLEAN : handleVMEvent(shutdown)

\* The goroutine of runAgent goes on, and a module set up returns.  The select of the dispatcher
\* does not pass over a cancelled context for ever.
Fairness == WF_vars(runAgent) /\ SF_vars(runAgentEnds)

Spec == Init /\ [][Next]_vars /\ Fairness

-----------------------------------------------------------------------------
\* The agent is told that the early initialization is done only when every early module
\* was set up or rightly skipped, and no late module has begun before (GetStatus,
\* early.Run, late.Run).
ReadyMeansInitialized ==
    /\ initStatus = "done" =>
         \A m \in Early : metrics[m] = IF networkSkips(m) THEN "skipped" ELSE "succeeded"
    /\ (\E m \in LateModules : metrics[m] # "none") => earlyInitDone

\* A stop request, the event of a shutdown or a signal ends the process, whatever stage it
\* is in (Stop, handleVMEvent, sigHandler, runAgent), unless it meets a callback of OS Login
\* that then waits for ever in RemoveWatcher; nothing else keeps the process.
StopEndsPlugin ==
    (cancelFn # 0 /\ cancelFn \in cancelled) ~> (server \in {"exited", "failed"} \/ stage = "blocked")

=============================================================================
