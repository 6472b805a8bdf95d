----------------------------- MODULE MCLiveness -----------------------------
(***************************************************************************)
(* What must eventually happen: components with their fairness, checked by *)
(* one run of TLC.  part says which one moves in a behaviour; the others   *)
(* stay in a state of their Init.  Since part never changes, fairness to   *)
(* the disjunction of a step of one part and a step of another is fairness *)
(* to both, which keeps the number of conditions TLC has to combine small. *)
(***************************************************************************)
EXTENDS Naturals, Sequences, TLC

CONSTANTS
    None, Ids, Configs, Calls, t1, t2, c1, c2,
    sshca, longpoll, EventsOf, Subs, Dispatcher, MaxEntries, Allow,
    MaxVersion, MaxAttempts,
    OlFlags, MaxOlChanges, MaxOlRestarts, MaxOlFaults,
    e1, e2, EarlyModules, LateModules, NoNetworkRequired, NetworkEnabled, MaxStarts,
    Operations, Pre, Post, PreCopies, PostCopies, MaxIDCacheSize

VARIABLES
    part,
    jobs, mu, pc, arg, target, todo, id, marked, jobsCancelled, panicked,
    watchersMap, watcherEvents, removing, removingMu, running, queue, subscribers, callerPc,
    callerArg, next, last, rpc, renew, listener, runPc, completion, doneEvent, launchTodo,
    dropped, event, ctxDone, runDone,
    winService, appPc, sigPc, execPc, accepts, scmCmd, pendingSig, serviceDone,
    mdsVersion, etag, firstRun, mdsPc, hang, attempt, body, seen,
    wantedMode, prevMetadata, olEnabled, failedConfiguration, olPc, olMode, olErrors, olFile,
    sshdRuns, pipeHandler, pipeWatch, olLeft, olRestarts, olFaults,
    server, starts, cancelFn, cancelled, mdsWatcher, stage, metrics, earlyInitDone, sigHandled,
    initStatus,
    stream, seenIDs, handler, pendingWatchdogs, watchdog, frozen, postFailed

jobsVars == <<jobs, mu, pc, arg, target, todo, id, marked, jobsCancelled, panicked>>
eventsVars == <<watchersMap, watcherEvents, removing, removingMu, running, queue, subscribers,
                callerPc, callerArg, next, last, rpc, renew, listener, runPc, completion,
                doneEvent, launchTodo, dropped, event, ctxDone, runDone>>
serviceVars == <<winService, appPc, sigPc, execPc, accepts, scmCmd, pendingSig, serviceDone>>
watcherVars == <<mdsVersion, etag, firstRun, mdsPc, hang, attempt, body, seen>>
osloginVars == <<wantedMode, prevMetadata, olEnabled, failedConfiguration, olPc, olMode,
                 olErrors, olFile, sshdRuns, pipeHandler, pipeWatch, olLeft, olRestarts, olFaults>>
pluginVars == <<server, starts, cancelFn, cancelled, mdsWatcher, stage, metrics, earlyInitDone,
                sigHandled, initStatus>>
snapshotVars == <<stream, seenIDs, handler, pendingWatchdogs, watchdog, frozen, postFailed>>

\* Calls for one job id do not overlap, and jobs do not end by themselves (MayEnd).
Jobs == INSTANCE Scheduler WITH Clients <- {t1, t2}, MayEnd <- FALSE, Cancels <- FALSE,
            Exclusive <- TRUE, cancelled <- jobsCancelled
Events == INSTANCE EventsManager WITH Watchers <- {sshca}, Clients <- {t1}, mu <- removingMu,
              pc <- callerPc, arg <- callerArg, todo <- launchTodo
\* The same manager when watchers also give up and the context is cancelled.
Ending == INSTANCE EventsManager WITH Watchers <- {sshca}, Clients <- {t1}, mu <- removingMu,
              pc <- callerPc, arg <- callerArg, todo <- launchTodo,
              Allow <- {"remove", "end", "cancel"}
Service == INSTANCE AgentService WITH ctxDone <- serviceDone
Watcher == INSTANCE MetadataWatcher
OsLoginModule == INSTANCE OsLogin
Plugin == INSTANCE CorePlugin
Snapshots == INSTANCE Snapshot

\* The event types of the watcher, and the order of the early modules.
OneEach == (sshca :> <<longpoll>>)
EarlyOrder == <<e1, e2>>

-----------------------------------------------------------------------------
Parts == {"jobs", "events", "ending", "service", "watcher", "oslogin", "plugin", "snapshot"}

\* Which of its initial states a part that does not move is in does not matter.
Init ==
    /\ part \in Parts
    /\ Jobs!Init
    /\ Events!Init
    /\ part \notin {"events", "ending"} => subscribers = [e \in Events!Events |-> {}]
    /\ part = "ending" => subscribers = [e \in Events!Events |-> Subs]
    /\ Service!Init /\ (part # "service" => winService = "none")
    /\ Watcher!Init
    /\ OsLoginModule!Init /\ (part # "oslogin" => wantedMode = OsLoginModule!Off)
    /\ Plugin!Init
    /\ Snapshots!Init

\* Part p moves, and all the others stay as they are.
Only(p) ==
    /\ part = p /\ UNCHANGED part
    /\ p # "jobs" => UNCHANGED jobsVars
    /\ p \notin {"events", "ending"} => UNCHANGED eventsVars
    /\ p # "service" => UNCHANGED serviceVars
    /\ p # "watcher" => UNCHANGED watcherVars
    /\ p # "oslogin" => UNCHANGED osloginVars
    /\ p # "plugin" => UNCHANGED pluginVars
    /\ p # "snapshot" => UNCHANGED snapshotVars

JobsStep == Only("jobs") /\ Jobs!Next
EventsStep == Only("events") /\ Events!Next
EndingStep == Only("ending") /\ Ending!Next
ServiceStep == Only("service") /\ Service!Next
WatcherStep == Only("watcher") /\ Watcher!Next
OsLoginStep == Only("oslogin") /\ OsLoginModule!Next
PluginStep == Only("plugin") /\ Plugin!Next
SnapshotStep == Only("snapshot") /\ Snapshots!Next

Next ==
    \/ JobsStep \/ EventsStep \/ EndingStep \/ ServiceStep \/ WatcherStep
    \/ OsLoginStep \/ PluginStep \/ SnapshotStep

vars == <<part, jobsVars, eventsVars, serviceVars, watcherVars, osloginVars, pluginVars,
          snapshotVars>>

-----------------------------------------------------------------------------
(***************************************************************************)
(* The fairness of each component (Fairness in its module), one condition  *)
(* of several components to a line.                                        *)
(***************************************************************************)
r1 == <<1, "Run">>
r2 == <<1, "AddWatcher">>

strong1 == \/ Only("jobs") /\ Jobs!ClientStep(t1)
           \/ Only("events") /\ Events!CallerStep(t1)
           \/ Only("ending") /\ Ending!CallerStep(t1)
           \/ Only("service") /\ Service!serviceManagerSignal
           \/ Only("watcher") /\ Watcher!updateEtag
strong2 == \/ Only("jobs") /\ Jobs!ClientStep(t2)
           \/ Only("events") /\ Events!CallerStep(Dispatcher)
           \/ Only("ending") /\ Ending!CallerStep(Dispatcher)
           \/ Only("watcher") /\ Watcher!deliver
strong3 == \/ Only("jobs") /\ Jobs!Interrupt(t1)
           \/ Only("events") /\ (Events!dispatch(r1) \/ Events!watcherDone(r1))
           \/ Only("ending") /\ (Ending!dispatch(r1) \/ Ending!watcherDone(r1))
strong4 == \/ Only("jobs") /\ Jobs!Interrupt(t2)
           \/ Only("events") /\ (Events!dispatch(r2) \/ Events!watcherDone(r2))
           \/ Only("ending") /\ (Ending!dispatch(r2) \/ Ending!watcherDone(r2))
strong5 == \/ Only("jobs") /\ (Jobs!remove(c1) \/ Jobs!ContextDone(c1))
           \/ Only("events") /\ Events!callbackReturns
           \/ Only("ending") /\ Ending!callbackReturns
strong6 == \/ Only("jobs") /\ (Jobs!remove(c2) \/ Jobs!ContextDone(c2))
           \/ Only("events") /\ Events!dispatcherEnds
           \/ Only("ending") /\ Ending!dispatcherEnds
strong7 == \/ Only("events") /\ Events!CompletionStep
           \/ Only("ending") /\ Ending!CompletionStep
           \/ Only("plugin") /\ Plugin!runAgentEnds

weak1 == \/ Only("jobs") /\ Jobs!Tick(c1)
         \/ Only("events") /\ Events!listen(r1)
         \/ Only("ending") /\ Ending!listen(r1)
         \/ Only("service") /\ Service!register
         \/ Only("watcher") /\ Watcher!Run
         \/ Only("oslogin") /\ OsLoginModule!osloginSetup
         \/ Only("plugin") /\ Plugin!runAgent
         \/ Only("snapshot") /\ (Snapshots!handleRequest \/ Snapshots!runWatchdog)
weak2 == \/ Only("jobs") /\ Jobs!Tick(c2)
         \/ Only("events") /\ Events!listen(r2)
         \/ Only("ending") /\ Ending!listen(r2)
         \/ Only("service") /\ Service!setState
         \/ Only("oslogin") /\ \E ok \in BOOLEAN : \/ OsLoginModule!setupStep(ok)
                                                   \/ OsLoginModule!disableOSLogin(ok)
weak3 == \/ Only("jobs") /\ Jobs!RunReturns(c1)
         \/ Only("events") /\ \/ Events!CtxErr(r1) /\ Events!watcherReturns(r1)
                              \/ Events!RunnerStep(r1)
         \/ Only("ending") /\ \/ Ending!CtxErr(r1) /\ Ending!watcherReturns(r1)
                              \/ Ending!RunnerStep(r1)
         \/ Only("service") /\ Service!leave
weak4 == \/ Only("jobs") /\ Jobs!RunReturns(c2)
         \/ Only("events") /\ \/ Events!CtxErr(r2) /\ Events!watcherReturns(r2)
                              \/ Events!RunnerStep(r2)
         \/ Only("ending") /\ \/ Ending!CtxErr(r2) /\ Ending!watcherReturns(r2)
                              \/ Ending!RunnerStep(r2)
         \/ Only("service") /\ Service!Execute
weak5 == \/ Only("events") /\ (Events!launchWatchers \/ Events!RunReturns)
         \/ Only("ending") /\ (Ending!launchWatchers \/ Ending!RunReturns)
         \/ Only("service") /\ Service!handleSignal

Fairness ==
    /\ SF_vars(strong1) /\ SF_vars(strong2) /\ SF_vars(strong3) /\ SF_vars(strong4)
    /\ SF_vars(strong5) /\ SF_vars(strong6) /\ SF_vars(strong7)
    /\ WF_vars(weak1) /\ WF_vars(weak2) /\ WF_vars(weak3) /\ WF_vars(weak4) /\ WF_vars(weak5)

Spec == Init /\ [][Next]_vars /\ Fairness

-----------------------------------------------------------------------------
\* Every call of the scheduler returns (Scheduler).
CallsReturn == Jobs!CallsReturn

\* RemoveWatcher returns (EventsManager).
RemovesReturn == part = "events" => Events!RemovesReturn

\* The goroutines of a removed watcher have their context cancelled (EventsManager).
RemovedAreCancelled == part = "events" => Events!RemovedAreCancelled

\* Run returns when it is cancelled or its last watcher is gone, unless a removal is stuck
\* (EventsManager).
RunEnds == Ending!RunEnds

\* A stop of the service, or a signal, ends the agent (AgentService).
StopEndsAgent == Service!StopEndsAgent

\* Every change of the metadata, or a later one, reaches the subscribers (MetadataWatcher).
ChangesArrive == part = "watcher" => Watcher!ChangesArrive

\* The files come to say what the OS Login metadata says (OsLogin).
FilesFollowMetadata == OsLoginModule!FilesFollowMetadata

\* A stop request, a shutdown or a signal ends the core plugin, unless a callback is stuck
\* (CorePlugin).
StopEndsPlugin == Plugin!StopEndsPlugin

\* For what pre.sh froze a post.sh is tried, whatever becomes of the post request (Snapshot).
FrozenDisksThaw == Snapshots!FrozenDisksThaw

=============================================================================
