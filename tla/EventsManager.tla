---------------------------- MODULE EventsManager ----------------------------
(***************************************************************************)
(* The events manager (internal/events/events.go).  Run starts a goroutine *)
(* (runWatcher) for every event type of every watcher, the dispatcher that *)
(* takes events from the data bus and calls the subscribers, and the       *)
(* completion loop that counts the runWatcher goroutines that are done.    *)
(* Watchers are added and removed by any goroutine, the callbacks of the   *)
(* subscribers included.  All channels are unbuffered.                     *)
(***************************************************************************)
EXTENDS Naturals, Sequences, FiniteSets

CONSTANTS
    Watchers,     \* watcher ids
    EventsOf,     \* Watcher.Events: the event types of each watcher, a sequence
    Subs,         \* subscribers
    Clients,      \* goroutines that add and remove watchers
    Dispatcher,   \* the goroutine that calls the subscribers
    None,
    MaxEntries,   \* bound on the length of watcherEvents
    Allow         \* what the environment does, of Situations

Situations ==
    {"end",                \* a watcher gives up (renew = false)
     "cancel",             \* the context of Run is cancelled
     "remove",             \* watchers are removed
     "re-add",             \* a watcher is added again after its removal
     "subscribe",          \* subscriptions change besides the callbacks' own wish
     "add in launch",      \* AddWatcher overlaps the launching loop of Run
     "remove before run"}  \* RemoveWatcher comes before Run

Events == UNION {{EventsOf[w][i] : i \in 1..Len(EventsOf[w])} : w \in Watchers}

ASSUME EventsAssumption ==
    /\ MaxEntries \in Nat /\ \A w \in Watchers : EventsOf[w] \in Seq(Events)
    /\ Allow \subseteq Situations
    /\ Dispatcher \notin Clients
    /\ None \notin Watchers \cup Events \cup Clients \cup {Dispatcher}
    \* No two watchers of the agent share an event type.
    /\ \A v, w \in Watchers : \A i \in 1..Len(EventsOf[v]), j \in 1..Len(EventsOf[w]) :
          EventsOf[v][i] = EventsOf[w][j] => v = w /\ i = j

\* The goroutines that may call AddWatcher and RemoveWatcher.
Callers == Clients \cup {Dispatcher}

\* A runWatcher goroutine: the WatcherEventType it serves and who started it.
Runners == (1..MaxEntries) \X {"Run", "AddWatcher"}

VARIABLES
    watchersMap,    \* Manager.watchersMap
    watcherEvents,  \* Manager.watcherEvents: it only grows
    removing,       \* Manager.removingWatcherEvents
    mu,             \* who holds removingWatcherEventsMutex
    running,        \* Manager.running
    queue,          \* watcherQueue.watchersMap
    subscribers,    \* Manager.subscribers: event type -> set of subscribers
    pc,             \* where each caller is
    arg,            \* the watcher a RemoveWatcher is about
    next,           \* the index in watcherEvents its loop is at ...
    last,           \* ... and the length it saw
    rpc,            \* where each runWatcher is
    renew,          \* what its watcher returned
    listener,       \* where the goroutine is that waits on its removed channel
    runPc,          \* where Run is
    completion,     \* where the completion loop is
    doneEvent,      \* the event type it is cleaning up
    todo,           \* the subscribers the dispatcher has still to call
    dropped,        \* the ones that do not renew
    event,          \* the event it dispatches
    ctxDone,        \* the context of the callers and of Run is cancelled
    runDone         \* runCtx is cancelled

callerVars == <<pc, arg, next, last>>
runnerVars == <<rpc, renew, listener>>
dispatchVars == <<todo, dropped, event>>
managerVars == <<watchersMap, watcherEvents, removing, running, queue, subscribers>>
doneVars == <<ctxDone, runDone>>
vars == <<managerVars, mu, callerVars, runnerVars, runPc, completion, doneEvent,
          dispatchVars, doneVars>>

\* The manager, its callers and its goroutines keep their types, and the mutex is
\* held exactly while its holder is in the loop of RemoveWatcher.
TypeOK ==
    /\ watchersMap \subseteq Watchers
    /\ watcherEvents \in Seq([watcher : Watchers, evType : Events])
    /\ Len(watcherEvents) <= MaxEntries
    /\ removing \subseteq Events
    /\ mu \in Callers \cup {None}
    /\ running \in BOOLEAN
    /\ queue \subseteq Events
    /\ subscribers \in [Events -> SUBSET Subs]
    /\ \A p \in Callers : /\ pc[p] \in {"ready", "off", "select", "callback", "ended",
                                        "lock", "range", "loop", "send"}
                          /\ pc[p] \in {"range", "loop", "send"} <=> mu = p
                          /\ arg[p] \in Watchers \cup {None}
                          /\ next[p] \in 1..(MaxEntries + 1)
                          /\ last[p] \in 0..Len(watcherEvents)
    /\ \A r \in Runners : /\ rpc[r] \in {"none", "run", "send", "finish", "self", "done", "ended"}
                          /\ rpc[r] # "none" => r[1] <= Len(watcherEvents)
                          /\ renew[r] \in BOOLEAN
                          /\ listener[r] \in {"none", "wait", "got", "cancelled"}
    /\ runPc \in {"idle", "launch", "wait", "returned"}
    /\ completion \in {"off", "start", "select", "forget", "forget last", "ended"}
    /\ doneEvent \in Events \cup {None}
    /\ todo \subseteq Subs /\ dropped \subseteq Subs
    /\ event \in Events \cup {None}
    /\ ctxDone \in BOOLEAN /\ runDone \in BOOLEAN
    /\ ctxDone => runDone

Init ==
    /\ watchersMap = {} /\ watcherEvents = <<>> /\ removing = {} /\ queue = {}
    /\ mu = None /\ running = FALSE
    /\ subscribers \in [Events -> {{}, Subs}]
    /\ pc = [p \in Callers |-> IF p = Dispatcher THEN "off" ELSE "ready"]
    /\ arg = [p \in Callers |-> None]
    /\ next = [p \in Callers |-> 1]
    /\ last = [p \in Callers |-> 0]
    /\ rpc = [r \in Runners |-> "none"]
    /\ renew = [r \in Runners |-> TRUE]
    /\ listener = [r \in Runners |-> "none"]
    /\ runPc = "idle" /\ completion = "off" /\ doneEvent = None
    /\ todo = {} /\ dropped = {} /\ event = None
    /\ ctxDone = FALSE /\ runDone = FALSE

-----------------------------------------------------------------------------
EvType(r) == watcherEvents[r[1]].evType
WatcherOf(r) == watcherEvents[r[1]].watcher

\* nCtx.Err() # nil: removed, or the context that runWatcher was given is done.
CtxErr(r) == \/ listener[r] = "cancelled"
             \/ IF r[2] = "Run" THEN runDone ELSE ctxDone

Active(r) == rpc[r] \notin {"none", "ended"}

\* A caller that may make a call: a client, or a subscriber's callback.
Idle(p) == pc[p] \in {"ready", "callback"}
Home(p) == IF p = Dispatcher THEN "callback" ELSE "ready"
Goto(p, l) == pc' = [pc EXCEPT ![p] = l]

Return(p) == /\ Goto(p, Home(p))
             /\ arg' = [arg EXCEPT ![p] = None]
             /\ next' = [next EXCEPT ![p] = 1]
             /\ last' = [last EXCEPT ![p] = 0]

\* runWatcher starts for the runners rs, each with its listener.
Launch(rs) ==
    /\ rpc' = [r \in Runners |-> IF r \in rs THEN "run" ELSE rpc[r]]
    /\ listener' = [r \in Runners |-> IF r \in rs THEN "wait" ELSE listener[r]]
    /\ UNCHANGED renew

-----------------------------------------------------------------------------
(***************************************************************************)
(* AddWatcher and RemoveWatcher.                                           *)
(***************************************************************************)

\* AddWatcher, under watchersMutex: a watcher that is known is refused, a
\* manager that runs starts the goroutines of the new one right away.
AddWatcher(p, w) ==
    LET n == Len(watcherEvents)
        new == [i \in 1..Len(EventsOf[w]) |-> [watcher |-> w, evType |-> EventsOf[w][i]]]
    IN
    /\ Idle(p) /\ w \notin watchersMap
    /\ n + Len(new) <= MaxEntries
    /\ "re-add" \in Allow \/ \A i \in 1..n : watcherEvents[i].watcher # w
    /\ "add in launch" \in Allow \/ runPc # "launch"
    /\ watchersMap' = watchersMap \cup {w}
    /\ watcherEvents' = watcherEvents \o new
    /\ IF running
         THEN /\ queue' = queue \cup {new[i].evType : i \in DOMAIN new}
              /\ Launch({<<n + i, "AddWatcher">> : i \in DOMAIN new})
         ELSE UNCHANGED <<queue, runnerVars>>
    /\ UNCHANGED <<removing, mu, running, subscribers, callerVars, runPc, completion,
                   doneEvent, dispatchVars, doneVars>>

RemoveWatcher(p, w) ==
    /\ Idle(p) /\ "remove" \in Allow
    /\ "remove before run" \in Allow \/ running
    /\ Goto(p, "lock")
    /\ arg' = [arg EXCEPT ![p] = w]
    /\ UNCHANGED <<managerVars, mu, next, last, runnerVars, runPc, completion, doneEvent,
                   dispatchVars, doneVars>>

\* Faulty variant: the early return for an unknown watcher keeps the mutex.
lookupKeepsMutex(p) ==
    /\ pc[p] = "lock" /\ mu = None
    /\ mu' = p
    /\ IF arg[p] \in watchersMap
         THEN Goto(p, "range") /\ UNCHANGED <<arg, next, last>>
         ELSE Return(p)
    /\ watchersMap' = watchersMap \ {arg[p]}
    /\ UNCHANGED <<watcherEvents, removing, running, queue, subscribers, runnerVars, runPc,
                   completion, doneEvent, dispatchVars, doneVars>>

\* The mutex, and the watcher is taken out of the map: an unknown one is skipped.
removeLookup(p) ==
    /\ pc[p] = "lock" /\ mu = None
    /\ IF arg[p] \in watchersMap
         THEN mu' = p /\ Goto(p, "range") /\ UNCHANGED <<arg, next, last>>
         ELSE Return(p) /\ UNCHANGED mu
    /\ watchersMap' = watchersMap \ {arg[p]}
    /\ UNCHANGED <<watcherEvents, removing, running, queue, subscribers, runnerVars, runPc,
                   completion, doneEvent, dispatchVars, doneVars>>

\* The range statement reads watcherEvents once, without watchersMutex.
removeRange(p) ==
    /\ pc[p] = "range"
    /\ next' = [next EXCEPT ![p] = 1]
    /\ last' = [last EXCEPT ![p] = Len(watcherEvents)]
    /\ Goto(p, "loop")
    /\ UNCHANGED <<managerVars, mu, arg, runnerVars, runPc, completion, doneEvent,
                   dispatchVars, doneVars>>

\* Faulty variant: the loop ends at the first event type of the watcher.
removeFirst(p) ==
    LET e == watcherEvents[next[p]] IN
    /\ pc[p] = "loop"
    /\ \/ /\ \/ next[p] > last[p]
             \/ \E i \in 1..(next[p] - 1) : watcherEvents[i].watcher = arg[p]
          /\ mu' = None /\ Return(p)
          /\ UNCHANGED removing
       \/ /\ next[p] <= last[p]
          /\ \A i \in 1..(next[p] - 1) : watcherEvents[i].watcher # arg[p]
          /\ IF e.evType \in removing \/ e.watcher # arg[p]
               THEN next' = [next EXCEPT ![p] = @ + 1] /\ UNCHANGED <<removing, pc>>
               ELSE /\ removing' = removing \cup {e.evType}
                    /\ IF running THEN Goto(p, "send") /\ UNCHANGED next
                       ELSE next' = [next EXCEPT ![p] = @ + 1] /\ UNCHANGED pc
          /\ UNCHANGED <<mu, arg, last>>
    /\ UNCHANGED <<watchersMap, watcherEvents, running, queue, subscribers,
                   runnerVars, runPc, completion, doneEvent, dispatchVars, doneVars>>

\* One WatcherEventType: what is being removed is skipped, what belongs to the
\* watcher is marked and, if the manager runs, told.
removeEntry(p) ==
    LET e == watcherEvents[next[p]] IN
    /\ pc[p] = "loop"
    /\ \/ /\ next[p] > last[p]
          /\ mu' = None /\ Return(p)
          /\ UNCHANGED removing
       \/ /\ next[p] <= last[p]
          /\ IF e.evType \in removing \/ e.watcher # arg[p]
               THEN next' = [next EXCEPT ![p] = @ + 1] /\ UNCHANGED <<removing, pc>>
               ELSE /\ removing' = removing \cup {e.evType}
                    /\ IF running THEN Goto(p, "send") /\ UNCHANGED next
                       ELSE next' = [next EXCEPT ![p] = @ + 1] /\ UNCHANGED pc
          /\ UNCHANGED <<mu, arg, last>>
    /\ UNCHANGED <<watchersMap, watcherEvents, running, queue, subscribers,
                   runnerVars, runPc, completion, doneEvent, dispatchVars, doneVars>>

\* Faulty variant: the send gives up when nobody receives right away.
trySend(p) ==
    /\ pc[p] = "send"
    /\ next' = [next EXCEPT ![p] = @ + 1]
    /\ Goto(p, "loop")
    /\ UNCHANGED <<managerVars, mu, arg, last, runnerVars, runPc, completion, doneEvent,
                   dispatchVars, doneVars>>

\* curr.removed <- true, with the mutex held: a listener of this entry receives.
removeSend(p) ==
    /\ pc[p] = "send"
    /\ \E r \in Runners :
          /\ r[1] = next[p] /\ listener[r] = "wait"
          /\ listener' = [listener EXCEPT ![r] = "got"]
    /\ next' = [next EXCEPT ![p] = @ + 1]
    /\ Goto(p, "loop")
    /\ UNCHANGED <<managerVars, mu, arg, last, rpc, renew, runPc, completion, doneEvent,
                   dispatchVars, doneVars>>

-----------------------------------------------------------------------------
(***************************************************************************)
(* runWatcher.                                                             *)
(***************************************************************************)

\* abort.Store and cancel, after the receive.
listen(r) ==
    /\ listener[r] = "got"
    /\ listener' = [listener EXCEPT ![r] = "cancelled"]
    /\ UNCHANGED <<managerVars, mu, callerVars, rpc, renew, runPc, completion, doneEvent,
                   dispatchVars, doneVars>>

\* Watcher.Run returns: with an event, or because it gives up or its context is
\* done.  An event of a watcher that is removed or leaving is not sent.
watcherReturns(r) ==
    /\ rpc[r] = "run"
    /\ \E again \in BOOLEAN :
          /\ again \/ "end" \in Allow \/ CtxErr(r)
          /\ renew' = [renew EXCEPT ![r] = again]
    /\ rpc' = [rpc EXCEPT ![r] = IF CtxErr(r) THEN "finish" ELSE "send"]
    /\ UNCHANGED <<managerVars, mu, callerVars, listener, runPc, completion, doneEvent,
                   dispatchVars, doneVars>>

\* The loop is left: unless it was aborted it ends its own listener first ...
finish(r) ==
    /\ rpc[r] = "finish"
    /\ rpc' = [rpc EXCEPT ![r] = IF listener[r] = "cancelled" THEN "done" ELSE "self"]
    /\ UNCHANGED <<managerVars, mu, callerVars, renew, listener, runPc, completion,
                   doneEvent, dispatchVars, doneVars>>

\* ... over the removed channel that RemoveWatcher uses as well.
endListener(r) ==
    /\ rpc[r] = "self"
    /\ \E s \in Runners :
          /\ s[1] = r[1] /\ listener[s] = "wait"
          /\ listener' = [listener EXCEPT ![s] = "got"]
    /\ rpc' = [rpc EXCEPT ![r] = "done"]
    /\ UNCHANGED <<managerVars, mu, callerVars, renew, runPc, completion, doneEvent,
                   dispatchVars, doneVars>>

-----------------------------------------------------------------------------
(***************************************************************************)
(* Run and its two loops.                                                  *)
(***************************************************************************)

Run ==
    /\ runPc = "idle" /\ ~running
    /\ running' = TRUE
    /\ runPc' = "launch"
    /\ runDone' = ctxDone
    /\ UNCHANGED <<watchersMap, watcherEvents, removing, queue, subscribers, mu, callerVars,
                   runnerVars, completion, doneEvent, dispatchVars, ctxDone>>

\* The loop over watcherEvents, and the dispatcher and completion goroutines.
launchWatchers ==
    /\ runPc = "launch"
    /\ queue' = queue \cup {watcherEvents[i].evType : i \in 1..Len(watcherEvents)}
    /\ Launch({<<i, "Run">> : i \in 1..Len(watcherEvents)})
    /\ Goto(Dispatcher, "select")
    /\ completion' = "start"
    /\ runPc' = "wait"
    /\ UNCHANGED <<watchersMap, watcherEvents, removing, running, subscribers, mu, arg,
                   next, last, doneEvent, dispatchVars, doneVars>>

\* An event from the data bus: nobody subscribed, or the callbacks start.
dispatch(r) ==
    LET ev == EvType(r) IN
    /\ rpc[r] = "send" /\ pc[Dispatcher] = "select"
    /\ rpc' = [rpc EXCEPT ![r] = IF renew[r] THEN "run" ELSE "finish"]
    /\ IF subscribers[ev] = {} THEN UNCHANGED <<pc, todo, event>>
       ELSE Goto(Dispatcher, "callback") /\ todo' = subscribers[ev] /\ event' = ev
    /\ UNCHANGED <<managerVars, mu, arg, next, last, renew, listener, runPc, completion,
                   doneEvent, dropped, doneVars>>

\* A callback returns, and says whether it wants to be called again.  After the
\* last one the dispatcher unsubscribes those that do not.
callbackReturns ==
    /\ pc[Dispatcher] = "callback"
    /\ \E s \in todo, again \in BOOLEAN :
          LET d == IF again THEN dropped ELSE dropped \cup {s} IN
          IF todo = {s}
            THEN /\ subscribers' = [subscribers EXCEPT ![event] = @ \ d]
                 /\ todo' = {} /\ dropped' = {} /\ event' = None
                 /\ Goto(Dispatcher, "select")
            ELSE /\ todo' = todo \ {s} /\ dropped' = d
                 /\ UNCHANGED <<subscribers, event, pc>>
    /\ UNCHANGED <<watchersMap, watcherEvents, removing, running, queue, mu, arg, next, last,
                   runnerVars, runPc, completion, doneEvent, doneVars>>

\* Subscribe and Unsubscribe, called at any time.
Subscribe(ev, s) ==
    /\ "subscribe" \in Allow /\ s \notin subscribers[ev]
    /\ subscribers' = [subscribers EXCEPT ![ev] = @ \cup {s}]
    /\ UNCHANGED <<watchersMap, watcherEvents, removing, running, queue, mu, callerVars,
                   runnerVars, runPc, completion, doneEvent, dispatchVars, doneVars>>

Unsubscribe(ev, s) ==
    /\ "subscribe" \in Allow /\ s \in subscribers[ev]
    /\ subscribers' = [subscribers EXCEPT ![ev] = @ \ {s}]
    /\ UNCHANGED <<watchersMap, watcherEvents, removing, running, queue, mu, callerVars,
                   runnerVars, runPc, completion, doneEvent, dispatchVars, doneVars>>

dispatcherEnds ==
    /\ pc[Dispatcher] = "select" /\ runDone
    /\ Goto(Dispatcher, "ended")
    /\ UNCHANGED <<managerVars, mu, arg, next, last, runnerVars, runPc, completion,
                   doneEvent, dispatchVars, doneVars>>

\* The completion loop looks at the length of the queue once before it waits.
completionStarts ==
    /\ completion = "start"
    /\ completion' = IF queue = {} \/ runDone THEN "ended" ELSE "select"
    /\ UNCHANGED <<managerVars, mu, callerVars, runnerVars, runPc, doneEvent, dispatchVars,
                   doneVars>>

\* A runWatcher says that it is done: the queue forgets its event type ...
watcherDone(r) ==
    LET left == queue \ {EvType(r)} IN
    /\ rpc[r] = "done" /\ completion = "select"
    /\ rpc' = [rpc EXCEPT ![r] = "ended"]
    /\ queue' = left
    /\ doneEvent' = EvType(r)
    /\ completion' = IF left = {} THEN "forget last" ELSE "forget"
    /\ UNCHANGED <<watchersMap, watcherEvents, removing, running, subscribers, mu,
                   callerVars, renew, listener, runPc, dispatchVars, doneVars>>

\* Faulty variant: nobody is told to leave when the queue is empty.
keepRunning ==
    /\ completion \in {"forget", "forget last"} /\ mu = None
    /\ removing' = removing \ {doneEvent}
    /\ doneEvent' = None
    /\ completion' = "select"
    /\ UNCHANGED <<watchersMap, watcherEvents, running, queue, subscribers, mu, callerVars,
                   runnerVars, runPc, dispatchVars, doneVars>>

\* ... deleteRemovingEvent takes the mark away, and if nothing was left in the
\* queue everything is told to leave.
deleteRemovingEvent ==
    /\ completion \in {"forget", "forget last"} /\ mu = None
    /\ removing' = removing \ {doneEvent}
    /\ doneEvent' = None
    /\ runDone' = (runDone \/ completion = "forget last")
    /\ completion' = IF runDone' THEN "ended" ELSE "select"
    /\ UNCHANGED <<watchersMap, watcherEvents, running, queue, subscribers, mu, callerVars,
                   runnerVars, runPc, dispatchVars, ctxDone>>

completionEnds ==
    /\ completion = "select" /\ runDone
    /\ completion' = "ended"
    /\ UNCHANGED <<managerVars, mu, callerVars, runnerVars, runPc, doneEvent, dispatchVars,
                   doneVars>>

RunReturns ==
    /\ runPc = "wait" /\ pc[Dispatcher] = "ended" /\ completion = "ended"
    /\ runPc' = "returned"
    /\ UNCHANGED <<managerVars, mu, callerVars, runnerVars, completion, doneEvent,
                   dispatchVars, doneVars>>

CancelContext ==
    /\ "cancel" \in Allow /\ ~ctxDone
    /\ ctxDone' = TRUE /\ runDone' = TRUE
    /\ UNCHANGED <<managerVars, mu, callerVars, runnerVars, runPc, completion, doneEvent,
                   dispatchVars>>

-----------------------------------------------------------------------------
CallerStep(p) == removeLookup(p) \/ removeRange(p) \/ removeEntry(p) \/ removeSend(p)

RunnerStep(r) == finish(r) \/ endListener(r)

CompletionStep == completionStarts \/ deleteRemovingEvent \/ completionEnds

Next ==
    \/ \E p \in Callers : \/ \E w \in Watchers : AddWatcher(p, w) \/ RemoveWatcher(p, w)
                          \/ CallerStep(p)
    \/ \E r \in Runners : \/ listen(r) \/ watcherReturns(r) \/ RunnerStep(r)
                          \/ dispatch(r) \/ watcherDone(r)
    \/ \E ev \in Events, s \in Subs : Subscribe(ev, s) \/ Unsubscribe(ev, s)
    \/ Run \/ launchWatchers \/ RunReturns
    \/ callbackReturns \/ dispatcherEnds
    \/ CompletionStep
    \/ CancelContext

Spec == Init /\ [][Next]_vars

\* Goroutines that can run do run; a mutex and a channel serve their waiters in
\* turn; callbacks return; a watcher returns when its context is done (and only
\* then: it may wait for its event forever).  Nobody has to call Run.
Fairness ==
    /\ \A p \in Callers : SF_vars(CallerStep(p))
    /\ \A r \in Runners : /\ WF_vars(listen(r))
                          /\ WF_vars((CtxErr(r) /\ watcherReturns(r)) \/ RunnerStep(r))
                          /\ SF_vars(dispatch(r) \/ watcherDone(r))
    /\ WF_vars(launchWatchers \/ RunReturns)
    /\ SF_vars(callbackReturns) /\ SF_vars(dispatcherEnds)
    /\ SF_vars(CompletionStep)

FairSpec == Spec /\ Fairness

-----------------------------------------------------------------------------
(***************************************************************************)
(* Properties.                                                             *)
(***************************************************************************)

\* A watcher that runs and that nobody told to stop is one the manager knows, or
\* its removal is under way: RemoveWatcher leaves no watcher running behind.
RemovedAreTold ==
    \A r \in Runners :
        Active(r) /\ listener[r] = "wait" =>
            \/ WatcherOf(r) \in watchersMap
            \/ \E p \in Callers : mu = p /\ arg[p] = WatcherOf(r)

\* RemoveWatcher returns.
RemovesReturn == \A p \in Callers : pc[p] = "lock" ~> Idle(p) \/ pc[p] = "ended"

\* "Each running watcher has its own context [...] and will have it canceled after
\* calling this method": the goroutines that run when RemoveWatcher is called end.
RemovedAreCancelled ==
    \A r \in Runners :
        (Active(r) /\ \E p \in Callers : pc[p] = "lock" /\ arg[p] = WatcherOf(r)) ~> CtxErr(r)

\* The last watcher is leaving: one is, and no other one runs.
LastLeaves ==
    /\ completion = "select"
    /\ \E r \in Runners : rpc[r] \in {"finish", "self", "done"}
    /\ \A r \in Runners : rpc[r] \notin {"run", "send"}

\* Somebody sends on the removed channel of a watcher whose listener is gone: a RemoveWatcher
\* that comes after the watcher has ended, or a watcher that ends while it is removed.
Stuck ==
    \E i \in 1..MaxEntries :
        /\ \/ \E p \in Callers : pc[p] = "send" /\ next[p] = i
           \/ \E r \in Runners : rpc[r] = "self" /\ r[1] = i
        /\ \A r \in Runners : r[1] = i => listener[r] # "wait"

\* "it will block until all watchers have given up/failed": Run returns when its context is
\* cancelled and when its last watcher leaves, unless somebody is stuck on a removed channel,
\* which is the only thing that keeps it.
RunEnds == runPc = "wait" /\ (runDone \/ LastLeaves) ~> runPc = "returned" \/ Stuck

=============================================================================
