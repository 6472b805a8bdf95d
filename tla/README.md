# A TLA+ model of the Google guest agent

The guest agent is the process that Compute Engine runs in every virtual
machine: it installs, launches and supervises plugins on behalf of the Agent
Communication Service (ACS), and its core plugin configures accounts, network,
clock, OS Login and so on from the metadata server. This directory holds TLA+
models of the parts of the agent in which goroutines, processes, crashes and
failures meet, the TLC configurations that check them, and TLAPS proofs of
nearly all the safety properties. Paths below are relative to `src/`.

Contents: 1 the system, 2 modules and code, 3 runs, 4 fairness, 5 faulty
variants, 6 proofs, 7 where code and documentation disagree, 8 what is not
modelled, 9 plan.

## 1. The system

| part | state | operations | talks to |
|---|---|---|---|
| plugin manager (`internal/plugin/manager/pluginmanager.go`, `plugin.go`) | `plugins`, `inProgressPluginRequests`, `pluginMonitors`, a `Plugin` object per installed revision; on disk a state file, a symlink, an install and a state directory per plugin | `ConfigurePluginStates` (install, upgrade, remove, apply), `InitPluginManager`, `StartLocalPlugins`, `StopPlugin`, `ListPluginStates` | called by ACS handler, setup, `ggactl`; uses engine, scheduler, ACS client |
| plugin engine (`pluginengine.go`, `pluginlauncher.go`, `plugindisabler.go`) | none of its own; moves objects, processes, files | `downloadStep`, `unpackStep`, `launchStep`, `stopStep`, workflows | called through `Plugin.runSteps` |
| plugin monitor, metrics, cleanup (`pluginmonitor.go`, `pluginmetrics.go`, `cleanup.go`) | jobs per running plugin, a ring of measurements, one daily job | `healthCheck`, `Run`, `retryFailedRemovals`, `cleanupOldState` | run by the scheduler, relaunch through the engine |
| scheduler (`internal/scheduler`) | map of job configurations, one goroutine and two channels per job | `ScheduleJob`, `UnscheduleJob`, `Stop`, `runOnSchedule` | plugin manager, core plugin modules, telemetry |
| events manager (`internal/events`) | watchers, their event types, removals in progress, subscribers, queue | `AddWatcher`, `RemoveWatcher`, `Subscribe`, `Unsubscribe`, `Run` | metadata, ACS and OS Login watchers; subscribers in every module |
| ACS client, handler, watcher (`internal/acs`) | one cached client and stream | `Send`, `SendMessage`, `Watch`; message dispatch | events manager, plugin manager |
| retry (`internal/retry`) | none | `Run`, `RunWithResponse` | everything that calls a service |
| metadata client (`internal/metadata`) | etag, hanging request | `Get`, `Watch` | events manager, all modules |
| command monitor (`internal/command`) | handlers, listener, socket file | `RegisterHandler`, `Setup`, `Close`, one goroutine per connection | plugin manager, core plugin, `ggactl` |
| bounded list, LRU, metric registry | bounded collections under a mutex | `Add`, `Reset`, `Get`, `Put`, `Record`, `Flush` | metrics, snapshots |
| agent service and setup (`cmd/google_guest_agent`, `internal/service`) | start-up order, service state, signals | `setup.Run`, `service.Init`, `SetState` | all of the above |
| core plugin (`cmd/core_plugin`) | stages, one context per `Start` | `Start`, `Stop`, `Apply`, `GetStatus`, `runAgent` | the agent, metadata events |
| modules of the core plugin: OS Login, SSH keys, first boot, snapshots, MDS certificates, network, password reset, diagnostics, clock | what each did last, in memory; files, accounts, registry, certificate stores, network configuration | setup and one callback per metadata event, scheduled jobs | metadata events, operating system |
| compat manager (`cmd/google_guest_compat_manager`) | which agent is enabled; a knob on disk | `enableCorePlugin`, `disableCorePlugin` | service manager, plugin config, `ggactl` |
| extensions (`cmd/mwlid_extension`, `cmd/guest_net_telemetry`, `cmd/guest_telemetry_extension`) | credential directories and a link; batches by due time | `Start`, `Stop`, refreshes, collection runs | the agent as plugins, ACS |

What is hard here is nearly always one of three things.

*Goroutines over shared objects.* A map under a mutex names objects that
goroutines go on using after the mutex is released: a request takes a plugin
object, waits for a monitor, runs steps that fail, and meanwhile the monitor,
another request, the cleanup job or a crash works on the same plugin. The
scheduler and the events manager stop goroutines by a send on an unbuffered
channel while they hold a lock. The ACS client hands a cached stream to several
users and lets any of them replace it.

*A list of operations that can stop half way.* Nearly every module of the core
plugin follows the metadata by a sequence of commands and file writes, any of
which fails or is cut off by a restart, and remembers in memory or on disk how
far it got: enabling OS Login, making accounts, switching network managers or
agents, rotating credentials, the first boot.

*A promise to answer.* Snapshots must thaw, password requests must be
answered once, changes of the metadata must arrive, a stop must stop.

`PROJECT.json` lists these hazards one by one, each at its line, with the
properties that are about it.

What makes each part correct:

* plugin manager: one request per plugin at a time; no process that nobody
  knows, no two processes of a plugin; the old revision goes only when the new
  one is ready; what is reported is what is left behind; what runs is found
  again after a restart; every request ends; every crash is noticed.
* scheduler, events manager: calls return; nothing is sent on a closed channel;
  removal reaches every goroutine; `Run` ends when it should.
* ACS client: no stream is leaked or lost to another user's failure; a send
  gives up.
* start of the agent: the core plugin stays the agent's own, a local plugin
  does not displace a dynamic one, setup ends.
* command monitor: a handler that runs is registered. Metrics: each once, the
  last ones, in order.
* metadata: every change, or a later one, arrives. Service: a stop stops.
* core plugin: "initialized" means it; a stop stops. Its modules: after the
  last event the machine is as the metadata says, whatever failed in between;
  what must happen once happens once.
* compat manager: never two agents. Extensions: the published link leads to
  whole credentials; no due time is reported twice.

## 2. Modules and code

`<-` reads "is extended by", `<=` "is instantiated by":
`PluginEngine <- PluginManager <- MCPluginManager, PluginManagerProofs`;
`Scheduler <- MCAgent`; `EventsManager <- MCCorePlugin, MCEventsManager`;
`MetricWindow <= PluginMetrics`, `JobLifecycle <= Scheduler`,
`PluginMap <= PluginManager` (refinements);
`Descriptor <- CompatManager, MetadataModules, OsLogin, SshKeys, MtlsCreds`;
`AgentStartup, CommandMonitor, PluginMetrics, MetricRegistry, CompatManager,
Mwlid, NetTelemetry <= MCAgent`;
`CorePlugin, MetadataModules, PipeWatcher, SshKeys, FirstBoot, MtlsCreds,
NetworkSetup <= MCCorePlugin`;
`Scheduler, EventsManager, AgentService, MetadataWatcher, OsLogin, CorePlugin,
Snapshot <= MCLiveness`. Proofs:
`PluginManagerProofs <- PluginLifecycleProofs`;
`MCAgent <- AgentProofs <- AgentStartupProofs`;
`MCCorePlugin <- CorePluginProofs`; `EventsManager <- EventsManagerProofs`;
`Scheduler <- SchedulerProofs`; `AcsClient <- AcsClientProofs`. `PROJECT.json`
maps every definition to the lines it models.

### Sums of components

`MCAgent`, `MCCorePlugin` and `MCLiveness` check several components in one run.
A variable `part`, chosen initially and never changed, says which component
moves; the others stay in a state of their `Init`. So the reachable states are
the disjoint union of those of the components, a property of a component holds
of the sum exactly if it holds of the component on its own, and a
counterexample is a behaviour of one component. This is no composition: what
components tell each other is in the module of the one that is told (a metadata
event, a subscription, the outcome of a request).

### PluginEngine, PluginManager

`PluginEngine` has the workflows (sequences of steps) and the status each step
gives a plugin while it runs and when it fails.

In `PluginManager` a *slot* is a request the manager accepts, or a plugin it
loads after a restart; it also names the `Plugin` object which that request
creates, since a reinstalled revision is another object than the one an old
goroutine may still hold. A slot has two threads: `Req(s)`, the goroutine of
`configurePlugin` (or of `InitPluginManager`), and `Mon(s)`, the health monitor
of the object. `pc` is where a thread is; `steps` what its `runSteps` has still
to run; `phase` tells the calls of `runSteps` in one request apart.

| code | model |
|---|---|
| `plugins`, `inProgressPluginRequests`, `pluginMonitors`, `Scheduler.jobs` | `plugins`, `inProgress`, `monitors`, `jobs` |
| `Plugin.RuntimeInfo`, `Protocol` | `obj`: status, pid, client, pending revision, unix socket or not |
| processes, install directories, symlink, `<name>.gob`, state directory | `procs`, `dirs`, `link`, `stateFile`, `stateDir` |
| `filterPendingPluginRevisions` | action of that name: the test and the mark are one critical section |
| `configurePlugin`, `installPlugin`, `upgradePlugin`, `removePlugin`, `applyConfig` | `configurePlugin` and `applyConfig` up to the first step, then `installed`, `installFailed`, `preLaunched`, `upgradeFailed`, `replaced`, `launchUpgrade`, `removed`, `removeFailed`, `Apply`, `applied`; the deferred delete is `Finish` |
| `runSteps` and the steps | `runSteps`, `downloadStep`, `unpackStep`, `stopPlugin`, `markStopped`, `cleanup`, `launchStep`, `awaitSocket`, `startPlugin`, `openStateFile`, `writeStateFile`; cut where another goroutine or a crash can come in between |
| `startPluginSchedulers`, `startMonitoring`, `stopMonitoring`, `healthCheck`, `connectOrReLaunch` | `ScheduleJob`, `addJob`, `startMonitoring`, `stopMonitoring`, `UnscheduleJob`, `runOnSchedule`, `healthCheck`, `GetStatus`, `connectOrReLaunch`, `relaunched` |
| `retryFailedRemovals` | `scanLeftovers` (under the read lock), `removeLeftover` (after it) |
| `InitPluginManager`, `load` | a restart of the agent, with the host or without it: `InitPluginManager`, or `InitFails` when a state file does not decode |

Abstractions. Names, revisions and pids are model values; archives, checksums,
addresses and log texts are outcomes of a step (it works or it fails). Finding
and killing a process works: the code only logs an error of either
(plugindisabler.go:61-64, 85-87, 94-98) and forgets the pid, so every property
about processes rests on this. `cleanup` may leave the state file behind, as the
code does (113-117); `keptFiles`, a history variable, says of which plugins. A pid is recorded and reused like the code's, but a process is
known by the binary it runs, as `Plugin.IsRunning` does. All plugins are
daemons. The interface of the scheduler is the one `Scheduler` models, folded
into `UnscheduleJob` (the interrupt is received between two runs). The branch
of `InitPluginManager` for a core plugin of another version
(pluginmanager.go:275-284) is not modelled because it cannot be taken: `load`
makes the core plugin local (1013-1015) and local plugins are taken out before
it (234-243).

Constants choose the situation: `Actions` the requests that are sent,
`LocalRev` the manifests there may be in the local plugin directory,
`SpacedRequests` whether ACS waits until the monitor of the last request is
registered, `Uds` whether plugins listen on unix sockets, `Shutdowns`,
`MaxRestarts` and `MaxScans` (cleanup runs) what else happens.

### Scheduler, EventsManager, AcsClient

*Scheduler.* Clients call `ScheduleJob`, `UnscheduleJob` and `Stop` in the
steps between which the code gives up `Scheduler.mu`: `IsScheduled`,
`ShouldEnable`, `FirstRun`, `add`; `Known`, `Lock`, `UnscheduleJob`; `Stop`,
`StopNext`, `StopSend`. A `jobConfig` is its `runOnSchedule` goroutine: `Tick`,
`RunReturns`, `ContextDone`, `remove`. `mu` is the client that holds the mutex
across a send; critical sections without a send are one action. `jobConfig`
objects nobody refers to are used again, so `Configs` bounds how many there are
at once, not how many there ever are.

*EventsManager.* Each `WatcherEventType` in `watcherEvents` has a `runWatcher`
goroutine started by `Run` or by `AddWatcher` (`Runners`), with its listener on
the `removed` channel. Callers are goroutines of other components and the
dispatcher itself, whose callbacks may call `AddWatcher` and `RemoveWatcher`.
`RemoveWatcher` is cut into the lookup, the copy of the slice by `range`, and
one action per entry and per send, all under `removingWatcherEventsMutex`.
`Allow` says what the environment does (`Situations`).

*AcsClient.* Users call `Send`, `SendMessage` and `Watch`: `isACSEnabled`, then
the retry loop of `connect`, `take`, `useOK`/`useFails`/`useNil`,
`closeConnection`, `backoff`. `connMu` is held within an action and given up
between two, as in the code. `NewClient` and `NewConn` stand for the ACS library
(external): ids nobody refers to are used again, so `MaxConns` bounds what is
referred to at once. A stream may break at any time, every creation may fail.

### The agent process and the programs beside it

| module | state | actions and the code they stand for |
|---|---|---|
| `AgentStartup` | what is on disk (`env`: binaries, knob, local manifests), where setup is, plugins as none, local or dynamic, what survives on disk (`stored`), requests in progress | `setup.Run`, `InitPluginManager`, `StartLocalPlugins` with its marks, `configureAndVerifyPlugin`, the status watcher, `handleMessage` of ACS with `ToConfigure`, crashes, restarts. A request ends in success or failure; how is the matter of `PluginManager` |
| `AgentService` | the three goroutines of the service package, the signal channel, what the service manager may send | `Init`, `SetState`, `Execute`, `shouldHandleSignal` |
| `CommandMonitor` | server, handlers, read lock holders, connections, socket file | `Setup`, `Close`, `RegisterHandler`, `UnregisterHandler`, `start` per connection, `vmEventHandler`, a crash |
| `PluginMetrics` | the ring (`entries`, `idx`, `isFull`), the job, the last answer | `boundedlist` operation by operation; `PluginMetrics.Run`, `ListPluginStates`; refines `MetricWindow` |
| `MetricRegistry` | buffer, what each goroutine took out, what was sent | `Record`, `Flush`, `runFlusher`, cut at every release of the mutex |
| `CompatManager` | services (running, enabled), knob, steps still to do | each operation of `enableCorePlugin` and `disableCorePlugin` with its failure, the systemd and Windows clients, restarts, reboots; an agent manager or a core plugin that dies. A manager that is stopped takes its core plugin along, one that dies leaves it behind (`leftCore`); `ggactl coreplugin stop` changes nothing (section 7) |
| `MetadataWatcher` | server version, etag, attempt, body | `Watch`, `Get`, retries, timeouts, `updateEtag` before the body is read |
| `Mwlid` | directories, temporary and published link, one loop per `Start`, the `second` of the clock | both refreshers step by step, rotation, `Start`, `Stop`, `watchIdentity`. A directory is named by the second in which its refresh began: a refresh in the same second writes into the directory of the other, which `shared` remembers |
| `NetTelemetry` | workers, run, collector loops, channel, reporter with its open batches, sender | `start`, `runCollection`, `runCollectorLoop`, `Reporter.Run`, `sendWithRetry`, the standalone process. Time is counted in units of the shortest interval; a collection lasts up to its timeout, across units; a ticker holds the first tick that was missed; `in` is the channel and the line of senders blocked on it, which `Stalls` allows to be longer than a unit |

### The core plugin

| module | state | actions and the code they stand for |
|---|---|---|
| `CorePlugin` | process, contexts, stage, module metrics | `Start`, `Stop`, `Apply`, `GetStatus`, `runAgent`, `RunBlocking`, `RunConcurrent`, signals, a callback of OS Login that calls `RemoveWatcher` before or after the events manager is cancelled |
| `MetadataModules` | metadata, registry, what was answered or collected | `setupAccounts` and the reset of a password; the diagnostics goroutine; `clockSkew` |
| `OsLogin` | four configuration files, services, pipe handler and watcher | each step of `osloginSetup` and `disableOSLogin`, with failures and restarts |
| `PipeWatcher` | pipe, readers, write ends, `canceled`, `waitingWrite` | `Run` with the errors of opening, its cancelling goroutine, `runWatcher` of the events manager around it, the reader, the subscriber |
| `SshKeys` | accounts, `google_users`, `authorized_keys`, groups | `metadataSSHKeySetup` command by command; `leftAlone` are the accounts whose file `updateSSHKeys` returned from without an error and without writing |
| `FirstBoot` | instance id file, host keys | both stages, key by key; crashes, cloned disks |
| `Snapshot` | caches of seen operations (an LRU), handlers, watchdogs, frozen or not | `handleRequest` cut between `Get` and `Put`, scripts that work or fail (`postFailed`), watchdogs |
| `MtlsCreds` | root, client and PFX files, certificate stores, one run per job | `setup`, `eventCallback`, `CredsJob.Run` write by write, `cleanupCreds` entry by entry, each of which may stay |
| `NetworkSetup` | metadata, NICs, per manager what is configured and what is loaded, drop-ins, routes | `networkSetup`, `NewConfigs`, `activeManager`, `Configure`, `rollback`, which may fail half way or swallow its error, `IsManaging`/`Setup`/`Rollback` of netplan, NetworkManager, networkd, wicked and dhclient, `route.Setup` |
| `Descriptor` | - | how instance and project attributes combine; used by the modules above |

In all of these the text of files, scripts and messages is left out; a file is
what it makes of the machine (whose block it has, which NICs it configures,
which key it holds). Each step that calls the operating system may fail;
`Max...Faults` bounds how many do where the number matters.

## 3. Runs

| run | instance | properties | shows |
|---|---|---|---|
| `PluginManagerSpaced` | 1 plugin, 2 revisions, 3 requests (install, remove), 2 pids, shutdown | `ReadyBeforeReplacing`, `AtMostOneProcess`, `NoOrphanProcess`, `OnlyManagedIsMonitored`, `RunningPluginIsDurable`, `ReportsAreTrue` | whatever step fails and whenever a process dies, installs, upgrades and removals leave a consistent manager, host and disk |
| `PluginManagerFaults` | 1 plugin, 1 revision, 2 requests of every kind, 1 pid, unix sockets, shutdown, 1 restart or reboot, 1 cleanup | `TypeOK`, `OneRequestPerPlugin`, `NoHalfInstalledPlugin` | the lock on a plugin survives restarts, corrupt state files and requests at any time |
| `PluginManagerFair` | 1 plugin, 2 revisions, 2 requests, a local manifest | `RequestsFinish`, `CrashesAreNoticed` | requests end although they wait for monitors; a plugin without a process does not stay RUNNING |
| `AcsClient` | 2 users, all methods, 2 attempts, all failures | `OpenIsCached`, `OnlyFailedIsClosed`, `SendsReturn` | no leaked stream, none closed under another user, sends give up |
| `Agent` | 8 parts, 1.9 million states | `NoSendOnClosed`, `CoreIsLocal`, `DynamicTakesPrecedence`, `RunningIsRegistered`, `RingIsWindow`, `EachMetricOnce`, `NeverBoth`, `LinkLeadsToCredentials`, `ReportedOnce` | safety of scheduler, start-up, command monitor, metrics, compat manager, workload credentials and network telemetry |
| `CorePluginModules` | 8 parts, 1.5 million states | `RemovedAreTold`, `ReadyMeansInitialized`, `KnownKeysAreAnswered`, `OneAnswerAtATime`, `RecordedUsersHaveTheirKeys`, `HostKeysAreStable`, `ClientIsVerified`, `OneManagerConfigures` | safety of the events manager and of the modules of the core plugin |
| `Liveness` | 8 parts, 17 thousand states | `CallsReturn`, `RemovesReturn`, `RemovedAreCancelled`, `RunEnds`, `StopEndsAgent`, `ChangesArrive`, `FilesFollowMetadata`, `StopEndsPlugin`, `FrozenDisksThaw` | what must eventually happen |
| `PluginManagerCleanup` (violated) | 1 request, 1 cleanup | `CleanupKeepsManagedPlugins` | the daily job removes the directory of a running plugin |
| `SchedulerDeadlock` (violated) | 1 id, 1 client, a job that ends | `CallsReturn` | `UnscheduleJob` and the ending job wait for each other |
| `EventsDead` (violated) | `AddWatcher` again after a removal | `RemovesReturn` | the second removal blocks for ever |
| `NetworkBadNic` (violated) | 2 NICs, 2 metadata changes | `BadNicIsInvalid` | a NIC without an interface is valid from the second event on |
| `WorkloadLink` (violated) | 3 refreshes | `LinkLeadsToDirectory` | the published link leads nowhere |

`RingIsWindow` is a refinement: `PluginMetrics` implements `MetricWindow` (the
last `ListSize` measurements in order, each reported once) under the mapping
that unrolls the ring with `All`. Two more refinements are proved (section 6)
and were explored with TLC on instances of their own. `JobsFollowLifecycle`:
`Scheduler`, with `Exclusive`, implements `JobLifecycle`, in which one goroutine
at a time has a job and an interrupt comes between two runs (2 ids, 2 clients,
3 job configurations, jobs that end, a cancelled context: 162 thousand states).
`MapIsGuarded`: `PluginManager` implements `PluginMap`, in which an entry of the
map changes only behind a mark and never over another object (the instance of
`PluginManagerFaults`: 1.05 million states).

Why the bounds are enough to be interesting.

* Three requests give install - upgrade - remove, install - remove - install
  again, and a failed request of either kind before and after a good one; two
  revisions are what an upgrade needs, and two pids what a second process needs
  (with one pid a launch has to wait for the exit of the other process, which
  hides duplicates). Requests of different plugins share only maps, never an
  object, so one name is enough for the properties per plugin; `OneRequest`
  (section 6) is proved for any number.
* Two clients and two ids contain every pair of overlapping calls of the
  scheduler. Two event types of one watcher is the only case in which the loop
  of `RemoveWatcher` goes on after a send. Two ACS users are one that fails and
  one that reconnects. Two connections and a registered command are a reader
  and a writer of the handler map next to each other.
* A ring of three and an unbounded number of measurements wraps and is drained
  at every fill. Two recorders, the flusher and twice `maxRecords` metrics give
  a flush that overlaps another.
* Three changes of the wish and two reboots interrupt a switch of agents and
  the switch back. Two refreshes by two loops overlap, in one second
  or in two; two starts are what an
  old loop beside a new one needs. Three due times with a collection of up to one unit
  and a retry of a send let a result come after its batch, and a batch be
  pruned while a collector is still at it.
* Two instances, two key types, three starts: a clone that dies in the first
  boot. Two users and keys, three changes, one restart and one failed command:
  a user that comes, goes and comes back across a failure. Two jobs, two
  client certificates, one reboot: an old run beside a new one with another
  root. Every initial manager of the NICs, one change, one failure, one
  restart: each pair of managers before and after.
* Two copies of a post request and one that is lost; three versions of the
  metadata, any of whose bodies is lost.

Bounds are in guards (`Max...`) or in the size of a set, never in a state
constraint. Deadlock is not checked where the system may stop: the bounded
environment is used up, `Run` has returned, the process has exited. Symmetry
(pids, slots) is used in runs of safety properties only.

Larger instances explored by hand with the same result: two watchers with one
event type each (2.7 million states), a metadata watcher beside a two-event SSH
CA watcher with three entries (7.8 million states), OS Login with two changes
and two failures, `Mwlid` with three refreshes (7.1 million states). `AgentGetsReady` (setup that is through is reported to the
service manager, although the core plugin crashes and is relaunched) holds of
`AgentStartup` with the constants of `Agent` (192 thousand states).

## 4. Fairness

Weak fairness says that a goroutine that can go on does. Strong fairness is
used where the Go runtime gives it: a mutex that is free again and again is
taken by each of its waiters in the end (`sync.Mutex` hands over to a starving
waiter), and a `select` or a channel with several ready partners picks each of
them in the end (the choice is uniform). In `PluginManager` this is
`SF(UnscheduleJob)`: the interrupt is offered at every return of the job to its
`select`, beside the ticker; in `AgentService` it is the receive from the
service manager beside a pending signal. The one other use is
`MetadataWatcher`: a request that is answered again and again is read at last
(`SF(updateEtag)`, `SF(deliver)`), that is, the network does not lose every
body for ever; the retry loop of the client rests on the same assumption.

In `OsLogin` metadata events keep coming (`WF(osloginSetup)`): the long poll of
`MetadataWatcher` times out and delivers at least once a minute. In `Snapshot`
scripts end or time out and timers fire. In `CorePlugin` the setup of a module
returns, and so does the `Run` of the events manager once it is cancelled
(`SF(runAgentEnds)`, since a callback may come first again and again), unless a
callback waits in `RemoveWatcher` for a listener that is gone; `RunEnds`, of
the part "ending" of `Liveness` with a cancel and with watchers that give up,
shows of `EventsManager` that nothing else can keep it.

Nothing obliges the environment: processes need not exit, requests need not be
sent, contexts need not be cancelled, a watcher returns only when its context
is done, and a `Watch` on a stream that works may wait for ever. In `AcsClient`
a call on a stream that is closed or broken fails in the end, and the time a
unary call may take is bounded by its context.

`MCLiveness` writes the fairness conditions of its parts as seven strong and
five weak ones. `part` never changes, so fairness to `A \/ B`, where `A` is an
action of one part and `B` of another, is fairness to `A` in the behaviours of
the one and to `B` in those of the other.

## 5. Faulty variants

Next to many actions stands a *faulty variant*: the action with a plausible
mistake (a dropped guard, a missing reset, a swapped order). They belong to no
specification. `PROJECT.json` ("mutants") names for each property of each run a
variant; put in the place of the real definition it makes TLC refute the
property, which shows that the property depends on the code it is about.

## 6. Proofs

TLAPS checks every proof below to the last leaf, for every value of the
constants that satisfies the named assumptions: arbitrary sets of plugins,
revisions, requests, watchers, jobs, users and so on, and arbitrary bounds on
restarts and failures. TLC checks the same formulas on the instances of
section 3; the inductive invariants of the plugin manager were also checked by
TLC, as invariants of the same instances.

| module | theorem | states |
|---|---|---|
| `PluginManagerProofs` | `TypeCorrect` | `Spec => [](TypeOK /\ WellFormed)` |
| | `OneRequest` | `Spec => []OneRequestPerPlugin` |
| `PluginLifecycleProofs` | `NothingHalfInstalled` | `Spec => []NoHalfInstalledPlugin` |
| | `ManagerGuardsMap` | `Spec => MapIsGuarded` |
| | `MonitorsAreStopped` | `SpacedRequests => (Spec => []OnlyManagedIsMonitored)` |
| | `UpgradesAreReady` | `MaxScans = 0 => (Spec => []ReadyBeforeReplacing)` |
| | `RunningIsDurable` | `SpacedRequests /\ MaxScans = 0 => (Spec => []RunningPluginIsDurable)` |
| | `OneProcessPerPlugin` | `OneAgent => (Spec => []AtMostOneProcess)` |
| | `NoProcessIsOrphaned` | `OneAgent => (Spec => []NoOrphanProcess)` |
| | `RequestsReportTruly` | `OneAgent => (Spec => []ReportsAreTrue)` |
| `SchedulerProofs` | `NoPanicOnSend` | `Spec => []NoSendOnClosed` |
| | `JobsRunAlone` | `Exclusive => (Spec => []OneRunPerJob)` |
| | `SchedulerImplementsLifecycle` | `Exclusive => (Spec => JobsFollowLifecycle)` |
| `EventsManagerProofs` | `NoWatcherIsLeftBehind` | `Orderly => (Spec => []RemovedAreTold)` |
| `AcsClientProofs` | `NoStreamIsLeaked` | `Spec => []OpenIsCached` |
| | `WorkingStreamIsKept` | `Spec => OnlyFailedIsClosed` |
| `AgentProofs` | `HandlersAreRegistered` | `AgentSpec => []RunningIsRegistered` |
| | `RingImplementsWindow` | `AgentSpec => RingIsWindow` |
| | `MetricsAreKeptOnce` | `AgentSpec => []EachMetricOnce` |
| | `LinkIsSound` | `AgentSpec => []LinkLeadsToCredentials` |
| | `DuesAreReportedOnce` | `~Stalls => (AgentSpec => []ReportedOnce)` |
| `AgentStartupProofs` | `CorePluginIsLocal` | `AgentSpec => []CoreIsLocal` |
| | `DynamicHasPrecedence` | `AgentSpec => DynamicTakesPrecedence` |
| | `LegacyAndCoreExclude` | `AgentSpec => []NeverBoth` |
| `CorePluginProofs` | `HostKeysOnce` | `CorePluginSpec => []HostKeysAreStable` |
| | `CredentialsVerify` | `CorePluginSpec => []ClientIsVerified` |
| | `NoPasswordRequestIsLost` | `CorePluginSpec => []KnownKeysAreAnswered` |
| | `AnswersDoNotMix` | `CorePluginSpec => []OneAnswerAtATime` |
| | `ReadyIsTrue` | `CorePluginSpec => []ReadyMeansInitialized` |
| | `AccountsHaveTheirKeys` | `CorePluginSpec => []RecordedUsersHaveTheirKeys` |
| | `ManagersExclude` | `~NamePrefix => (CorePluginSpec => []OneManagerConfigures)` |

### Hypotheses

A hypothesis of a theorem excludes behaviours in which TLC finds the property
violated (section 7 has the ones that contradict a comment of the code):

| hypothesis | meaning | without it |
|---|---|---|
| `SpacedRequests` | ACS asks for a plugin again only when its monitor has registered | a removal in between stops no monitor: `OnlyManagedIsMonitored`, `RunningPluginIsDurable` and the properties under `OneAgent` fail |
| `MaxScans = 0` | the cleanup job does not run | it deletes directories chosen earlier: `ReadyBeforeReplacing`, `RunningPluginIsDurable` fail |
| `OneAgent` | `SpacedRequests`, no restart, no APPLY | a restart between launch and `Store`, or the relaunch of an APPLY beside that of the monitor, gives two processes: `AtMostOneProcess`, `NoOrphanProcess` and `ReportsAreTrue` fail with either |
| `Orderly` | no watcher is added again, added while `Run` launches, or removed before `Run` | each of the three alone violates `RemovedAreTold` |
| `Exclusive` | calls of the scheduler for one id do not overlap, nor does `Stop` with any | two `ScheduleJob` both find nothing and start two goroutines: `OneRunPerJob`, `JobsFollowLifecycle` fail |
| `~Stalls` | no unit of time (the shortest interval of a collector) ends while a collector waits for room in the channel | a collector catches up on a due time that was reported and pruned meanwhile: `ReportedOnce` fails |
| `~NamePrefix` | netplan names its drop-ins without a prefix: everywhere but on Debian 12 | drop-ins that rollback does not find: `OneManagerConfigures` fails |

`NothingHalfInstalled`, `ManagerGuardsMap`, `UpgradesAreReady`, `RunningIsDurable`, `TypeCorrect`
and `OneRequest` include restarts at every point.

The assumptions on constants are the `ASSUME`s of the modules, which TLC
evaluates in the runs: the types of the constants, that `None` is none of the
values it is the absence of (`ConstantsAssumption`, `NoneAssumption`), a ring of
at least one entry, no event type of two watchers, no module in both stages.

### The plugin manager

`TypeOK` is not inductive: `FullName(curr[s])` is typed only if `curr[s]` is an
object that has a name and a revision, `Head(steps[t])` only if there is a
step, `plugins[n]` only if what it holds was created for a plugin.
`WellFormed` adds this: a goroutine at each point holds what it is going to use
(`ReqOK`), a monitor that runs has an object (`MonOK`), the map holds objects
under their own names (`MapOK`), and a thread inside a step has that step at
the head of its workflow (`StepOK`). `IInv == TypeOK /\ WellFormed` is
inductive. In terms of the code, `WellFormed` says that no handler dereferences
a plugin that is not there, restarts included.

`OneRequestPerPlugin` is inductive relative to `IInv`. Only
`filterPendingPluginRevisions`, `Finish` and a restart change which requests
are active or which plugins are marked; every other action satisfies
`KeepsGate`, and `KeepsGateInv` needs no more.

Everything else rests on `FlowInv`, the control flow: what is left of a workflow
fits the phase of its request (`FitOK`, `PointOK`), and the map holds, under the
name of a request in progress, the object that the phase implies (`RefOK`,
`PlaceOK`). Since `plugins` is unlocked between the calls of a request, this is
what the code relies on and nowhere states. It is proved once (`FlowHolds`) from
what each handler does (`configurePluginEffect`, `StepTransition`, ...), and
each property then adds what it is about:

* `ManagerGuardsMap` needs no more than `FlowInv` and the marks: a request that
  adds its object finds the entry empty (`PlaceOK`), its object was never in the
  map (the phase of an object that was is "install" or "load" for good), and it
  has the mark (`OneRequestPerPlugin`).
* `HalfInv`: an INSTALLING object has its launch, or its removal from the map,
  ahead of it; a pending revision belongs to an upgrade under way.
* `MonInv`: a live monitor can be stopped, that is, its job is scheduled and its
  name registered, unless it is still starting or somebody who takes it down
  has just unregistered it; a scheduled job is that of a live monitor.
* `ReadyInv`: a request past its prelaunch has its revision on disk; whoever
  deletes a directory works on that very revision.
* `ProcInv`: at most one thread may start or stop the process of a plugin
  (`OneHandler`), it works on the object in the map, and it has recorded the pid
  or knows that there is none. `AtMostOneProcess` alone says nothing of who
  will launch next.
* `RepInv`: what a request has reported stays true until its deferred delete; a
  removal that is through has deleted the state file, or `keptFiles` says that it
  could not, and no monitor is left to write it again.
* `DurInv`: a state file that was written to its end names a revision that is
  linked and unpacked; a plugin without an object in the map has no such file
  (unless the agent failed to start or a cleanup could not remove it), so that a new installation finds none; a launched dynamic object has one until
  it is cleaned up. It holds of the disk and survives a restart, whose loaded
  objects it describes.

In each of them a frame lemma (`FlowFrame`, `HalfFrame`, `MonFrame`, ...) says
once why requests for other plugins are not disturbed, by
`OneRequestPerPlugin`.

### The other components

`MCAgent` and `MCCorePlugin` are sums (section 2); a step of one component
leaves the variables of the others alone (`OneComponentMoves` and the
`...Stutters` lemmas), so each has an invariant of its own.

* `SendInv`: a goroutine needs the mutex to take itself out of the map before it
  closes its channel, so while it is in the map, or the mutex is held, nobody
  but its sender ends it.
* `LifeInv`, with `SendInv` and under `Exclusive`: a goroutine that has not ended
  is the one of the map under its id; what `IsScheduled` answered still holds
  when the job is added; no two calls are about one job. So a job has at most
  one goroutine, whose place is the state of the job in `JobLifecycle`; each
  action moves one job by one step there (`OneJobMoves`), or none.
* `RemovalInv`: with the marks, the lock, the launching loop and the entries of
  `watcherEvents`; the removal loop reaches every entry of its watcher and
  skips none by the mark of another.
* `CacheInv`: a cache that counts as set has a stream; one that does not has no
  open stream. `OnlyFailedIsClosed`, an action property, needs no invariant:
  `connect` closes nothing, and `closeConnection` compares the streams.
* `RingInv` and lemmas on `All`, `ListLen` and the wrapping index: an `Add` of
  the ring is an append that drops the oldest entry if the ring is full, and
  reset is the empty window; this is the step simulation of `MetricWindow`.
* `RegistryInv`: what a flush holds, the buffer and what was sent are disjoint,
  and a flush that is not sending holds nothing.
* `TelemetryInv`, of every run that collects: a collector waits for a tick of its
  grid that is not in the past, and one that collects has its due time behind it
  by no more than its timeout (`OnTime`); what comes later through the channel
  may be due earlier, by `MaxRunTimeout` at most (`InOrder`); a batch that waits
  has not been reported, and one that was reported is remembered unless no
  result of it can come any more (`Settled`). `PruneAge` is twice
  `MaxRunTimeout`: once for the collectors, once for the channel.
* `WorkloadInv`: a directory that is not `shared` belongs to one refresh, which
  alone writes and publishes it; an old one that a refresh removes is not the
  published one.
* `StartupInv`: the phases of setup, where the items of an ACS message come
  from, and that a marked request for a local plugin met no dynamic one.
* `CompatInv`: the operations that are left of a switch determine what is on,
  after a failure too; from "stop manager" of a switch to the end of it there is
  no manager that was started with the core plugin, whoever dies or restarts.
* `BootInv`, `MtlsInv`, `MetadataInv`, `PipeInv`, `PluginInv`, `KeysInv`,
  `NetworkInv`: how far the pass under way has got, and what it has left to do
  (`KeysToCome`, `OneRoot`, `PassSoFar`, `Passed`).

### Model-checked only

The liveness properties (`RequestsFinish`, `CrashesAreNoticed`, `SendsReturn`
and the run `Liveness`): fairness is out of this prover's reach. Every
invariant and every action property of a passing run has its theorem.

## 7. Where code and documentation disagree

Kept as runs, each with a finding in `PROJECT.json`: `PluginManagerCleanup`,
`SchedulerDeadlock`, `EventsDead`, `NetworkBadNic`, `WorkloadLink`.

Others that TLC showed while the models were written. The passing runs exclude
them by a constant or do not list the property; the last column brings them
back.

| code | what happens | documented | instance |
|---|---|---|---|
| pluginmanager.go:690-701, 909-923 | a removal that comes before the monitor is registered finds nothing to stop; the monitor of the removed plugin runs on and relaunches it | "stops the given plugin, all of its schedulers and removes it" at 783-784 | `OnlyManagedIsMonitored`, `SpacedRequests = FALSE` |
| pluginmanager.go:852, pluginengine.go:228 | the relaunch of `applyConfig` and that of the monitor run at once: two processes | "Run stop to make sure plugin process is not alive" at pluginengine.go:228 | `AtMostOneProcess`, `"APPLY" \in Actions`, 2 pids |
| pluginlauncher.go:109-191 | a crash between launch and `Store` loses the pid, the next agent launches a second process | "only one of them can be running" at pluginmanager.go:761-762 | `AtMostOneProcess`, `MaxRestarts = 1` |
| pluginmanager.go:852-855 | a failed relaunch in `applyConfig` sends no event | "sends events on success or failure" at 805-806 | visible in `applied` |
| pluginmanager.go:537-541 | a remove request that installs the local revision is counted as failed | 106-107 | visible in `installed` |
| cleanup.go:100-105 | directories are chosen under the lock and removed after it: an install in between loses its directory | 66-68 | `MaxScans = 1` |
| scheduler.go:156-174 | two `ScheduleJob` for one id start two goroutines | `scheduler_test.go:97` | `OneRunPerJob`, `Exclusive = FALSE` |
| scheduler.go:214-220 | a job that ends between the two lookups of `UnscheduleJob` is a nil dereference | `scheduler_test.go:144` | `~panicked`, `MayEnd = TRUE` |
| events.go:310-341, 410-413 | `AddWatcher` during the launching loop starts an event type twice | comment of `AddWatcher` | `"add in launch" \in Allow` |
| events.go:287, 410 | a watcher removed before `Run` is launched by it | comment of `RemoveWatcher` | `RemovedAreTold`, `"remove before run" \in Allow` |
| events.go:165-185 | a watcher added again while its first goroutine ends is dropped from the queue | "when it gets to len() down to zero means all watchers are done" | `"re-add" \in Allow` |
| client.go:204-210 | the client of a failed `NewConnection` is dropped without `Close` | - | clients in `openClients` that are not cached |
| client.go:222-230 | between `connect` and the use of the stream another user stores the nil of a failed reconnect | "Make sure connection is set before sending message." at 221 | `NilIsNotUsed` |
| compat manager watcher.go:75-96 | on Windows, stopping a service that is stopped is an error, so a switch that failed half way fails at that step for ever | "This will allow us to retry" at 93-95 | `SwitchIsRetried`, `Idempotent = FALSE` |
| diagnostics_windows.go:157, 210 | the entries seen are read under one registry key and written under another | "Check if we've dealt with this entry already." at 148 | `DiagnosticsOnce` |
| oslogin_linux.go:695-718 | a roll back that fails closes the pipe handler although sshd is still configured to ask it | "only stop responding ... when all user's configuration is rolled back" at 693-694 | `PipeIsAnswered` |
| pipewatcher_linux.go:147-154 | the context is cancelled between the check and the send: the goroutine of `Run` is gone and the send blocks for ever | "if so lets just return from here and unregister the watcher" at 145-146 | `RemovedRunReturns` |
| snapshot_linux.go:314-321, 469 | a repeated pre request passes `Get` before `Put` and overwrites the cancel function of the first watchdog | "avoid repeated execution" at 320, "post.sh is automatically executed" at 460-463 | `FrozenDisksThaw`, `PreCopies = 2` |
| networkd_linux.go:632 | the flag of the last NIC overwrites that of the others: rolled back files stay loaded | - | `RolledBackIsUnloaded` |
| network.go:163-180 | an error of `NewConfigs` leaves `failedSetup` false and `prevMetadata` new: nothing is retried | - | `FailureIsRetried` |
| netplan_linux.go:185, 430 | on Debian 12 drop-ins are written with a prefix and rolled back without it | - | `OneManagerConfigures`, `NamePrefix = TRUE` |
| guest_net_telemetry plugin.go:383-391 | `collectionPaused` is one flag for all workers: an old worker's pause hides the new one's collection, and the reverse | "While no collectors are enabled, it returns Code 0 with pausedStatus." | `PausedIsReported`, `MaxNtStarts = 2`, `MaxDue = 0` |
| guest_net_telemetry plugin.go:345-357 | a worker that failed waits for `mu` while `Stop` and `Start` run, then clears the `cancel` of the new worker | - | `WorkersCanBeStopped`, `MaxNtStarts = 2` |
| guest_net_telemetry reporter.go:182-186, scheduler.go:71-95 | a collector that is blocked on the channel while its batch is reported and pruned emits the tick it has held for an old due time: that is reported again | "so late stragglers (> BatchTimeout) are dropped instead of opening a duplicate partial batch" at reporter.go:124-125; "so concurrent collector completions at shared ticks never block Scheduler goroutines" at plugin.go:62-64 | `ReportedOnce`, `Stalls = TRUE`, `MaxDue = 6` |
| core plugin service.go:199-200 | `Plugin.Start` repeats the request (plugin.go:401-405); `Stop` cancels only the last context | "implements core plugin stop workflow" at 221 | `StopEndsPlugin`, `MaxStarts = 2` |

| snapshot_linux.go:322, 392-408, 420-438 | a `post.sh` that is missing, fails or times out leaves the disks frozen: the watchdog is cancelled before it, and the operation counts as seen | "post.sh is automatically executed" at 460-463 | `FrozenDisksThaw` without `postFailed` |
| events.go:297, 381-383, oslogin_linux.go:702 | after a cancel the runner's own send takes the only listener; a callback of OS Login that calls `RemoveWatcher` then waits for ever, and with it `Run` and the stop of the core plugin | "it will block until all watchers have given up/failed" at events.go:390-391 | `RunEnds` without `Stuck`, `StopEndsPlugin` without "blocked" |
| metadatasshkey_linux.go:102-104, 119-122 | for an account without a login shell, and when `os.Remove` fails, `updateSSHKeys` returns nil and the old keys stay | - | `RecordedUsersHaveTheirKeys` without `leftAlone` |
| mtls_mds_windows.go:98-107, mtls_mds_linux.go:66-68 | what cannot be removed is only logged: a client file of an old root beside a new root | "ensure that any stale credentials are removed" at mtls_mds_windows.go:64-65 | `ClientIsVerified` without `clientKept` |
| networkd_linux.go:66-74 | only the active manager is configured: after a restart with another manager networkd is rolled back in its default directory and what is in the configured one stays | - | `OneManagerConfigures` without `DirIsKnown` |
| plugindisabler.go:113-117, 148-151 | a state file that cannot be removed is only logged, REMOVED is reported, and the next start loads the plugin | "Cleanup removes all known paths associated with this plugin" at 123 | `ReportsAreTrue` without `keptFiles` |
| pluginlauncher.go:189-194, pluginmanager.go:186-196, compat manager watcher.go:164-177 | the state of a local plugin is not stored, so the manager that `ggactl` and the compat manager make for the purpose knows no core plugin, and stops none | "Stops the guest agent core plugin." at `ggactl` coreplugin.go:49 | visible in `effect` of `CompatManager` |
| google-guest-agent.service:20 (`KillMode=process`), compat manager watcher.go:164-177 | a manager that dies leaves its core plugin behind; no operation of a switch ends it, so it runs beside the legacy agent | - | `LegacyRunsAlone` |
| certrefresh.go:163, refresher_linux.go:35-39, refresher.go:549-573 | a refresh in the second of another rewrites the directory that is published; one that fails leaves half of it | "Only rotate on success of all steps above." at refresher.go:358 | `AnyLinkLeadsToCredentials` |

Seen while reading, visible in the actions but without a property: `rollback`
of netplan reloads only with a backend that `Setup` left behind
(netplan_linux.go:467-480); dhclient removes and keeps VLANs of the new
configuration only (dhclient_linux.go:223); a VLAN drop-in is compared with an
empty one (networkd_linux.go:762-768) and never rolled back; an error of
`IsManaging` passes the NICs to the next manager (manager_linux.go:133-137);
`wsfcEnabled` is never reset (network.go:174); a failed listen leaves the
command monitor set up without a listener (command_monitor.go:81-97); a failed
service restart of OS Login and a failed SSH key setup are not repeated
(oslogin_linux.go:385, metadatasshkey.go:141); an account made before a crash is
not recorded, so it is never deprovisioned; a watchdog of a snapshot lives in
memory and dies with the process; an empty identity UUID counts as "first"
again (refresher.go:604); a `pre.sh` that froze disks and then fails starts no
watchdog (snapshot_linux.go:392-408, 460-470), but what a script that fails has
done is not known and not modelled; errors of a roll back of networkd are
swallowed (networkd_linux.go:622-630); a client certificate stays in the store
after a crash, and two jobs that overlap may leave file, PFX and store with
different certificates (mtls_mds_windows.go). Not in the actions: OS Login that
is switched off and on makes a new pipe handle with a `waitingWrite` of its own
while an event of the old one may be open (oslogin_linux.go:403-411);
`PipeWatcher` has one handle, and `OneAnswerAtATime` is about one.

## 8. Not modelled

`PROJECT.json` ("components") lists every part with its status and the reason.
Out of scope for good are calls of the operating system without state of their
own (UEFI, serial port, cgroups), parsers, loggers, generated code (about 8,000
of the lines), mocks, one-shot command line programs and the test server.
Windows variants of network, routes and accounts are sequences of system calls
without the interleavings of their Linux counterparts. Within the modelled
parts: one-shot plugins, `RemoveAllDynamicPlugins`, `cleanupOldState`; metric
recording; the arithmetic of the backoff; the text of files and messages.
Left for lack of new behaviour: the guest telemetry extension (the loop of
`NetTelemetry` without batches), hostname and DNS probe.

## 9. Plan

1. `Wsfc`: the health check agent that starts and stops on metadata events
   against its open connections.
2. A composition of `EventsManager` with `OsLogin` and `PipeWatcher` over one
   `RemoveWatcher`, in place of the interface each of them has of its own.
3. `RemoveAllDynamicPlugins` and one-shot plugins in `PluginManager`.

Theorems: `OneProcessPerPlugin` with restarts, for a property that exempts the
window between launch and `Store`.
