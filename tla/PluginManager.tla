---------------------------- MODULE PluginManager ----------------------------
(***************************************************************************)
(* The plugin manager of the guest agent (internal/plugin/manager): the    *)
(* requests ACS sends for a plugin (install, upgrade, remove, apply), the  *)
(* health monitor of each running plugin, the daily cleanup job, and agent *)
(* restarts, all of them interleaved.                                      *)
(*                                                                         *)
(* A slot s is one request the manager accepts (or one plugin it loads     *)
(* from disk after a restart) and also names the *Plugin object that the   *)
(* request creates: reinstalling a revision makes a new object, so a       *)
(* goroutine that still holds the old one acts on other state.  Every slot *)
(* has two threads, Req(s), the goroutine of configurePlugin, and Mon(s),  *)
(* the health monitor of the object s.                                     *)
(***************************************************************************)
EXTENDS PluginEngine, Naturals, FiniteSets

CONSTANTS
    Names,        \* plugin names
    Revs,         \* plugin revisions
    Slots,        \* requests the environment sends, at most
    Pids,         \* process ids of the operating system
    None,         \* the absence of a value (nil, pid 0, no file)
    Corrupt,      \* a state file that does not decode
    Actions,      \* the requests ACS sends: \subseteq ActionKind
    LocalRev,     \* [Names -> Revs \cup {None}]: manifests there may be in LocalPluginDir
    SpacedRequests, \* ACS sends nothing for a plugin whose monitor still starts
    Uds,          \* whether new plugins are launched on unix sockets
    Shutdowns,    \* whether the context of the agent may be cancelled
    MaxRestarts,  \* bound on agent restarts
    MaxScans      \* bound on runs of the cleanup job

\* The requests; "OTHER" stands for every action the manager does not know.
ActionKind == {"INSTALL", "REMOVE", "APPLY", "OTHER"}

ASSUME ConstantsAssumption ==
    /\ Actions \subseteq ActionKind
    /\ LocalRev \in [Names -> Revs \cup {None}]
    /\ None \notin Names \cup Revs \cup Slots \cup Pids
    /\ None \notin {"install", "prelaunch", "replace", "remove", "apply", "load"}
    /\ {SpacedRequests, Uds, Shutdowns} \subseteq BOOLEAN
    /\ MaxRestarts \in Nat /\ MaxScans \in Nat

\* No full name, no event and no state file stands for the absence of one.
ASSUME NoneAssumption ==
    /\ None \notin Names \X Revs
    /\ None \notin {"INSTALLED", "INSTALL_FAILED", "REMOVED"}
    /\ None \notin [rev : Revs, pid : Pids \cup {None}] \cup {Corrupt}

VARIABLES
    \* The memory of the manager.
    plugins,      \* PluginManager.plugins: name -> object
    inProgress,   \* inProgressPluginRequests
    monitors,     \* pluginMonitors: full names with a registered monitor
    jobs,         \* Scheduler.jobs: full name -> object whose monitor is scheduled
    obj,          \* the mutable fields of each Plugin object
    \* The goroutines.
    pc,           \* where each thread is
    steps,        \* the steps its runSteps has still to run
    phase,        \* which call of runSteps a request is in
    curr,         \* the object a request found in plugins, if any
    req,          \* what each request asks for
    booting,      \* objects whose startPluginSchedulers has not finished
    report,       \* terminal event and requestCount entry of each request
    cancelled,    \* the context of the agent is cancelled
    \* The host.
    procs,        \* pid -> full name of the plugin binary it runs
    dirs,         \* install directories <name>_<revision>
    link,         \* static symlink of each plugin -> revision
    stateFile,    \* <name>.gob
    keptFiles,    \* plugins cleanup left a state file of, until an installation writes it
    stateDir,     \* plugins with a state directory
    \* The cleanup job and restarts.
    doomed,       \* directories the running cleanup job has marked
    scans, restarts

memory  == <<plugins, inProgress, monitors, jobs, obj>>
host    == <<procs, dirs, link, stateFile, keptFiles, stateDir>>
control == <<pc, steps, phase, curr, req, booting, report, cancelled>>
chores  == <<doomed, scans, restarts>>
vars    == <<memory, control, host, chores>>

-----------------------------------------------------------------------------
Req(s) == <<"req", s>>
Mon(s) == <<"mon", s>>
Threads == {"req", "mon"} \X Slots

FullNames == Names \X Revs

\* Plugin.FullName().
FullName(s) == <<req[s].name, req[s].rev>>

\* The object that thread t runs its steps on.
Target(t) ==
    IF t[1] = "req" /\ phase[t[2]] \in {"replace", "remove", "apply"}
      THEN curr[t[2]] ELSE t[2]

\* A process that runs the binary of the object o under the pid o recorded.
Alive(o) == obj[o].pid # None /\ procs[obj[o].pid] = FullName(o)

\* What Store encodes of the object o.
Encoded(o) == [rev |-> req[o].rev, pid |-> obj[o].pid]

NewObj == [status |-> "UNSPECIFIED", pid |-> None, client |-> FALSE,
           pending |-> None, uds |-> Uds]

NoReq == [name |-> None, rev |-> None, local |-> FALSE, action |-> None]

NoReport == [event |-> None, verdict |-> None]

Init ==
    /\ plugins = [n \in Names |-> None]
    /\ inProgress = {}
    /\ monitors = {}
    /\ jobs = [f \in FullNames |-> None]
    /\ obj = [s \in Slots |-> NewObj]
    /\ pc = [t \in Threads |-> IF t[1] = "req" THEN "free" ELSE "off"]
    /\ steps = [t \in Threads |-> <<>>]
    /\ phase = [s \in Slots |-> None]
    /\ curr = [s \in Slots |-> None]
    /\ req = [s \in Slots |-> NoReq]
    /\ booting = {}
    /\ report = [s \in Slots |-> NoReport]
    /\ cancelled = FALSE
    /\ procs = [p \in Pids |-> None]
    /\ dirs = {}
    /\ link = [n \in Names |-> None]
    /\ stateFile = [n \in Names |-> None]
    /\ keptFiles = {}
    /\ stateDir = {}
    /\ doomed = {}
    /\ scans = 0
    /\ restarts = 0

-----------------------------------------------------------------------------
(***************************************************************************)
(* Control shorthands.  Goto changes where a thread is and nothing else;   *)
(* RunSteps enters runSteps with a workflow.                               *)
(***************************************************************************)
Goto(t, l) == pc' = [pc EXCEPT ![t] = l]

RunSteps(t, workflow) ==
    /\ steps' = [steps EXCEPT ![t] = workflow]
    /\ Goto(t, "run")

\* The setters of a Plugin object.
setState(o, v) == obj' = [obj EXCEPT ![o].status = v]
setPid(o, v) == obj' = [obj EXCEPT ![o].pid = v]
setPendingStatus(o, v) == obj' = [obj EXCEPT ![o].pending = v]

\* The last event of a request and the outcome configurePlugin counts for it.
Report(s, event, verdict) ==
    report' = [report EXCEPT ![s] = [event |-> event, verdict |-> verdict]]

\* The request is over but for the deferred delete of inProgress.
Conclude(s, event, verdict) ==
    /\ Report(s, event, verdict)
    /\ Goto(Req(s), "finish")

-----------------------------------------------------------------------------
(***************************************************************************)
(* Requests.                                                               *)
(***************************************************************************)

\* The schedulers of every object of plugin n are started or not wanted.
Settled(n) == \A s \in booting : req[s].name # n

\* Faulty variant: marks keyed by the full name of the plugin.
filterByFullName(s) ==
    \E n \in Names, a \in Actions, r \in Revs \cup {None} :
        /\ pc[Req(s)] = "free"
        /\ <<n, r>> \notin inProgress
        /\ (r # None) <=> (a = "INSTALL")
        /\ inProgress' = inProgress \cup {<<n, r>>}
        /\ req' = [req EXCEPT ![s] =
                     [name |-> n, rev |-> r, local |-> FALSE, action |-> a]]
        /\ Goto(Req(s), "dispatch")
        /\ UNCHANGED <<plugins, monitors, jobs, obj, steps, phase, curr,
                       booting, report, cancelled, host, chores>>

\* filterPendingPluginRevisions: a request for a plugin that has one in
\* progress is dropped; any other one marks the plugin and gets a goroutine.
filterPendingPluginRevisions(s) ==
    \E n \in Names, a \in Actions, r \in Revs \cup {None} :
        /\ pc[Req(s)] = "free"
        /\ n \notin inProgress
        /\ SpacedRequests => Settled(n)
        /\ (r # None) <=> (a = "INSTALL")
        /\ inProgress' = inProgress \cup {n}
        /\ req' = [req EXCEPT ![s] =
                     [name |-> n, rev |-> r, local |-> FALSE, action |-> a]]
        /\ Goto(Req(s), "dispatch")
        /\ UNCHANGED <<plugins, monitors, jobs, obj, steps, phase, curr,
                       booting, report, cancelled, host, chores>>

\* installPlugin up to the first runSteps, for the revision r.
installPlugin(s, r, local) ==
    LET n == req[s].name
        c == plugins[n] IN
    /\ req' = [req EXCEPT ![s].rev = r, ![s].local = local]
    /\ \/ /\ c # None /\ req[c].rev = r
          /\ Conclude(s, "INSTALL_FAILED", "failure")
          /\ UNCHANGED <<plugins, obj, phase, curr, steps>>
       \/ /\ c # None /\ req[c].rev # r           \* upgradePlugin
          /\ curr' = [curr EXCEPT ![s] = c]
          /\ setPendingStatus(c, r)
          /\ phase' = [phase EXCEPT ![s] = "prelaunch"]
          /\ RunSteps(Req(s), preLaunchWorkflow(local))
          /\ UNCHANGED <<plugins, report>>
       \/ /\ c = None                             \* runlaunchPluginSteps
          /\ plugins' = [plugins EXCEPT ![n] = s]
          /\ phase' = [phase EXCEPT ![s] = "install"]
          /\ RunSteps(Req(s), generateInstallWorkflow(local))
          /\ UNCHANGED <<obj, curr, report>>

\* removePlugin up to stopMonitoring.
removePlugin(s) ==
    LET c == plugins[req[s].name] IN
    /\ IF c = None
         THEN /\ Conclude(s, "REMOVE_FAILED", "failure")
              /\ UNCHANGED <<phase, curr>>
         ELSE /\ curr' = [curr EXCEPT ![s] = c]
              /\ phase' = [phase EXCEPT ![s] = "remove"]
              /\ Goto(Req(s), "unmonitor")
              /\ UNCHANGED report
    /\ UNCHANGED <<plugins, obj, req, steps>>

\* configurePlugin: what each action of a request starts with.  A remove
\* request for a plugin with a local manifest installs that one instead.
configurePlugin(s) ==
    LET n == req[s].name IN
    /\ pc[Req(s)] = "dispatch"
    /\ \/ /\ req[s].action = "INSTALL"
          /\ installPlugin(s, req[s].rev, FALSE)
       \/ /\ req[s].action = "REMOVE"
          /\ \/ /\ LocalRev[n] # None
                /\ installPlugin(s, LocalRev[n], TRUE)
             \/ removePlugin(s)
             \/ \* GetLocalPlugin fails on an unreadable manifest.
                /\ Conclude(s, None, "failure")
                /\ UNCHANGED <<plugins, obj, req, steps, phase, curr>>
       \/ /\ req[s].action = "OTHER"
          /\ Conclude(s, None, "failure")
          /\ UNCHANGED <<plugins, obj, req, steps, phase, curr>>
    /\ UNCHANGED <<inProgress, monitors, jobs, booting, cancelled, host, chores>>

\* applyConfig up to the Apply RPC: the plugin is looked up and its new
\* configuration is stored in its state file.
applyConfig(s) ==
    LET n == req[s].name
        c == plugins[n] IN
    /\ pc[Req(s)] = "dispatch"
    /\ req[s].action = "APPLY"
    /\ \/ /\ c = None
          /\ Conclude(s, "APPLY_FAILED", "failure")
          /\ UNCHANGED <<phase, curr, stateFile>>
       \/ /\ c # None
          /\ curr' = [curr EXCEPT ![s] = c]
          /\ phase' = [phase EXCEPT ![s] = "apply"]
          /\ Goto(Req(s), "apply")
          /\ stateFile' = IF req[c].local THEN stateFile
                          ELSE [stateFile EXCEPT ![n] = Encoded(c)]
          /\ UNCHANGED report
       \/ /\ c # None                             \* setConfig or Store fails
          /\ Conclude(s, "APPLY_FAILED", "failure")
          /\ \E v \in {stateFile[n], Corrupt} :
                 /\ req[c].local => v = stateFile[n]
                 /\ stateFile' = [stateFile EXCEPT ![n] = v]
          /\ UNCHANGED <<phase, curr>>
    /\ UNCHANGED <<memory, steps, req, booting, cancelled,
                   procs, dirs, link, keptFiles, stateDir, chores>>

\* The Apply RPC: it succeeds, fails, or the plugin does not implement it,
\* in which case the plugin is relaunched.
Apply(s) ==
    /\ pc[Req(s)] = "apply"
    /\ \/ /\ obj[curr[s]].client /\ Alive(curr[s])
          /\ Conclude(s, "APPLIED", "success")
          /\ UNCHANGED steps
       \/ /\ Conclude(s, "APPLY_FAILED", "failure")
          /\ UNCHANGED steps
       \/ /\ obj[curr[s]].client /\ Alive(curr[s])
          /\ RunSteps(Req(s), relaunchWorkflow)
          /\ UNCHANGED report
    /\ UNCHANGED <<memory, phase, curr, req, booting, cancelled, host, chores>>

\* Faulty variant: the monitor is deregistered but its job is left scheduled.
deregisterOnly(s) ==
    /\ pc[Req(s)] = "unmonitor"
    /\ monitors' = monitors \ {FullName(curr[s])}
    /\ RunSteps(Req(s), <<"remove">>)
    /\ UNCHANGED <<plugins, inProgress, jobs, obj, phase, curr, req, booting,
                   report, cancelled, host, chores>>

\* stopMonitoring takes the monitor out of pluginMonitors; one that is not
\* registered (yet) is left alone.
stopMonitoring(s) ==
    LET f == FullName(curr[s]) IN
    /\ pc[Req(s)] = "unmonitor"
    /\ monitors' = monitors \ {f}
    /\ IF f \in monitors
         THEN /\ Goto(Req(s), "unschedule")
              /\ UNCHANGED steps
         ELSE RunSteps(Req(s), <<"remove">>)
    /\ UNCHANGED <<plugins, inProgress, jobs, obj, phase, curr, req, booting,
                   report, cancelled, host, chores>>

\* Scheduler.UnscheduleJob: the unbuffered interrupt is received only between
\* two runs of the job, so a health check that has begun is waited for.
UnscheduleJob(s) ==
    LET f == FullName(curr[s])
        j == jobs[f] IN
    /\ pc[Req(s)] = "unschedule"
    /\ \/ /\ j = None
          /\ pc' = [pc EXCEPT ![Req(s)] = "run"]
          /\ UNCHANGED jobs
       \/ /\ j # None
          /\ pc[Mon(j)] \in {"idle", "register"}
          /\ pc' = [pc EXCEPT ![Req(s)] = "run",
                              ![Mon(j)] = IF @ = "idle" THEN "gone" ELSE @]
          /\ jobs' = [jobs EXCEPT ![f] = None]
    /\ steps' = [steps EXCEPT ![Req(s)] = <<"remove">>]
    /\ UNCHANGED <<plugins, inProgress, monitors, obj, phase, curr, req,
                   booting, report, cancelled, host, chores>>

-----------------------------------------------------------------------------
(***************************************************************************)
(* runSteps and the steps.  The thread t runs Head(steps[t]) on the object *)
(* Target(t); a thread at "run" with no steps left has run them all.       *)
(***************************************************************************)

\* A step returns nil, or an error after which runSteps gives up.
StepDone(t) ==
    /\ steps' = [steps EXCEPT ![t] = Tail(@)]
    /\ Goto(t, "run")

StepFails(t) ==
    /\ steps' = [steps EXCEPT ![t] = <<>>]
    /\ Goto(t, "failed")

FailedObj(t) == [obj[Target(t)] EXCEPT !.status = StepErrorStatus(Head(steps[t]))]

OnlySteps == UNCHANGED <<plugins, inProgress, monitors, jobs, phase, curr, req,
                         booting, report, cancelled, chores>>

\* The head of the loop of runSteps: the new status, then the context check.
runSteps(t) ==
    LET step == Head(steps[t]) IN
    /\ pc[t] = "run" /\ steps[t] # <<>>
    /\ IF cancelled
         THEN /\ setState(Target(t), StepErrorStatus(step))
              /\ StepFails(t)
         ELSE /\ setState(Target(t), StepStatus(step))
              /\ Goto(t, "exec")
              /\ UNCHANGED steps
    /\ OnlySteps /\ UNCHANGED host

Executes(t, kinds) == pc[t] = "exec" /\ Head(steps[t]) \in kinds

\* downloadStep.Run: fetches the archive and compares its checksum.
downloadStep(t) ==
    /\ Executes(t, {"download"})
    /\ \/ StepDone(t) /\ UNCHANGED obj
       \/ StepFails(t) /\ obj' = [obj EXCEPT ![Target(t)] = FailedObj(t)]
    /\ OnlySteps /\ UNCHANGED host

\* unpackStep.Run: empties the install directory and unpacks into it; a
\* failure may leave no directory or an incomplete one.
unpackStep(t) ==
    LET f == FullName(Target(t)) IN
    /\ Executes(t, {"unpack"})
    /\ \/ /\ StepDone(t)
          /\ dirs' = dirs \cup {f}
          /\ UNCHANGED obj
       \/ /\ StepFails(t)
          /\ dirs' \in {dirs \ {f}, dirs \cup {f}}
          /\ obj' = [obj EXCEPT ![Target(t)] = FailedObj(t)]
    /\ OnlySteps /\ UNCHANGED <<procs, link, stateFile, keptFiles, stateDir>>

\* stopPlugin: the process is asked to stop and then killed, unless it is
\* gone or its pid belongs to another binary.
stopPlugin(t) ==
    LET o == Target(t) IN
    /\ Executes(t, {"stop", "remove"})
    /\ procs' = IF Alive(o) THEN [procs EXCEPT ![obj[o].pid] = None] ELSE procs
    /\ Goto(t, "mark")
    /\ OnlySteps /\ UNCHANGED <<obj, steps, dirs, link, stateFile, keptFiles, stateDir>>

\* stopStep.Run after stopPlugin: no client, STOPPED, pid 0.
markStopped(t) ==
    /\ pc[t] = "mark"
    /\ obj' = [obj EXCEPT ![Target(t)].client = FALSE,
                          ![Target(t)].status = "STOPPED",
                          ![Target(t)].pid = None]
    /\ IF Head(steps[t]) = "remove"
         THEN Goto(t, "clean") /\ UNCHANGED steps
         ELSE StepDone(t)
    /\ OnlySteps /\ UNCHANGED host

\* Faulty variant: nobody removes the state file.
cleanupKeepsFile(t) ==
    /\ pc[t] = "clean"
    /\ dirs' \in {dirs, dirs \ {FullName(Target(t))}}
    /\ StepDone(t)
    /\ OnlySteps /\ UNCHANGED <<obj, procs, link, stateFile, keptFiles, stateDir>>

\* cleanup: the install directory of a dynamic plugin and the state file; the
\* removal of either may fail, which is only logged.
cleanup(t) ==
    LET o == Target(t) IN
    /\ pc[t] = "clean"
    /\ dirs' \in IF req[o].local THEN {dirs} ELSE {dirs, dirs \ {FullName(o)}}
    /\ \/ /\ stateFile' = [stateFile EXCEPT ![req[o].name] = None]
          /\ keptFiles' = keptFiles \ {req[o].name}
       \/ /\ stateFile[req[o].name] # None
          /\ keptFiles' = keptFiles \cup {req[o].name}
          /\ UNCHANGED stateFile
    /\ StepDone(t)
    /\ OnlySteps /\ UNCHANGED <<obj, procs, link, stateDir>>

\* Faulty variant: an existing symlink is never moved to the new revision.
LinkedOnce(o) == IF req[o].local \/ link[req[o].name] # None THEN link
                 ELSE [link EXCEPT ![req[o].name] = req[o].rev]

\* The symlink of a dynamic plugin after UpdateSymlink.
Linked(o) == IF req[o].local THEN link
             ELSE [link EXCEPT ![req[o].name] = req[o].rev]

\* launchPlugin: a process under any free pid, recorded in the object.
Spawn(o, p) ==
    /\ procs[p] = None
    /\ procs' = [procs EXCEPT ![p] = FullName(o)]
    /\ setPid(o, p)

\* launchStep.Run up to launchPlugin: state directory, symlink, process.
launchStep(t) ==
    LET o == Target(t)
        n == req[o].name IN
    /\ Executes(t, {"launch"})
    /\ \/ /\ req[o].local \/ FullName(o) \in dirs
          /\ \E p \in Pids : Spawn(o, p)
          /\ stateDir' = stateDir \cup {n}
          /\ link' = Linked(o)
          /\ Goto(t, IF obj[o].uds THEN "socket" ELSE "connect")
          /\ UNCHANGED steps
       \/ /\ obj' = [obj EXCEPT ![o] = FailedObj(t)]
          /\ StepFails(t)
          /\ \/ stateDir' = stateDir \cup {n} /\ link' = Linked(o)
             \/ UNCHANGED <<stateDir, link>>
          /\ UNCHANGED procs
    /\ OnlySteps /\ UNCHANGED <<dirs, stateFile, keptFiles>>

\* The wait for the unix socket: when it does not appear the process is
\* killed and a new one is launched on TCP.
awaitSocket(t) ==
    LET o == Target(t)
        p == obj[o].pid
        killed == IF p = None THEN procs ELSE [procs EXCEPT ![p] = None] IN
    /\ pc[t] = "socket"
    /\ \/ /\ Goto(t, "connect")
          /\ UNCHANGED <<obj, steps, procs>>
       \/ \E q \in Pids :
             /\ killed[q] = None
             /\ procs' = [killed EXCEPT ![q] = FullName(o)]
             /\ obj' = [obj EXCEPT ![o].pid = q, ![o].uds = FALSE]
             /\ Goto(t, "connect")
             /\ UNCHANGED steps
       \/ /\ procs' = killed
          /\ \E u \in BOOLEAN :
                obj' = [obj EXCEPT ![o].uds = u, ![o].status = "CRASHED"]
          /\ StepFails(t)
    /\ OnlySteps /\ UNCHANGED <<dirs, link, stateFile, keptFiles, stateDir>>

\* Resource constraint, Connect and the Start RPC.
startPlugin(t) ==
    LET o == Target(t) IN
    /\ pc[t] = "connect"
    /\ \/ /\ Alive(o)
          /\ obj' = [obj EXCEPT ![o].client = TRUE, ![o].status = "RUNNING"]
          /\ Goto(t, "store")
          /\ UNCHANGED steps
       \/ /\ \E c \in {obj[o].client, TRUE} :
                obj' = [obj EXCEPT ![o].client = c, ![o].status = "CRASHED"]
          /\ StepFails(t)
    /\ OnlySteps /\ UNCHANGED host

\* Store, first half: local plugins are not stored; the state file of any other
\* one is opened, which truncates it.
openStateFile(t) ==
    LET o == Target(t) IN
    /\ pc[t] = "store"
    /\ \/ /\ req[o].local
          /\ StepDone(t)
          /\ UNCHANGED <<obj, stateFile, keptFiles>>
       \/ /\ ~req[o].local
          /\ stateFile' = [stateFile EXCEPT ![req[o].name] = Corrupt]
          /\ keptFiles' = IF phase[o] = "install" THEN keptFiles \ {req[o].name} ELSE keptFiles
          /\ Goto(t, "write")
          /\ UNCHANGED <<obj, steps>>
       \/ /\ ~req[o].local
          /\ setState(o, "CRASHED")
          /\ StepFails(t)
          /\ UNCHANGED <<stateFile, keptFiles>>
    /\ OnlySteps /\ UNCHANGED <<procs, dirs, link, stateDir>>

\* Store, second half: the encoded plugin is written.
writeStateFile(t) ==
    LET o == Target(t) IN
    /\ pc[t] = "write"
    /\ \/ /\ stateFile' = [stateFile EXCEPT ![req[o].name] = Encoded(o)]
          /\ StepDone(t)
          /\ UNCHANGED obj
       \/ /\ setState(o, "CRASHED")
          /\ StepFails(t)
          /\ UNCHANGED stateFile
    /\ OnlySteps /\ UNCHANGED <<procs, dirs, link, keptFiles, stateDir>>

\* connectOrReLaunch: reconnect and ask for the status; a plugin that does
\* not answer is stopped and launched again.
connectOrReLaunch(t) ==
    LET o == Target(t) IN
    /\ pc[t] = "check"
    /\ \/ /\ Alive(o)
          /\ obj' = [obj EXCEPT ![o].client = TRUE, ![o].status = "RUNNING"]
          /\ RunSteps(t, <<>>)
       \/ /\ obj' = [obj EXCEPT ![o].client = TRUE]
          /\ RunSteps(t, relaunchWorkflow)
    /\ OnlySteps /\ UNCHANGED host

Step(t) ==
    \/ runSteps(t) \/ downloadStep(t) \/ unpackStep(t)
    \/ stopPlugin(t) \/ markStopped(t) \/ cleanup(t)
    \/ launchStep(t) \/ awaitSocket(t) \/ startPlugin(t)
    \/ openStateFile(t) \/ writeStateFile(t)
    \/ connectOrReLaunch(t)

-----------------------------------------------------------------------------
(***************************************************************************)
(* What a request does when its runSteps returns.                          *)
(***************************************************************************)
StepsDone(s, p) == phase[s] = p /\ pc[Req(s)] = "run" /\ steps[Req(s)] = <<>>

StepsFailed(s, p) == phase[s] = p /\ pc[Req(s)] = "failed"

\* The deferred resetPendingStatus of upgradePlugin.
resetPendingStatus(s) ==
    obj' = IF curr[s] = None THEN obj ELSE [obj EXCEPT ![curr[s]].pending = None]

\* runlaunchPluginSteps, success: the schedulers start in a goroutine of their
\* own.  A remove request that installed the local revision counts as failed.
installed(s) ==
    /\ StepsDone(s, "install")
    /\ booting' = booting \cup {s}
    /\ pc' = [pc EXCEPT ![Req(s)] = "finish", ![Mon(s)] = "schedule"]
    /\ Report(s, "INSTALLED",
              IF req[s].action = "INSTALL" THEN "success" ELSE "failure")
    /\ resetPendingStatus(s)
    /\ UNCHANGED <<plugins, inProgress, monitors, jobs, steps, phase, curr, req,
                   cancelled, host, chores>>

\* Faulty variant: the plugin stays in the map.
installFailedKeepsPlugin(s) ==
    LET p == obj[s].pid IN
    /\ StepsFailed(s, "install")
    /\ procs' = IF p = None THEN procs ELSE [procs EXCEPT ![p] = None]
    /\ Conclude(s, "INSTALL_FAILED", "failure")
    /\ resetPendingStatus(s)
    /\ UNCHANGED <<plugins, inProgress, monitors, jobs, steps, phase, curr, req,
                   booting, cancelled, dirs, link, stateFile, keptFiles, stateDir, chores>>

\* runlaunchPluginSteps, failure: forget the plugin and kill its process.
installFailed(s) ==
    LET p == obj[s].pid IN
    /\ StepsFailed(s, "install")
    /\ plugins' = [plugins EXCEPT ![req[s].name] = None]
    /\ procs' = IF p = None THEN procs ELSE [procs EXCEPT ![p] = None]
    /\ Conclude(s, "INSTALL_FAILED", "failure")
    /\ resetPendingStatus(s)
    /\ UNCHANGED <<inProgress, monitors, jobs, steps, phase, curr, req, booting,
                   cancelled, dirs, link, stateFile, keptFiles, stateDir, chores>>

\* Faulty variant: the error of the pre-launch steps is ignored.
preLaunchedAnyway(s) ==
    /\ StepsDone(s, "prelaunch") \/ StepsFailed(s, "prelaunch")
    /\ phase' = [phase EXCEPT ![s] = "replace"]
    /\ Goto(Req(s), "unmonitor")
    /\ UNCHANGED <<memory, steps, curr, req, booting, report, cancelled, host,
                   chores>>

\* upgradePlugin: only a revision that is ready to launch replaces the old one.
preLaunched(s) ==
    /\ StepsDone(s, "prelaunch")
    /\ phase' = [phase EXCEPT ![s] = "replace"]
    /\ Goto(Req(s), "unmonitor")
    /\ UNCHANGED <<memory, steps, curr, req, booting, report, cancelled, host,
                   chores>>

upgradeFailed(s) ==
    /\ StepsFailed(s, "prelaunch") \/ StepsFailed(s, "replace")
    /\ Conclude(s, "INSTALL_FAILED", "failure")
    /\ resetPendingStatus(s)
    /\ UNCHANGED <<plugins, inProgress, monitors, jobs, steps, phase, curr, req,
                   booting, cancelled, host, chores>>

\* stopAndRemovePlugin of the old revision has deleted it from the manager ...
replaced(s) ==
    /\ StepsDone(s, "replace")
    /\ plugins' = [plugins EXCEPT ![req[s].name] = None]
    /\ Goto(Req(s), "launch")
    /\ UNCHANGED <<inProgress, monitors, jobs, obj, steps, phase, curr, req,
                   booting, report, cancelled, host, chores>>

\* ... and runlaunchPluginSteps adds the new one and launches it.
launchUpgrade(s) ==
    /\ pc[Req(s)] = "launch"
    /\ plugins' = [plugins EXCEPT ![req[s].name] = s]
    /\ phase' = [phase EXCEPT ![s] = "install"]
    /\ RunSteps(Req(s), <<"launch">>)
    /\ UNCHANGED <<inProgress, monitors, jobs, obj, curr, req, booting, report,
                   cancelled, host, chores>>

\* removePlugin after the stop: the state directory goes with the plugin.
removed(s) ==
    LET n == req[s].name IN
    /\ StepsDone(s, "remove")
    /\ plugins' = [plugins EXCEPT ![n] = None]
    /\ \/ stateDir' = stateDir \ {n} /\ Conclude(s, "REMOVED", "success")
       \/ n \in stateDir /\ Conclude(s, "REMOVED", "failure") /\ UNCHANGED stateDir
    /\ UNCHANGED <<inProgress, monitors, jobs, obj, steps, phase, curr, req,
                   booting, cancelled, procs, dirs, link, stateFile, keptFiles, chores>>

removeFailed(s) ==
    /\ StepsFailed(s, "remove")
    /\ Conclude(s, "REMOVE_FAILED", "failure")
    /\ UNCHANGED <<memory, steps, phase, curr, req, booting, cancelled, host,
                   chores>>

\* applyConfig after the relaunch; a relaunch that fails sends no event.
applied(s) ==
    /\ \/ StepsDone(s, "apply") /\ Conclude(s, "APPLIED", "success")
                                /\ UNCHANGED obj
       \/ /\ StepsFailed(s, "apply")
          /\ setState(curr[s], "CRASHED")
          /\ Conclude(s, None, "failure")
    /\ UNCHANGED <<plugins, inProgress, monitors, jobs, steps, phase, curr, req,
                   booting, cancelled, host, chores>>

\* The goroutine of InitPluginManager after connectOrReLaunch.
loaded(s) ==
    /\ \/ /\ StepsDone(s, "load")
          /\ booting' = booting \cup {s}
          /\ pc' = [pc EXCEPT ![Req(s)] = "finish", ![Mon(s)] = "schedule"]
          /\ UNCHANGED obj
       \/ /\ StepsFailed(s, "load")
          /\ setState(s, "CRASHED")
          /\ Goto(Req(s), "finish")
          /\ UNCHANGED booting
    /\ UNCHANGED <<plugins, inProgress, monitors, jobs, steps, phase, curr, req,
                   report, cancelled, host, chores>>

\* Faulty variant: a request that failed leaves its mark.
finishOnSuccess(s) ==
    /\ pc[Req(s)] = "finish"
    /\ inProgress' = IF report[s].verdict = "failure" THEN inProgress
                     ELSE inProgress \ {req[s].name}
    /\ Goto(Req(s), "done")
    /\ UNCHANGED <<plugins, monitors, jobs, obj, steps, phase, curr, req, booting,
                   report, cancelled, host, chores>>

\* The deferred function: the request is no longer in progress.
Finish(s) ==
    /\ pc[Req(s)] = "finish"
    /\ inProgress' = inProgress \ {req[s].name}
    /\ Goto(Req(s), "done")
    /\ UNCHANGED <<plugins, monitors, jobs, obj, steps, phase, curr, req, booting,
                   report, cancelled, host, chores>>

Request(s) ==
    \/ configurePlugin(s) \/ applyConfig(s) \/ Apply(s)
    \/ stopMonitoring(s)
    \/ installed(s) \/ installFailed(s)
    \/ preLaunched(s) \/ upgradeFailed(s) \/ replaced(s) \/ launchUpgrade(s)
    \/ removed(s) \/ removeFailed(s) \/ applied(s) \/ loaded(s)
    \/ Finish(s)
    \/ Step(Req(s))

-----------------------------------------------------------------------------
(***************************************************************************)
(* The health monitor.  startMonitoring runs the first health check inside *)
(* ScheduleJob, before the job is in the map of the scheduler and before   *)
(* the monitor is in pluginMonitors.                                       *)
(***************************************************************************)
OnlyMonitor == UNCHANGED <<plugins, inProgress, phase, curr, req, report,
                           cancelled, host, chores>>

\* Where the monitor goes when a run of its job returns.
AfterRun(s) == IF s \in booting THEN "add" ELSE "idle"

\* ScheduleJob: nothing to do if a job with this id is scheduled.
ScheduleJob(s) ==
    /\ pc[Mon(s)] = "schedule"
    /\ Goto(Mon(s), IF jobs[FullName(s)] # None THEN "register" ELSE "health")
    /\ OnlyMonitor /\ UNCHANGED <<monitors, jobs, obj, steps, booting>>

\* Scheduler.add, and the goroutine of runOnSchedule.
addJob(s) ==
    /\ pc[Mon(s)] = "add"
    /\ jobs' = [jobs EXCEPT ![FullName(s)] = s]
    /\ Goto(Mon(s), "register")
    /\ OnlyMonitor /\ UNCHANGED <<monitors, obj, steps, booting>>

\* The end of startMonitoring.
startMonitoring(s) ==
    /\ pc[Mon(s)] = "register"
    /\ monitors' = monitors \cup {FullName(s)}
    /\ booting' = booting \ {s}
    /\ Goto(Mon(s), IF jobs[FullName(s)] = s THEN "idle" ELSE "gone")
    /\ OnlyMonitor /\ UNCHANGED <<jobs, obj, steps>>

\* runOnSchedule: the ticker fires, or the context is cancelled.
runOnSchedule(s) ==
    /\ pc[Mon(s)] = "idle"
    /\ \/ Goto(Mon(s), "health") /\ UNCHANGED jobs
       \/ /\ cancelled
          /\ jobs' = [jobs EXCEPT ![FullName(s)] = None]
          /\ Goto(Mon(s), "gone")
    /\ OnlyMonitor /\ UNCHANGED <<monitors, obj, steps, booting>>

\* healthCheck: a plugin that is being stopped is not checked ...
healthCheck(s) ==
    /\ pc[Mon(s)] = "health"
    /\ Goto(Mon(s), IF obj[s].status \in {"STOPPING", "STOPPED"}
                      THEN AfterRun(s) ELSE "status")
    /\ OnlyMonitor /\ UNCHANGED <<monitors, jobs, obj, steps, booting>>

\* Faulty variant: a status that cannot be read is taken for a good one.
GetStatusIgnored(s) ==
    /\ pc[Mon(s)] = "status"
    /\ Goto(Mon(s), AfterRun(s))
    /\ OnlyMonitor /\ UNCHANGED <<monitors, jobs, obj, steps, booting>>

\* ... any other one has to answer GetStatus or is marked as crashed.
GetStatus(s) ==
    /\ pc[Mon(s)] = "status"
    /\ \/ /\ obj[s].client /\ Alive(s)
          /\ Goto(Mon(s), AfterRun(s))
          /\ UNCHANGED obj
       \/ /\ setState(s, "CRASHED")
          /\ Goto(Mon(s), "check")
    /\ OnlyMonitor /\ UNCHANGED <<monitors, jobs, steps, booting>>

\* Faulty variant: a relaunch that fails forgets the process it may have started.
relaunchedForgetsPid(s) ==
    /\ \/ pc[Mon(s)] = "run" /\ steps[Mon(s)] = <<>> /\ UNCHANGED obj
       \/ /\ pc[Mon(s)] = "failed"
          /\ obj' = [obj EXCEPT ![s].status = "CRASHED", ![s].pid = None]
    /\ Goto(Mon(s), AfterRun(s))
    /\ OnlyMonitor /\ UNCHANGED <<monitors, jobs, steps, booting>>

\* connectOrReLaunch returns to healthCheck.
relaunched(s) ==
    /\ \/ pc[Mon(s)] = "run" /\ steps[Mon(s)] = <<>> /\ UNCHANGED obj
       \/ pc[Mon(s)] = "failed" /\ setState(s, "CRASHED")
    /\ Goto(Mon(s), AfterRun(s))
    /\ OnlyMonitor /\ UNCHANGED <<monitors, jobs, steps, booting>>

\* The steps of a monitor that are not a new run of its job.
MonitorRun(s) ==
    \/ ScheduleJob(s) \/ addJob(s) \/ startMonitoring(s)
    \/ healthCheck(s) \/ GetStatus(s) \/ relaunched(s)
    \/ Step(Mon(s))

-----------------------------------------------------------------------------
(***************************************************************************)
(* The cleanup job (cleanup.go).                                           *)
(***************************************************************************)

\* PluginManager.Fetch finds a plugin under this key of the map.
Fetched(key) == key \in Names /\ plugins[key] # None

\* The directories retryFailedRemovals takes for leftovers when the requests
\* in busy are in progress: the lookup is by the name of the directory.
Leftovers(busy) == {f \in dirs : f[1] \notin busy /\ ~Fetched(f)}

\* retryFailedRemovals under the read lock ...
scanLeftovers ==
    /\ scans < MaxScans
    /\ doomed = {}
    /\ doomed' = Leftovers(inProgress)
    /\ scans' = scans + 1
    /\ UNCHANGED <<memory, control, host, restarts>>

\* ... and after it: link, directory and state file of one leftover.
removeLeftover ==
    \E f \in doomed :
        LET n == f[1] IN
        /\ doomed' = doomed \ {f}
        /\ dirs' = dirs \ {f}
        /\ stateFile' = [stateFile EXCEPT ![n] = None] /\ keptFiles' = keptFiles \ {n}
        /\ link' = IF link[n] = f[2] THEN [link EXCEPT ![n] = None] ELSE link
        /\ UNCHANGED <<memory, control, procs, stateDir, scans, restarts>>

-----------------------------------------------------------------------------
(***************************************************************************)
(* The environment: processes exit, the agent is told to stop, crashes and *)
(* starts again.                                                           *)
(***************************************************************************)
ProcessExits ==
    \E p \in Pids :
        /\ procs[p] # None
        /\ procs' = [procs EXCEPT ![p] = None]
        /\ UNCHANGED <<memory, control, dirs, link, stateFile, keptFiles, stateDir, chores>>

CancelContext ==
    /\ Shutdowns /\ ~cancelled
    /\ cancelled' = TRUE
    /\ UNCHANGED <<memory, pc, steps, phase, curr, req, booting, report, host,
                   chores>>

\* Which request slot loads which plugin after a restart.
Loaders(names) ==
    {ld \in [names -> {s \in Slots : pc[Req(s)] = "free"}] :
        \A m, n \in names : ld[m] = ld[n] => m = n}

\* Every goroutine of the old process is gone; the new ones check the plugins
\* that were loaded.
RestartedPc(loading) ==
    [t \in Threads |->
        IF t[1] = "mon" THEN (IF pc[t] = "off" THEN "off" ELSE "gone")
        ELSE IF t[2] \in loading THEN "check"
        ELSE IF pc[t] = "free" THEN "free" ELSE "done"]

\* The agent process ends at any point, the host possibly with it, and the
\* new one runs InitPluginManager: it loads the state files, starts the
\* cleanup job, and reconnects to or relaunches each plugin.
InitPluginManager ==
    LET names == {n \in Names : stateFile[n] # None} IN
    /\ restarts < MaxRestarts
    /\ \A n \in Names : stateFile[n] # Corrupt
    /\ \E ld \in Loaders(names) :
        LET loading == {ld[n] : n \in names}
            NameOf(s) == CHOOSE n \in names : ld[n] = s IN
        /\ plugins' = [n \in Names |-> IF n \in names THEN ld[n] ELSE None]
        /\ req' = [s \in Slots |-> IF s \notin loading THEN req[s] ELSE
                      [name |-> NameOf(s), rev |-> stateFile[NameOf(s)].rev,
                       local |-> FALSE, action |-> "LOAD"]]
        /\ obj' = [s \in Slots |-> IF s \notin loading THEN obj[s] ELSE
                      [NewObj EXCEPT !.pid = stateFile[NameOf(s)].pid]]
        /\ phase' = [s \in Slots |-> IF s \in loading THEN "load" ELSE phase[s]]
        /\ pc' = RestartedPc(loading)
    /\ inProgress' = names
    /\ steps' = [t \in Threads |-> <<>>]
    /\ monitors' = {}
    /\ jobs' = [f \in FullNames |-> None]
    /\ booting' = {}
    /\ cancelled' = FALSE
    /\ procs' \in {procs, [p \in Pids |-> None]}
    /\ \/ doomed' = {} /\ UNCHANGED scans
       \/ \* The first cleanup run comes before the plugins are marked.
          /\ scans < MaxScans
          /\ doomed' = Leftovers({})
          /\ scans' = scans + 1
    /\ restarts' = restarts + 1
    /\ UNCHANGED <<curr, report, dirs, link, stateFile, keptFiles, stateDir>>

\* A state file that does not decode makes load, and with it the whole
\* initialization, return an error: no plugin is managed any more.
InitFails ==
    /\ restarts < MaxRestarts
    /\ \E n \in Names : stateFile[n] = Corrupt
    /\ plugins' = [n \in Names |-> None]
    /\ inProgress' = {}
    /\ monitors' = {}
    /\ jobs' = [f \in FullNames |-> None]
    /\ booting' = {}
    /\ pc' = [t \in Threads |-> IF t[1] = "req" THEN "done" ELSE "gone"]
    /\ steps' = [t \in Threads |-> <<>>]
    /\ cancelled' = FALSE
    /\ procs' \in {procs, [p \in Pids |-> None]}
    /\ doomed' = {}
    /\ restarts' = restarts + 1
    /\ UNCHANGED <<obj, phase, curr, req, report, dirs, link, stateFile, keptFiles,
                   stateDir, scans>>

-----------------------------------------------------------------------------
Environment ==
    \/ scanLeftovers \/ removeLeftover
    \/ ProcessExits \/ CancelContext \/ InitPluginManager \/ InitFails

Next ==
    \/ \E s \in Slots :
          \/ filterPendingPluginRevisions(s)
          \/ Request(s) \/ UnscheduleJob(s)
          \/ MonitorRun(s) \/ runOnSchedule(s)
    \/ Environment

Spec == Init /\ [][Next]_vars

\* Goroutines that can run do run, tickers fire, and an interrupt that is offered
\* at every return of the job to its select is received in the end.
Fairness ==
    \A s \in Slots :
        /\ WF_vars(Request(s))
        /\ WF_vars(MonitorRun(s))
        /\ WF_vars(runOnSchedule(s))
        /\ SF_vars(UnscheduleJob(s))

FairSpec == Spec /\ Fairness

-----------------------------------------------------------------------------
(***************************************************************************)
(* Properties.                                                             *)
(***************************************************************************)
ReqPc == {"free", "dispatch", "apply", "unmonitor", "unschedule", "run", "exec",
          "mark", "clean", "socket", "connect", "store", "write", "check",
          "launch", "failed", "finish", "done"}

MonPc == {"off", "schedule", "health", "status", "check", "run", "exec", "mark",
          "clean", "socket", "connect", "store", "write", "failed", "add",
          "register", "idle", "gone"}

ReqType == [name : Names \cup {None}, rev : Revs \cup {None}, local : BOOLEAN,
            action : ActionKind \cup {"LOAD", None}]

ObjType == [status : StatusValue, pid : Pids \cup {None}, client : BOOLEAN,
            pending : Revs \cup {None}, uds : BOOLEAN]

FileType == [rev : Revs, pid : Pids \cup {None}] \cup {None, Corrupt}

EventType == {"INSTALLED", "INSTALL_FAILED", "REMOVED", "REMOVE_FAILED",
              "APPLIED", "APPLY_FAILED", None}

PhaseType == {"install", "prelaunch", "replace", "remove", "apply", "load", None}

\* Every variable of the manager, of its goroutines and of the host keeps its
\* type.
TypeOK ==
    /\ plugins \in [Names -> Slots \cup {None}]
    /\ inProgress \subseteq Names
    /\ monitors \subseteq FullNames
    /\ jobs \in [FullNames -> Slots \cup {None}]
    /\ obj \in [Slots -> ObjType]
    /\ pc \in [Threads -> ReqPc \cup MonPc]
    /\ \A s \in Slots : pc[Req(s)] \in ReqPc /\ pc[Mon(s)] \in MonPc
    /\ steps \in [Threads -> Seq(StepKind)]
    /\ phase \in [Slots -> PhaseType]
    /\ curr \in [Slots -> Slots \cup {None}]
    /\ req \in [Slots -> ReqType]
    /\ booting \subseteq Slots
    /\ report \in [Slots -> [event : EventType,
                             verdict : {"success", "failure", None}]]
    /\ cancelled \in BOOLEAN
    /\ procs \in [Pids -> FullNames \cup {None}]
    /\ dirs \subseteq FullNames
    /\ link \in [Names -> Revs \cup {None}]
    /\ stateFile \in [Names -> FileType]
    /\ keptFiles \subseteq Names
    /\ stateDir \subseteq Names
    /\ doomed \subseteq FullNames
    /\ scans \in Nat /\ restarts \in Nat

\* The request s is being processed.
Active(s) == pc[Req(s)] \notin {"free", "done"}

\* A plugin is marked in inProgressPluginRequests exactly while one request is
\* processed for it: no two requests of a plugin overlap, and no mark is leaked.
OneRequestPerPlugin ==
    /\ \A s \in Slots : Active(s) => req[s].name \in inProgress
    /\ \A n \in inProgress : \E s \in Slots : Active(s) /\ req[s].name = n
    /\ \A s1, s2 \in Slots :
          Active(s1) /\ Active(s2) /\ req[s1].name = req[s2].name => s1 = s2

\* Objects that are, or were, in the map: those of installs and loads.
Used == {s \in Slots : phase[s] \in {"install", "load"}}

Map == INSTANCE PluginMap WITH Objects <- Slots, held <- plugins, busy <- inProgress, used <- Used

\* The goroutines of requests, monitors, cleanup and restarts change PluginManager.plugins as
\* PluginMap says: behind a mark of inProgressPluginRequests, never over another object, and
\* never with an object that was in the map before.
MapIsGuarded == Map!Spec

\* No goroutine works on plugin n.
Quiet(n) ==
    /\ n \notin inProgress
    /\ \A s \in Slots :
          req[s].name = n => pc[Mon(s)] \in {"off", "idle", "gone"}

\* Between requests the manager lists no plugin that is half installed, and no
\* plugin with a pending revision (upgradePlugin defers resetPendingStatus).
NoHalfInstalledPlugin ==
    \A n \in Names \ inProgress : plugins[n] # None =>
        LET o == obj[plugins[n]] IN
        /\ o.status \notin {"INSTALLING", "INSTALL_FAILED"}
        /\ o.pending = None

\* An upgrade stops the running revision only once the new one is on disk, and
\* what it has unpacked is still there when it launches it.
ReadyBeforeReplacing ==
    \A s \in Slots :
        /\ Active(s) /\ ~req[s].local /\ curr[s] # None
        /\ phase[s] \in {"replace", "install"}
        => FullName(s) \in dirs

\* No plugin has two processes: relaunching and upgrading stop one before they
\* launch the next.
AtMostOneProcess ==
    \A p, q \in Pids :
        procs[p] # None /\ procs[q] # None /\ procs[p][1] = procs[q][1] => p = q

\* When nothing works on a plugin, a process of it is the one the manager has
\* recorded: stop and remove requests reach every process there is.
NoOrphanProcess ==
    \A p \in Pids :
        procs[p] # None /\ Quiet(procs[p][1]) =>
            LET o == plugins[procs[p][1]] IN
            o # None /\ obj[o].pid = p /\ FullName(o) = procs[p]

\* When no request is processed for a plugin, only the object the manager holds
\* has a monitor: stopAndRemovePlugin stops all schedulers of what it removes.
OnlyManagedIsMonitored ==
    \A s \in Slots :
        /\ pc[Mon(s)] \notin {"off", "gone"}
        /\ req[s].name \notin inProgress
        => plugins[req[s].name] = s

\* A dynamic plugin that is running and left alone is found again after an agent
\* restart: its state file, unless a write of it failed, names its revision, and
\* its symlink, its binary and its state directory are in place.  Not so a plugin
\* that was removed and came back from a state file cleanup could not remove.
RunningPluginIsDurable ==
    \A n \in Names :
        LET o == plugins[n] IN
        /\ Quiet(n) /\ o # None /\ n \notin keptFiles
        /\ ~req[o].local /\ obj[o].status = "RUNNING"
        => /\ stateFile[n] # None
           /\ stateFile[n] # Corrupt => stateFile[n].rev = req[o].rev
           /\ link[n] = req[o].rev
           /\ FullName(o) \in dirs
           /\ n \in stateDir

\* What a request reports is what it leaves behind: an installed plugin is the
\* one the manager holds, one that failed to install has left no process, and a
\* removed one has left no process and nothing to load after a restart, unless
\* cleanup could not remove its state file, which is only logged.
ReportsAreTrue ==
    \A s \in Slots : pc[Req(s)] = "finish" =>
        LET n == req[s].name
            e == report[s].event IN
        /\ e = "INSTALLED" => plugins[n] = s
        /\ e = "INSTALL_FAILED" => /\ plugins[n] # s
                                   /\ plugins[n] = None => \A p \in Pids : procs[p] # FullName(s)
        /\ e = "REMOVED" => /\ plugins[n] = None
                            /\ stateFile[n] = None \/ n \in keptFiles
                            /\ \A p \in Pids : procs[p] # None => procs[p][1] # n

\* The cleanup job leaves the install directory of a plugin that the manager holds,
\* and that no request is processed for, alone.
CleanupKeepsManagedPlugins ==
    [][\A f \in dirs \ dirs' :
          plugins[f[1]] # None /\ FullName(plugins[f[1]]) = f => f[1] \in inProgress]_vars

\* Every request is over in the end, so that the plugin takes another one.
RequestsFinish == \A n \in Names : n \in inProgress ~> n \notin inProgress

\* A managed plugin does not stay RUNNING without a process.
CrashesAreNoticed ==
    \A s \in Slots :
        (obj[s].status = "RUNNING" /\ plugins[req[s].name] = s /\ ~Alive(s))
            ~> (obj[s].status # "RUNNING" \/ plugins[req[s].name] # s \/ Alive(s))

=============================================================================
