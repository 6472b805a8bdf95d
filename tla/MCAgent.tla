------------------------------- MODULE MCAgent -------------------------------
(***************************************************************************)
(* The components of the guest agent process and of the programs beside it *)
(* that share no state with each other, checked by one run of TLC.  part   *)
(* says which one moves in a behaviour: its specification holds of its own *)
(* variables, and the others stay in a state of their Init.                *)
(***************************************************************************)
EXTENDS Scheduler, Integers, TLC

CONSTANTS
    CorePluginName, OtherNames, Revisions, Version, MaxAcsMessages, MaxAgentRestarts,
    Commands, VmEvent, GetOption, UnknownCommand, Conns, Plugins,
    Metrics, ListSize, NoMetric,
    Recorders, MaxRecords, MaxRecorded,
    Idempotent, MaxWishes, MaxReboots,
    MaxRefreshes, MaxExtStarts,
    Collectors, DefaultInterval, Overrides, MaxRunTimeout, ResultMultiplier, Stalls,
    QueueCapacity, ConnectAttempts, MaxFailures, MaxDue, MaxNtStarts, MaxNtRefreshes

\* A ring has room for at least one metric.
ASSUME RingAssumption == ListSize \in Nat \ {0}

\* The times of the network telemetry are numbers.
ASSUME TelemetryAssumption ==
    /\ MaxDue \in Nat /\ MaxRunTimeout \in Nat /\ DefaultInterval \in Nat
    /\ Overrides \in [Collectors -> Int]

\* The bound on the refreshes of the workload credentials is a number.
ASSUME RefreshesAssumption == MaxRefreshes \in Nat

VARIABLES
    part,
    env, setupPc, plugs, stored, inProgress, requests, message, coreEarly, statusWatch,
    svcState, acsLeft, restartsLeft,
    cmdSrv, handlers, owner, connPc, connCmd, answer, pipeFile,
    entries, idx, isFull, pluginState, pluginPid, jobPc, measured, states,
    buffer, recorded, flushing, flushPc, sent,
    mdCore, coreKnob, coreEnabled, todoSteps, legacy, certTimer, mgrUp, mgrCore, coreUp,
    leftCore, wishesLeft, rebootsLeft,
    grpcService, loop, refreshPc, newTarget, oldTarget, dirs, temp, link, mdsUuid, prevUUID,
    mdsChan, begun, second, shared,
    early, server, health, wk, run, col, in, rep, queue, sender, reported, ntRefreshes

startupVars == <<env, setupPc, plugs, stored, inProgress, requests, message, coreEarly,
                 statusWatch, svcState, acsLeft, restartsLeft>>
monitorVars == <<cmdSrv, handlers, owner, connPc, connCmd, answer, pipeFile>>
ringVars == <<entries, idx, isFull, pluginState, pluginPid, jobPc, measured, states>>
registryVars == <<buffer, recorded, flushing, flushPc, sent>>
compatVars == <<mdCore, coreKnob, coreEnabled, todoSteps, legacy, certTimer, mgrUp, mgrCore,
                coreUp, leftCore, wishesLeft, rebootsLeft>>
workloadVars == <<grpcService, loop, refreshPc, newTarget, oldTarget, dirs, temp, link, mdsUuid,
                  prevUUID, mdsChan, begun, second, shared>>
telemetryVars == <<early, server, health, wk, run, col, in, rep, queue, sender, reported,
                   ntRefreshes>>

Startup == INSTANCE AgentStartup
Monitor == INSTANCE CommandMonitor
Ring == INSTANCE PluginMetrics
Registry == INSTANCE MetricRegistry
Compat == INSTANCE CompatManager
Workload == INSTANCE Mwlid WITH target <- newTarget
Telemetry == INSTANCE NetTelemetry

\* One collector keeps the default interval, the others run every second unit.
OverrideOne == [c \in Collectors |-> IF c = CHOOSE x \in Collectors : TRUE THEN -1 ELSE 2]

-----------------------------------------------------------------------------
Parts == {"scheduler", "startup", "monitor", "ring", "registry", "compat", "workload", "telemetry"}

\* Which of its initial states a part that does not move is in does not matter.
AgentInit ==
    /\ part \in Parts
    /\ Init
    /\ Startup!Init
    /\ part # "startup" => /\ env.knob = "none"
                           /\ \A f \in {"agentBinary", "coreBinary", "local", "acs"} : env[f]
                           /\ \A n \in OtherNames : env.manifest[n] = Startup!NoManifest
    /\ Monitor!Init /\ (part # "monitor" => pipeFile = "absent")
    /\ Ring!Init
    /\ Registry!Init
    /\ Compat!Init /\ (part # "compat" => coreKnob /\ mdCore = [instance |-> "true", project |-> "true"])
    /\ Workload!Init /\ (part # "workload" => grpcService)
    /\ Telemetry!Init

\* All but part p stays as it is.
Only(p) ==
    /\ UNCHANGED part
    /\ p # "scheduler" => UNCHANGED vars
    /\ p # "startup" => UNCHANGED startupVars
    /\ p # "monitor" => UNCHANGED monitorVars
    /\ p # "ring" => UNCHANGED ringVars
    /\ p # "registry" => UNCHANGED registryVars
    /\ p # "compat" => UNCHANGED compatVars
    /\ p # "workload" => UNCHANGED workloadVars
    /\ p # "telemetry" => UNCHANGED telemetryVars

SchedulerStep == part = "scheduler" /\ Next /\ Only("scheduler")
StartupStep == part = "startup" /\ Startup!Next /\ Only("startup")
MonitorStep == part = "monitor" /\ Monitor!Next /\ Only("monitor")
RingStep == part = "ring" /\ Ring!Next /\ Only("ring")
RegistryStep == part = "registry" /\ Registry!Next /\ Only("registry")
CompatStep == part = "compat" /\ Compat!Next /\ Only("compat")
WorkloadStep == part = "workload" /\ Workload!Next /\ Only("workload")
TelemetryStep == part = "telemetry" /\ Telemetry!Next /\ Only("telemetry")

AgentNext ==
    \/ SchedulerStep \/ StartupStep \/ MonitorStep \/ RingStep
    \/ RegistryStep \/ CompatStep \/ WorkloadStep \/ TelemetryStep

allVars == <<part, vars, startupVars, monitorVars, ringVars, registryVars, compatVars,
             workloadVars, telemetryVars>>

AgentSpec == AgentInit /\ [][AgentNext]_allVars

-----------------------------------------------------------------------------
\* The core plugin stays the agent's own revision, whatever ACS sends (AgentStartup).
CoreIsLocal == Startup!CoreIsLocal

\* A local plugin takes the place of a dynamic one only when that is removed (AgentStartup).
DynamicTakesPrecedence == Startup!DynamicTakesPrecedence

\* A handler of the command monitor that runs is registered (CommandMonitor).
RunningIsRegistered == Monitor!RunningIsRegistered

\* The ring of a plugin's metrics implements the window of the last ones (PluginMetrics).
RingIsWindow == Ring!RingIsWindow

\* Every metric recorded is in one place, and there once (MetricRegistry).
EachMetricOnce == Registry!EachMetricOnce

\* The legacy agent and the core plugin of the manager never run together (CompatManager).
NeverBoth == Compat!NeverBoth

\* The published link of the workload credentials leads to whole ones (Mwlid).
LinkLeadsToCredentials == Workload!LinkLeadsToCredentials

\* No due time of the network telemetry is reported twice in a run (NetTelemetry).
ReportedOnce == Telemetry!ReportedOnce

=============================================================================
