--------------------------- MODULE CompatManager ---------------------------
(***************************************************************************)
(* The compat manager (cmd/google_guest_compat_manager): it follows the    *)
(* metadata and switches the machine between the legacy guest agent and    *)
(* the core plugin, which the agent manager starts when its configuration  *)
(* file says so.  A switch is a list of operations on services; any of     *)
(* them may fail, before or after it took effect, and ends the switch,     *)
(* which starts over at the next metadata event.  Processes die and        *)
(* restart, and machines reboot.  The core plugin is a child of the        *)
(* manager that launched it: a manager that is asked to stop cancels its   *)
(* context, which kills the child; one that dies leaves it behind, and     *)
(* nothing knows of it any more.                                           *)
(***************************************************************************)
EXTENDS Naturals, Sequences, Descriptor

CONSTANTS
    Idempotent,     \* systemctl: stopping what is stopped, or starting what runs, is no error;
                    \* the Windows service manager reports it as one
    MaxWishes,      \* bound: changes of the metadata
    MaxReboots      \* bound: restarts of the compat manager and reboots

VARIABLES
    mdCore,         \* enable-guest-agent-core-plugin of the instance and of the project
    coreKnob,       \* the core plugin configuration file says enabled
    coreEnabled,    \* Manager.corePluginsEnabled
    todoSteps,      \* what is left of the switch in progress
    legacy,         \* the guest agent service: enabled, and running
    certTimer,      \* the workload certificate refresher
    mgrUp, mgrCore, \* the agent manager runs; it was started with the core plugin
    coreUp,         \* the core plugin this manager launched runs
    leftCore,       \* one that an earlier manager left behind runs
    wishesLeft, rebootsLeft

vars == <<mdCore, coreKnob, coreEnabled, todoSteps, legacy, certTimer, mgrUp, mgrCore,
          coreUp, leftCore, wishesLeft, rebootsLeft>>

\* HasCorePluginEnabled of the metadata.
wanted == HasCorePluginEnabled(ParseBool(mdCore.instance), ParseBool(mdCore.project), coreKnob)

machine == <<coreKnob, legacy, certTimer, mgrUp, mgrCore, coreUp, leftCore>>

enableCorePlugin ==
    <<"disable legacy", "stop legacy", "knob on", "certs off", "restart manager">>

\* Faulty variant: the legacy agent is started before the manager is stopped.
disableCorePlugin_Order ==
    <<"knob off", "enable legacy", "start legacy", "stop manager", "stop core",
      "start manager", "certs on">>

disableCorePlugin ==
    <<"knob off", "stop manager", "stop core", "start manager", "certs on",
      "enable legacy", "start legacy">>

Init ==
    /\ mdCore \in [instance : Texts, project : Texts]
    /\ coreKnob \in BOOLEAN
    /\ coreEnabled = coreKnob /\ todoSteps = <<>>
    /\ legacy = [enabled |-> ~coreKnob, up |-> ~coreKnob]
    /\ certTimer = ~coreKnob
    /\ mgrUp = TRUE /\ mgrCore = coreKnob /\ coreUp = coreKnob /\ leftCore = FALSE
    /\ wishesLeft = MaxWishes /\ rebootsLeft = MaxReboots

\* The configuration file, and the refresher of certificates.
SetCorePluginEnabled(s) ==
    coreKnob' = CASE s = "knob on" -> TRUE [] s = "knob off" -> FALSE [] OTHER -> coreKnob

certRefresher(s) ==
    certTimer' = CASE s = "certs on" -> TRUE [] s = "certs off" -> FALSE [] OTHER -> certTimer

\* The manager ends: the core plugin it launched is killed through the cancelled context,
\* unless the manager is gone before that.
managerEnds ==
    /\ coreUp' = FALSE
    /\ leftCore' \in {leftCore, leftCore \/ coreUp}

\* StopPlugin of an ad-hoc plugin manager: it knows the plugins that have a state file, and
\* a local plugin such as the core plugin has none.  This is also all that ggactl's stop and
\* restart of the core plugin do.
stopCorePlugin == UNCHANGED <<coreUp, leftCore>>

\* What an operation does to the machine.
effect(s) ==
    /\ SetCorePluginEnabled(s) /\ certRefresher(s)
    /\ legacy' = CASE s = "disable legacy" -> [legacy EXCEPT !.enabled = FALSE]
                   [] s = "enable legacy" -> [legacy EXCEPT !.enabled = TRUE]
                   [] s = "stop legacy" -> [legacy EXCEPT !.up = FALSE]
                   [] s = "start legacy" -> [legacy EXCEPT !.up = TRUE]
                   [] OTHER -> legacy
    /\ mgrUp' = CASE s \in {"start manager", "restart manager"} -> TRUE
                  [] s = "stop manager" -> FALSE
                  [] OTHER -> mgrUp
    /\ mgrCore' = IF s \in {"start manager", "restart manager"} THEN coreKnob ELSE mgrCore
    /\ IF s \in {"stop manager", "restart manager"} THEN managerEnds ELSE stopCorePlugin

\* Whether the service manager can do it at all.
possible(s) ==
    Idempotent \/ CASE s = "stop legacy" -> legacy.up
                    [] s = "start legacy" -> ~legacy.up
                    [] s \in {"stop manager", "restart manager"} -> mgrUp
                    [] s = "start manager" -> ~mgrUp
                    [] OTHER -> TRUE

-----------------------------------------------------------------------------
\* A metadata event: nothing to do when the state is the one wanted.
Setup ==
    /\ todoSteps = <<>> /\ coreEnabled # wanted
    /\ todoSteps' = IF wanted THEN enableCorePlugin ELSE disableCorePlugin
    /\ UNCHANGED <<mdCore, coreEnabled, machine, wishesLeft, rebootsLeft>>

\* enableDisableAgent: the next operation succeeds; after the last one the new state is
\* remembered.  The switch is the one it was when it began.
step ==
    /\ todoSteps # <<>> /\ possible(Head(todoSteps))
    /\ effect(Head(todoSteps))
    /\ todoSteps' = Tail(todoSteps)
    /\ coreEnabled' = IF Tail(todoSteps) = <<>> THEN ~coreEnabled ELSE coreEnabled
    /\ UNCHANGED <<mdCore, wishesLeft, rebootsLeft>>

\* It fails; the operation itself may have been carried out all the same.
stepFails ==
    /\ todoSteps # <<>>
    /\ todoSteps' = <<>>
    /\ \/ possible(Head(todoSteps)) /\ effect(Head(todoSteps))
       \/ UNCHANGED machine
    /\ UNCHANGED <<mdCore, coreEnabled, wishesLeft, rebootsLeft>>

\* External: the metadata changes.
wish ==
    /\ wishesLeft > 0 /\ wishesLeft' = wishesLeft - 1
    /\ \E t \in Texts : mdCore' \in {[mdCore EXCEPT !.instance = t], [mdCore EXCEPT !.project = t]}
    /\ UNCHANGED <<coreEnabled, todoSteps, machine, rebootsLeft>>

\* NewManager: the compat manager starts again and reads the configuration file.
NewManager ==
    /\ rebootsLeft > 0 /\ rebootsLeft' = rebootsLeft - 1
    /\ coreEnabled' = coreKnob /\ todoSteps' = <<>>
    /\ UNCHANGED <<mdCore, machine, wishesLeft>>

\* The machine boots: enabled services start.
reboot ==
    /\ rebootsLeft > 0 /\ rebootsLeft' = rebootsLeft - 1
    /\ coreEnabled' = coreKnob /\ todoSteps' = <<>>
    /\ legacy' = [legacy EXCEPT !.up = legacy.enabled]
    /\ mgrUp' = TRUE /\ mgrCore' = coreKnob /\ coreUp' = FALSE /\ leftCore' = FALSE
    /\ UNCHANGED <<mdCore, coreKnob, certTimer, wishesLeft>>

\* The manager dies, and the service manager may start it again.
managerDies ==
    /\ mgrUp /\ rebootsLeft > 0 /\ rebootsLeft' = rebootsLeft - 1
    /\ mgrUp' \in BOOLEAN
    /\ mgrCore' = IF mgrUp' THEN coreKnob ELSE mgrCore
    /\ managerEnds
    /\ UNCHANGED <<mdCore, coreEnabled, todoSteps, coreKnob, legacy, certTimer, wishesLeft>>

\* launchPlugin: the manager launches its core plugin, at the start or after it went away.
launchCore ==
    /\ mgrUp /\ mgrCore /\ ~coreUp
    /\ coreUp' = TRUE
    /\ UNCHANGED <<mdCore, coreEnabled, todoSteps, coreKnob, legacy, certTimer, mgrUp, mgrCore,
                   leftCore, wishesLeft, rebootsLeft>>

\* External: a core plugin crashes.
coreDies ==
    /\ \/ coreUp /\ coreUp' = FALSE /\ UNCHANGED leftCore
       \/ leftCore /\ leftCore' = FALSE /\ UNCHANGED coreUp
    /\ UNCHANGED <<mdCore, coreEnabled, todoSteps, coreKnob, legacy, certTimer, mgrUp, mgrCore,
                   wishesLeft, rebootsLeft>>

Next ==
    \/ Setup \/ step \/ stepFails \/ wish \/ NewManager \/ reboot
    \/ managerDies \/ launchCore \/ coreDies

\* Metadata events keep coming (see MetadataWatcher), and an operation that is tried
\* again and again and can be done is done at last.
Fairness ==
    /\ WF_vars(Setup) /\ WF_vars(step \/ stepFails) /\ WF_vars(launchCore)
    /\ \A s \in {enableCorePlugin[i] : i \in DOMAIN enableCorePlugin}
              \cup {disableCorePlugin[i] : i \in DOMAIN disableCorePlugin} :
         SF_vars(step /\ Head(todoSteps) = s)

Spec == Init /\ [][Next]_vars /\ Fairness

-----------------------------------------------------------------------------
\* The legacy agent and the core plugin of the manager never run together, whatever fails,
\* dies, restarts or is wished for in between (enableCorePlugin, disableCorePlugin).
NeverBoth == ~(legacy.up /\ coreUp)

\* Nor does a core plugin that was left behind: not so, no operation of a switch ends it.
LegacyRunsAlone == ~(legacy.up /\ (coreUp \/ leftCore))

\* "This will allow us to retry the enable/disable operation in case of any failure": a
\* switch that is wanted, and stays wanted, is made.
SwitchIsRetried ==
    \A e \in BOOLEAN : (wanted = e /\ coreEnabled # e) ~> (coreEnabled = e \/ wanted # e)

=============================================================================
