---------------------------- MODULE AgentStartup ----------------------------
(***************************************************************************)
(* The start of the guest agent (cmd/google_guest_agent) and who may       *)
(* configure a plugin afterwards: setup.Run brings up the plugin manager,  *)
(* starts the plugins found in the local plugin directory (or installs the *)
(* core plugin from a fixed request) and waits, through the plugin status  *)
(* watcher, until the core plugin is ready; the events manager runs only   *)
(* then, and with it the ACS message handler.  The agent may be killed and *)
(* restarted at any time; revisions installed by ACS survive it on disk.   *)
(* How one request is carried out is the matter of PluginManager: here it  *)
(* ends in success or failure.                                             *)
(***************************************************************************)
EXTENDS Naturals, FiniteSets

CONSTANTS
    CorePluginName,     \* the core plugin
    OtherNames,         \* the other plugins
    Revisions,          \* revision ids
    Version,            \* the version of the agent, the revision of its core plugin
    MaxAcsMessages,     \* bound: configure messages that ACS sends
    MaxAgentRestarts    \* bound: how often the agent exits and starts again

VARIABLES
    env,        \* the machine: configuration, files and local plugin manifests
    setupPc,    \* where setup.Run is
    plugs,      \* PluginManager.plugins
    stored,     \* the dynamic revisions with a state file
    inProgress, \* PluginManager.inProgressPluginRequests
    requests,   \* requests in configurePlugin, with who waits for them
    message,    \* what configurePluginStates (acs/handler) is about to configure
    coreEarly,  \* the core plugin has finished its early initialization
    statusWatch,\* the plugin status watcher
    svcState,   \* what the service manager was told
    acsLeft, restartsLeft

vars == <<env, setupPc, plugs, stored, inProgress, requests, message, coreEarly,
          statusWatch, svcState, acsLeft, restartsLeft>>

Names == {CorePluginName} \cup OtherNames
Absent == [kind |-> "absent", rev |-> Version, state |-> "none"]
NoMessage == {}

\* Manifests of the local plugin directory: a file that is not there, one that does
\* not parse, or a revision that is boot critical or not.
Manifest == [file : {"ok"}, rev : Revisions, boot : BOOLEAN]
NoManifest == [file |-> "none", rev |-> Version, boot |-> FALSE]
BadManifest == [file |-> "bad", rev |-> Version, boot |-> FALSE]

\* The core plugin knob: a file with enabled=true or false, anything else, or no file.
IsCorePluginEnabled == env.knob # "false"
IsConfigFilePresent == env.knob # "none"

\* main: whether core plugin initialization is skipped.  No command line flag is given.
ignoreCorePlugin == env.agentBinary /\ IsConfigFilePresent /\ ~IsCorePluginEnabled

skipWatcher == ignoreCorePlugin \/ ~env.coreBinary

Init ==
    /\ env \in [agentBinary : BOOLEAN, knob : {"none", "true", "false", "other"},
                coreBinary : BOOLEAN, local : BOOLEAN, acs : BOOLEAN,
                manifest : {m \in [Names -> Manifest \cup {NoManifest, BadManifest}] :
                              m[CorePluginName] = [file |-> "ok", rev |-> Version, boot |-> TRUE]}]
    /\ setupPc = "config"
    /\ plugs = [n \in Names |-> Absent]
    /\ stored = [n \in Names |-> Absent]
    /\ inProgress = {} /\ requests = {} /\ message = NoMessage
    /\ coreEarly = FALSE
    /\ statusWatch = "off" /\ svcState = "starting"
    /\ acsLeft = MaxAcsMessages /\ restartsLeft = MaxAgentRestarts

Keep(x) == UNCHANGED <<env, acsLeft, restartsLeft, x>>

-----------------------------------------------------------------------------
(* setup.Run                                                               *)

\* The MDS route, the runtime configuration and the ACS watcher and handler.  A
\* failure to read the metadata ends the agent.
fetchRuntimeConfig ==
    /\ setupPc = "config"
    /\ setupPc' \in {"init", "exit"}
    /\ Keep(<<plugs, stored, inProgress, requests, message, coreEarly, statusWatch, svcState>>)

\* InitPluginManager: the stored dynamic plugins are loaded, each connected or
\* relaunched; local plugins are dropped.  It waits for all of them.
InitPluginManager ==
    /\ setupPc = "init"
    /\ \E up \in SUBSET {n \in Names : stored[n].kind = "dynamic"} :
         plugs' = [n \in Names |-> [stored[n] EXCEPT !.state =
                       IF n \in up THEN "running" ELSE IF stored[n] = Absent THEN "none" ELSE "crashed"]]
    /\ setupPc' = "start"
    /\ svcState' = IF skipWatcher THEN "running" ELSE svcState  \* coreReady
    /\ Keep(<<stored, inProgress, requests, message, coreEarly, statusWatch>>)

Running(n, rev) == plugs[n].state = "running" /\ plugs[n].rev = rev

Request(n, action, kind, rev, by) ==
    [name |-> n, action |-> action, kind |-> kind, rev |-> rev, by |-> by, st |-> "marked"]

\* GetLocalPlugin for a name; its errors are the callers' business.
GetLocalPlugin(n) == env.manifest[n]

\* Faulty variant: a dynamically installed revision is not looked for.
LocalToStart_Precedence ==
    {n \in Names : /\ GetLocalPlugin(n).file = "ok"
                   /\ n = CorePluginName => ~ignoreCorePlugin
                   /\ ~(plugs[n].kind = "local" /\ plugs[n].rev = GetLocalPlugin(n).rev)}

\* The local plugins StartLocalPlugins installs: enabled, not installed dynamically,
\* and not already there with the revision of the manifest.
LocalToStart ==
    {n \in Names : /\ GetLocalPlugin(n).file = "ok"
                   /\ n = CorePluginName => ~ignoreCorePlugin
                   /\ plugs[n].kind # "dynamic"
                   /\ ~(plugs[n].kind = "local" /\ plugs[n].rev = GetLocalPlugin(n).rev)}

\* Boot critical plugins are installed first, the others once those are verified.
StartLocalPlugins ==
    /\ setupPc = "start" /\ env.local
    /\ IF \E n \in Names : GetLocalPlugin(n).file = "bad"
       THEN setupPc' = "exit" /\ UNCHANGED <<inProgress, requests>>
       ELSE LET toProcess == LocalToStart \ inProgress IN
            /\ setupPc' = "wait"
            /\ inProgress' = inProgress \cup toProcess
            /\ requests' = requests \cup
                 {Request(n, "INSTALL", "local", GetLocalPlugin(n).rev,
                          IF GetLocalPlugin(n).boot THEN "boot" ELSE "later") : n \in toProcess}
    /\ Keep(<<plugs, stored, message, coreEarly, statusWatch, svcState>>)

\* install: the core plugin from a fixed request, unless it runs already.
install ==
    /\ setupPc = "start" /\ ~env.local
    /\ IF skipWatcher \/ Running(CorePluginName, Version)
       THEN setupPc' = "subscribe" /\ UNCHANGED <<inProgress, requests>>
       ELSE /\ setupPc' = "wait"
            /\ CorePluginName \notin inProgress
            /\ inProgress' = inProgress \cup {CorePluginName}
            /\ requests' = requests \cup
                 {Request(CorePluginName, "INSTALL", "local", Version, "boot")}
    /\ Keep(<<plugs, stored, message, coreEarly, statusWatch, svcState>>)

\* VerifyPluginRunning: the plugin is known, runs, and has the requested revision.
Verified(r) == Running(r.name, r.rev)

\* configureAndVerifyPlugin of the boot critical requests, and the wait for them: one
\* that does not run fails the start, and the requests still to come are never made.
bootCriticalDone ==
    LET boot == {r \in requests : r.by = "boot"}
        later == {r \in requests : r.by = "later"} IN
    /\ setupPc = "wait"
    /\ \A r \in boot : r.st = "done"
    /\ setupPc' = IF \A r \in boot : Verified(r) THEN "subscribe" ELSE "exit"
    /\ requests' = (requests \ (boot \cup later)) \cup {[r EXCEPT !.by = "background"] : r \in later}
    /\ Keep(<<plugs, stored, inProgress, message, coreEarly, statusWatch, svcState>>)

\* The subscription for the core plugin's event, and its watcher; then the events
\* manager runs.
InitWatcher ==
    /\ setupPc = "subscribe"
    /\ setupPc' = "run"
    /\ statusWatch' = IF skipWatcher THEN "off" ELSE "on"
    /\ Keep(<<plugs, stored, inProgress, requests, message, coreEarly, svcState>>)

\* The agent exits, by galog.Fatalf or from outside, and is started again: the
\* memory is gone, the state files of the dynamic plugins stay.
Restart ==
    /\ restartsLeft > 0 /\ restartsLeft' = restartsLeft - 1
    /\ setupPc' = "config"
    /\ plugs' = [n \in Names |-> Absent]
    /\ inProgress' = {} /\ requests' = {} /\ message' = NoMessage
    /\ coreEarly' = FALSE /\ statusWatch' = "off" /\ svcState' = "starting"
    /\ UNCHANGED <<env, stored, acsLeft>>

-----------------------------------------------------------------------------
(* The requests (PluginManager.configurePlugin)                            *)

\* What a request really asks for: a REMOVE of a plugin that has a local
\* installation goes back to it; a core plugin started locally is just removed.
Effective(r) ==
    LET m == GetLocalPlugin(r.name) IN
    IF r.action # "REMOVE" \/ (env.local /\ r.name = CorePluginName) \/ m.file = "none" THEN r
    ELSE IF m.file = "bad" THEN [r EXCEPT !.action = "NONE"]
    ELSE [r EXCEPT !.action = "INSTALL", !.kind = "local", !.rev = m.rev]

Fetched(n) == plugs[n].kind # "absent"

\* The work begins: the new plugin is in the map as soon as it is processed, for an
\* upgrade when the current revision has been stopped and removed.
begin(r) ==
    LET e == Effective(r) IN
    /\ r \in requests /\ r.st = "marked" /\ r.by # "later"
    /\ \/ /\ e.action = "INSTALL"
          /\ ~Fetched(e.name) \/ plugs[e.name].rev # e.rev
          /\ plugs' = [plugs EXCEPT ![e.name] = [kind |-> e.kind, rev |-> e.rev, state |-> "installing"]]
          /\ stored' = [stored EXCEPT ![e.name] = Absent]
          /\ requests' = (requests \ {r}) \cup {[r EXCEPT !.st = "launching"]}
       \/ /\ e.action = "REMOVE" /\ Fetched(e.name)
          /\ plugs' = [plugs EXCEPT ![e.name] = Absent]
          /\ stored' = [stored EXCEPT ![e.name] = Absent]
          /\ requests' = (requests \ {r}) \cup {[r EXCEPT !.st = "done"]}
       \* It fails before it changes anything, or there is nothing to do.
       \/ /\ requests' = (requests \ {r}) \cup {[r EXCEPT !.st = "done"]}
          /\ UNCHANGED <<plugs, stored>>
    /\ Keep(<<setupPc, inProgress, message, coreEarly, statusWatch, svcState>>)

\* The launch succeeds, and the plugin is stored; or it fails, and it is deleted.
launch(r) ==
    LET e == Effective(r) IN
    /\ r \in requests /\ r.st = "launching"
    /\ requests' = (requests \ {r}) \cup {[r EXCEPT !.st = "done"]}
    /\ \/ /\ plugs' = [plugs EXCEPT ![r.name].state = "running"]
          /\ stored' = IF e.kind = "dynamic"
                       THEN [stored EXCEPT ![r.name] = [plugs[r.name] EXCEPT !.state = "running"]]
                       ELSE stored
       \/ /\ plugs' = [plugs EXCEPT ![r.name] = Absent]
          /\ UNCHANGED stored
    /\ Keep(<<setupPc, inProgress, message, coreEarly, statusWatch, svcState>>)

\* The mark is released.  Requests that setup waits for are verified there.
finish(r) ==
    /\ r \in requests /\ r.st = "done" /\ r.name \in inProgress
    /\ inProgress' = inProgress \ {r.name}
    /\ requests' = IF r.by = "boot" THEN requests ELSE requests \ {r}
    /\ Keep(<<setupPc, plugs, stored, message, coreEarly, statusWatch, svcState>>)

\* A plugin crashes, or its monitor brings it back (see PluginManager).
crash(n) ==
    /\ plugs[n].state = "running"
    /\ plugs' = [plugs EXCEPT ![n].state = "crashed"]
    /\ coreEarly' = (coreEarly /\ n # CorePluginName)
    /\ Keep(<<setupPc, stored, inProgress, requests, message, statusWatch, svcState>>)

relaunch(n) ==
    /\ plugs[n].state = "crashed"
    /\ plugs' = [plugs EXCEPT ![n].state = "running"]
    /\ Keep(<<setupPc, stored, inProgress, requests, message, coreEarly, statusWatch, svcState>>)

-----------------------------------------------------------------------------
(* ACS messages (acs/handler)                                              *)

Item == [name : Names, action : {"INSTALL", "REMOVE"}, rev : Revisions,
         manifest : {"none", "dynamic", "local"}]

\* Faulty variant: a request for the core plugin is configured like any other.
ToConfigure_Core(msg) ==
    IF \E c \in msg : c.manifest = "local" THEN {}
    ELSE {c \in msg : ~(plugs[c.name].kind = "local" /\ plugs[c.name].rev = c.rev)}

\* The plugins of a message that are configured: none, if one of them has a manifest
\* that is not dynamic; never the core plugin, and no local plugin at its revision.
ToConfigure(msg) ==
    IF \E c \in msg : c.manifest = "local" THEN {}
    ELSE {c \in msg : /\ c.name # CorePluginName
                      /\ ~(plugs[c.name].kind = "local" /\ plugs[c.name].rev = c.rev)}

handleMessage ==
    /\ setupPc = "run" /\ env.acs /\ acsLeft > 0 /\ message = NoMessage
    /\ \E c \in Item, d \in Item :
         /\ c.name # d.name \/ c = d
         /\ message' = ToConfigure({c, d})
    /\ acsLeft' = acsLeft - 1
    /\ UNCHANGED <<env, setupPc, plugs, stored, inProgress, requests, coreEarly, statusWatch,
                   svcState, restartsLeft>>

\* ConfigurePluginStates: what has a request in progress is filtered out.
ConfigurePluginStates ==
    LET toProcess == {c \in message : c.name \notin inProgress} IN
    /\ message # NoMessage
    /\ inProgress' = inProgress \cup {c.name : c \in toProcess}
    /\ requests' = requests \cup {Request(c.name, c.action, "dynamic", c.rev, "acs") : c \in toProcess}
    /\ message' = NoMessage
    /\ Keep(<<setupPc, plugs, stored, coreEarly, statusWatch, svcState>>)

-----------------------------------------------------------------------------
(* The core plugin's readiness                                             *)

coreInitializes ==
    /\ plugs[CorePluginName].state = "running" /\ ~coreEarly
    /\ coreEarly' = TRUE
    /\ Keep(<<setupPc, plugs, stored, inProgress, requests, message, statusWatch, svcState>>)

\* The core plugin answers the status request with the awaited code.
ready == plugs[CorePluginName].state = "running" /\ coreEarly

\* Watcher.Run: without the plugin the watcher goes away; while the plugin is not ready
\* it retries; then handlePluginEvent runs coreReady and the watcher ends.
watchStatus ==
    /\ statusWatch = "on" /\ setupPc = "run"
    /\ \/ ~Fetched(CorePluginName) /\ statusWatch' = "off" /\ UNCHANGED svcState
       \/ Fetched(CorePluginName) /\ ready /\ statusWatch' = "off" /\ svcState' = "running"
    /\ Keep(<<setupPc, plugs, stored, inProgress, requests, message, coreEarly>>)

Next ==
    \/ fetchRuntimeConfig \/ InitPluginManager \/ StartLocalPlugins \/ install
    \/ bootCriticalDone \/ InitWatcher \/ Restart
    \/ \E r \in requests : begin(r) \/ launch(r) \/ finish(r)
    \/ \E n \in Names : crash(n) \/ relaunch(n)
    \/ handleMessage \/ ConfigurePluginStates
    \/ coreInitializes \/ watchStatus

\* Goroutines that can go on do; the monitor of the core plugin brings it back, and
\* its early initialization gets done in spite of crashes.
Fairness ==
    /\ WF_vars(fetchRuntimeConfig) /\ WF_vars(InitPluginManager)
    /\ WF_vars(StartLocalPlugins) /\ WF_vars(install)
    /\ WF_vars(bootCriticalDone) /\ WF_vars(InitWatcher)
    /\ WF_vars(\E r \in requests : begin(r) \/ launch(r) \/ finish(r))
    /\ WF_vars(relaunch(CorePluginName))
    /\ SF_vars(coreInitializes) /\ SF_vars(watchStatus)

Spec == Init /\ [][Next]_vars /\ Fairness

-----------------------------------------------------------------------------
\* The core plugin is the agent's own: whatever ACS sends, and however often the agent
\* restarts, no request installs another revision of it or one that is dynamic.
CoreIsLocal ==
    /\ stored[CorePluginName] = Absent
    /\ \/ plugs[CorePluginName].kind = "absent"
       \/ plugs[CorePluginName].kind = "local" /\ plugs[CorePluginName].rev = Version

\* "The dynamic version will always take precedence": a local plugin takes the place of
\* a dynamic one only in a request that removes the dynamic one.
DynamicTakesPrecedence ==
    [][\A n \in Names :
         plugs[n].kind = "dynamic" /\ plugs'[n].kind = "local" =>
           \E r \in requests : r.name = n /\ r.action = "REMOVE"]_vars

\* Once setup.Run is through for good, the service manager hears that the agent runs.
AgentGetsReady == (setupPc = "run") ~> (svcState = "running" \/ setupPc # "run")

=============================================================================
