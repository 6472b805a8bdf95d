------------------------- MODULE AgentStartupProofs -------------------------
(***************************************************************************)
(* Proofs about the start of the agent and the requests for its plugins    *)
(* (AgentStartup), and about the switch between the legacy agent and the   *)
(* core plugin (CompatManager).                                            *)
(***************************************************************************)
EXTENDS AgentProofs

-----------------------------------------------------------------------------
(* The start of the agent                                                  *)

\* Revisions of the manifests, and that of the agent itself.
RevisionIds == Revisions \cup {Version}
\* What the manager knows of a plugin.
PluginEntry == [kind : {"absent", "local", "dynamic"}, rev : RevisionIds,
                state : {"none", "running", "crashed", "installing"}]
\* A request of configurePlugin.
RequestRecord == [name : Startup!Names, action : {"INSTALL", "REMOVE"}, kind : {"local", "dynamic"},
                  rev : RevisionIds, by : {"boot", "later", "background", "acs"},
                  st : {"marked", "launching", "done"}]

\* Types.
StartupTyped ==
    /\ plugs \in [Startup!Names -> PluginEntry]
    /\ stored \in [Startup!Names -> PluginEntry]
    /\ inProgress \subseteq Startup!Names
    /\ requests \subseteq RequestRecord
    /\ message \subseteq Startup!Item

\* The local plugin directory is what it was, with the core plugin of the agent in it.
LocalPlugins ==
    /\ \A n \in Startup!Names : Startup!GetLocalPlugin(n).rev \in RevisionIds
    /\ Startup!GetLocalPlugin(CorePluginName) = [file |-> "ok", rev |-> Version, boot |-> TRUE]

\* What setup.Run has not done yet has not happened.
SetupPhases ==
    /\ setupPc \in {"config", "init"} => \A n \in Startup!Names : plugs[n].kind = "absent"
    /\ setupPc \in {"config", "init", "start"} => requests = {}
    /\ message # {} => setupPc = "run"

\* A message names a plugin once, and never the core plugin.
MessageItems ==
    \A c \in message : c.name # CorePluginName /\ \A d \in message : d.name = c.name => d = c

\* Requests: the core plugin is only asked for locally, at the agent's version; what setup
\* made is gone when setup is; a plugin has one request at a time, which holds its mark unless
\* setup still has to verify it; and a local one was made when no dynamic revision was there.
StartupRequests ==
    \A r \in requests :
      /\ r.kind = "local" => r.action = "INSTALL"
      /\ r.name = CorePluginName => r.kind = "local" /\ r.rev = Version
      /\ r.by \in {"boot", "later"} => setupPc = "wait"
      /\ r.by # "boot" => r.name \in inProgress
      /\ \A s \in requests : s.name = r.name => s = r
      /\ r.kind = "local" /\ r.st = "marked" => plugs[r.name].kind # "dynamic"

\* Inductive.
StartupInv ==
    StartupTyped /\ LocalPlugins /\ SetupPhases /\ MessageItems /\ StartupRequests /\ Startup!CoreIsLocal

\* DynamicTakesPrecedence, of one plugin and one step.
Replaces(n) == plugs[n].kind = "dynamic" /\ plugs'[n].kind = "local" =>
                  \E r \in requests : r.name = n /\ r.action = "REMOVE"

\* Nothing is known before setup.
LEMMA StartupInitial == Startup!Init => StartupInv
<1> SUFFICES ASSUME Startup!Init PROVE StartupInv
  OBVIOUS
<1>1. StartupTyped
  BY DEF Startup!Init, StartupTyped, PluginEntry, RevisionIds, Startup!Absent, Startup!NoMessage
<1>2. LocalPlugins
  BY DEF Startup!Init, LocalPlugins, RevisionIds, Startup!GetLocalPlugin, Startup!Manifest,
         Startup!NoManifest, Startup!BadManifest, Startup!Names
<1>3. SetupPhases /\ MessageItems /\ StartupRequests /\ Startup!CoreIsLocal
  BY DEF Startup!Init, SetupPhases, MessageItems, StartupRequests, Startup!CoreIsLocal, Startup!Absent,
    Startup!NoMessage, Startup!Names
<1> QED BY <1>1, <1>2, <1>3 DEF StartupInv

\* The core plugin is a plugin.
LEMMA CoreIsName == CorePluginName \in Startup!Names
BY DEF Startup!Names

\* begin, launch: the request goes on, as the same request.
LEMMA RequestGoesOn ==
  ASSUME StartupInv, NEW r \in requests, NEW st \in {"launching", "done"},
         requests' = (requests \ {r}) \cup {[r EXCEPT !.st = st]},
         UNCHANGED <<env, setupPc, inProgress, message>>,
         \A s \in requests \ {r} : plugs'[s.name] = plugs[s.name]
  PROVE  requests' \subseteq RequestRecord /\ StartupRequests'
<1> DEFINE q == [r EXCEPT !.st = st]
<1>1. r \in RequestRecord BY DEF StartupInv, StartupTyped
<1>2. /\ q \in RequestRecord /\ q.st = st
      /\ q.name = r.name /\ q.action = r.action /\ q.kind = r.kind /\ q.rev = r.rev /\ q.by = r.by
  BY <1>1 DEF RequestRecord
<1>3. requests' \subseteq RequestRecord
  BY <1>2 DEF StartupInv, StartupTyped
<1> HIDE DEF q
<1>4. requests' = (requests \ {r}) \cup {q} BY DEF q
<1>5. \A s \in requests \ {r} : s.name # r.name BY DEF StartupInv, StartupRequests
<1>6. StartupRequests'
  BY <1>2, <1>4, <1>5 DEF StartupInv, StartupRequests
<1> QED BY <1>3, <1>6

\* A step of setup.Run, of a request or of a message keeps the invariant, and lets a local
\* plugin take the place of a dynamic one only in a REMOVE.
LEMMA StartupStepPreserves ==
  StartupInv /\ Startup!Next => StartupInv' /\ \A n \in Startup!Names : Replaces(n)
<1> DEFINE Goal == StartupInv' /\ \A n \in Startup!Names : Replaces(n)
<1> SUFFICES ASSUME StartupInv, Startup!Next PROVE Goal
  OBVIOUS
<1>0. StartupTyped /\ LocalPlugins /\ SetupPhases /\ MessageItems /\ StartupRequests /\ Startup!CoreIsLocal
  BY DEF StartupInv
<1>a. ASSUME UNCHANGED env PROVE LocalPlugins'
  BY <1>0, <1>a DEF LocalPlugins, Startup!GetLocalPlugin
<1>b. ASSUME UNCHANGED <<plugs>> PROVE \A n \in Startup!Names : Replaces(n)
  BY <1>b DEF Replaces
<1>1. CASE Startup!fetchRuntimeConfig
  <2>1. setupPc = "config" /\ setupPc' \in {"init", "exit"} /\ UNCHANGED <<env, plugs, stored, inProgress, requests, message>>
    BY <1>1 DEF Startup!fetchRuntimeConfig, Startup!Keep
  <2>2. StartupTyped' /\ LocalPlugins' /\ MessageItems' /\ Startup!CoreIsLocal'
    BY <1>0, <1>a, <2>1 DEF StartupTyped, MessageItems, Startup!CoreIsLocal
  <2>3. SetupPhases' /\ StartupRequests'
    BY <1>0, <2>1 DEF SetupPhases, StartupRequests
  <2> QED BY <1>b, <2>1, <2>2, <2>3 DEF StartupInv
<1>2. CASE Startup!InitPluginManager
  <2>1. setupPc = "init" /\ setupPc' = "start" /\ UNCHANGED <<env, stored, inProgress, requests, message>>
    BY <1>2 DEF Startup!InitPluginManager, Startup!Keep
  <2>2. PICK up \in SUBSET {n \in Startup!Names : stored[n].kind = "dynamic"} :
          plugs' = [n \in Startup!Names |-> [stored[n] EXCEPT !.state =
                       IF n \in up THEN "running" ELSE IF stored[n] = Startup!Absent THEN "none" ELSE "crashed"]]
    BY <1>2 DEF Startup!InitPluginManager
  <2>3. /\ plugs' \in [Startup!Names -> PluginEntry]
        /\ \A n \in Startup!Names : plugs'[n].kind = stored[n].kind
    BY <1>0, <2>2 DEF StartupTyped, PluginEntry
  <2>4. StartupTyped' BY <1>0, <2>1, <2>3 DEF StartupTyped
  <2>5. requests = {} /\ message = {} BY <1>0, <2>1 DEF SetupPhases
  <2>6. SetupPhases' /\ MessageItems' /\ StartupRequests'
    BY <2>1, <2>5 DEF SetupPhases, MessageItems, StartupRequests
  <2>7. Startup!CoreIsLocal'
    BY <1>0, <2>1, <2>3, CoreIsName DEF Startup!CoreIsLocal, Startup!Absent
  <2>8. \A n \in Startup!Names : Replaces(n)
    BY <1>0, <2>1 DEF SetupPhases, Replaces
  <2> QED BY <1>a, <2>1, <2>4, <2>6, <2>7, <2>8 DEF StartupInv
<1>3. CASE Startup!StartLocalPlugins
  <2>1. setupPc = "start" /\ UNCHANGED <<env, plugs, stored, message>> /\ setupPc' \in {"wait", "exit"}
    BY <1>3 DEF Startup!StartLocalPlugins, Startup!Keep
  <2>2. requests = {} /\ message = {} BY <1>0, <2>1 DEF SetupPhases
  <2>3. CASE UNCHANGED <<inProgress, requests>>
    BY <1>0, <1>a, <1>b, <2>1, <2>2, <2>3
    DEF StartupInv, StartupTyped, SetupPhases, MessageItems, StartupRequests, Startup!CoreIsLocal
  <2>4. CASE setupPc' = "wait" /\ ~UNCHANGED <<inProgress, requests>>
    <3> DEFINE new(n) == Startup!Request(n, "INSTALL", "local", Startup!GetLocalPlugin(n).rev,
                           IF Startup!GetLocalPlugin(n).boot THEN "boot" ELSE "later")
    <3>1. PICK chosen \in SUBSET Startup!LocalToStart :
            /\ inProgress' = inProgress \cup chosen
            /\ requests' = {new(n) : n \in chosen}
      BY <1>3, <2>2, <2>4 DEF Startup!StartLocalPlugins
    <3>2. chosen \subseteq Startup!Names /\ \A n \in chosen : plugs[n].kind # "dynamic"
      BY DEF Startup!LocalToStart
    <3>3. ASSUME NEW n \in chosen
          PROVE  /\ new(n) \in RequestRecord
                 /\ new(n).name = n /\ new(n).kind = "local" /\ new(n).action = "INSTALL"
                 /\ new(n).rev = Startup!GetLocalPlugin(n).rev
                 /\ new(n).by \in {"boot", "later"}
      BY <1>0, <3>2 DEF Startup!Request, RequestRecord, LocalPlugins
    <3> HIDE DEF new
    <3>4. requests' \subseteq RequestRecord BY <3>1, <3>3
    <3>5. StartupRequests'
      BY <1>0, <2>1, <2>4, <3>1, <3>2, <3>3 DEF StartupRequests, LocalPlugins
    <3>6. StartupTyped' BY <1>0, <2>1, <3>1, <3>2, <3>4 DEF StartupTyped
    <3>7. SetupPhases' /\ MessageItems' /\ Startup!CoreIsLocal'
      BY <1>0, <2>1, <2>2, <2>4 DEF SetupPhases, MessageItems, Startup!CoreIsLocal
    <3> QED BY <1>a, <1>b, <2>1, <3>5, <3>6, <3>7 DEF StartupInv
  <2> QED BY <1>3, <2>3, <2>4 DEF Startup!StartLocalPlugins
<1>4. CASE Startup!install
  <2>1. setupPc = "start" /\ UNCHANGED <<env, plugs, stored, message>> /\ setupPc' \in {"wait", "subscribe"}
    BY <1>4 DEF Startup!install, Startup!Keep
  <2>2. requests = {} /\ message = {} BY <1>0, <2>1 DEF SetupPhases
  <2>3. CASE UNCHANGED <<inProgress, requests>>
    BY <1>0, <1>a, <1>b, <2>1, <2>2, <2>3
    DEF StartupInv, StartupTyped, SetupPhases, MessageItems, StartupRequests, Startup!CoreIsLocal
  <2>4. CASE ~UNCHANGED <<inProgress, requests>>
    <3> DEFINE new == Startup!Request(CorePluginName, "INSTALL", "local", Version, "boot")
    <3>1. /\ setupPc' = "wait"
          /\ inProgress' = inProgress \cup {CorePluginName}
          /\ requests' = {new}
      BY <1>4, <2>2, <2>4 DEF Startup!install
    <3>2. /\ new \in RequestRecord /\ new.name = CorePluginName /\ new.kind = "local"
          /\ new.action = "INSTALL" /\ new.rev = Version /\ new.by = "boot"
      BY CoreIsName DEF Startup!Request, RequestRecord, RevisionIds
    <3> HIDE DEF new
    <3>3. plugs[CorePluginName].kind # "dynamic" BY <1>0 DEF Startup!CoreIsLocal
    <3>4. StartupRequests' BY <2>1, <3>1, <3>2, <3>3 DEF StartupRequests
    <3>5. StartupTyped' BY <1>0, <2>1, <3>1, <3>2, CoreIsName DEF StartupTyped
    <3>6. SetupPhases' /\ MessageItems' /\ Startup!CoreIsLocal'
      BY <1>0, <2>1, <2>2, <3>1 DEF SetupPhases, MessageItems, Startup!CoreIsLocal
    <3> QED BY <1>a, <1>b, <2>1, <3>4, <3>5, <3>6 DEF StartupInv
  <2> QED BY <2>3, <2>4
<1>5. CASE Startup!bootCriticalDone
  <2> DEFINE boot == {r \in requests : r.by = "boot"}
             later == {r \in requests : r.by = "later"}
             goesOn(r) == [r EXCEPT !.by = "background"]
  <2>1. /\ setupPc = "wait" /\ UNCHANGED <<env, plugs, stored, inProgress, message>>
        /\ setupPc' \in {"subscribe", "exit"}
        /\ requests' = (requests \ (boot \cup later)) \cup {goesOn(r) : r \in later}
    BY <1>5 DEF Startup!bootCriticalDone, Startup!Keep
  <2>2. ASSUME NEW r \in later
        PROVE  /\ goesOn(r) \in RequestRecord /\ goesOn(r).name = r.name /\ goesOn(r).kind = r.kind
               /\ goesOn(r).action = r.action /\ goesOn(r).rev = r.rev /\ goesOn(r).st = r.st
               /\ goesOn(r).by = "background"
    BY <1>0 DEF StartupTyped, RequestRecord
  <2> HIDE DEF goesOn
  <2>3. \A q \in requests' : \E r \in requests : \/ q = r /\ r.by \notin {"boot", "later"}
                                                 \/ r \in later /\ q = goesOn(r)
    <3> SUFFICES ASSUME NEW q \in requests'
                 PROVE  \E r \in requests : \/ q = r /\ r.by \notin {"boot", "later"}
                                            \/ r \in later /\ q = goesOn(r)
      OBVIOUS
    <3>1. CASE q \in requests \ (boot \cup later)
      <4>1. q \in requests /\ q.by \notin {"boot", "later"} BY <3>1
      <4> HIDE DEF later
      <4> QED BY <4>1
    <3>2. CASE \E r \in later : q = goesOn(r) BY <3>2
    <3> QED BY <2>1, <3>1, <3>2
  <2>4. requests' \subseteq RequestRecord BY <1>0, <2>1, <2>2 DEF StartupTyped
  <2>5. message = {} BY <1>0, <2>1 DEF SetupPhases
  <2>6. StartupRequests'
    <3> SUFFICES ASSUME NEW q \in requests' PROVE
          /\ q.kind = "local" => q.action = "INSTALL"
          /\ q.name = CorePluginName => q.kind = "local" /\ q.rev = Version
          /\ q.by \in {"boot", "later"} => setupPc' = "wait"
          /\ q.by # "boot" => q.name \in inProgress'
          /\ \A s \in requests' : s.name = q.name => s = q
          /\ q.kind = "local" /\ q.st = "marked" => plugs'[q.name].kind # "dynamic"
      BY DEF StartupRequests
    <3>1. PICK r \in requests : \/ q = r /\ r.by \notin {"boot", "later"}
                                \/ r \in later /\ q = goesOn(r)
      BY <2>3
    <3>2. /\ q.name = r.name /\ q.kind = r.kind /\ q.action = r.action /\ q.rev = r.rev /\ q.st = r.st
          /\ q.by \notin {"boot", "later"} /\ r.by # "boot"
      BY <2>2, <3>1
    <3>3. ASSUME NEW s \in requests', s.name = q.name PROVE s = q
      <4>1. PICK p \in requests : \/ s = p /\ p.by \notin {"boot", "later"}
                                  \/ p \in later /\ s = goesOn(p)
        BY <2>3
      <4>2. s.name = p.name BY <2>2, <4>1
      <4>3. p = r BY <1>0, <3>2, <3>3, <4>2 DEF StartupRequests
      <4> QED BY <3>1, <4>1, <4>3
    <3> QED BY <1>0, <2>1, <3>2, <3>3 DEF StartupRequests
  <2>7. StartupTyped' /\ SetupPhases' /\ MessageItems' /\ Startup!CoreIsLocal'
    BY <1>0, <2>1, <2>4, <2>5 DEF StartupTyped, SetupPhases, MessageItems, Startup!CoreIsLocal
  <2> QED BY <1>a, <1>b, <2>1, <2>6, <2>7 DEF StartupInv
<1>6. CASE Startup!InitWatcher
  <2>1. setupPc = "subscribe" /\ setupPc' = "run" /\ UNCHANGED <<env, plugs, stored, inProgress, requests, message>>
    BY <1>6 DEF Startup!InitWatcher, Startup!Keep
  <2> QED BY <1>0, <1>a, <1>b, <2>1
      DEF StartupInv, StartupTyped, SetupPhases, MessageItems, StartupRequests, Startup!CoreIsLocal
<1>7. CASE Startup!Restart
  <2>1. /\ plugs' = [n \in Startup!Names |-> Startup!Absent] /\ inProgress' = {} /\ requests' = {}
        /\ message' = {} /\ setupPc' = "config" /\ UNCHANGED <<env, stored>>
    BY <1>7 DEF Startup!Restart, Startup!NoMessage
  <2>2. Startup!Absent \in PluginEntry /\ Startup!Absent.kind = "absent"
    BY DEF Startup!Absent, PluginEntry, RevisionIds
  <2>3. StartupTyped' BY <1>0, <2>1, <2>2 DEF StartupTyped
  <2>4. SetupPhases' /\ MessageItems' /\ StartupRequests'
    BY <2>1, <2>2 DEF SetupPhases, MessageItems, StartupRequests
  <2>5. Startup!CoreIsLocal' BY <1>0, <2>1, <2>2, CoreIsName DEF Startup!CoreIsLocal
  <2>6. \A n \in Startup!Names : Replaces(n) BY <2>1, <2>2 DEF Replaces
  <2> QED BY <1>a, <2>1, <2>3, <2>4, <2>5, <2>6 DEF StartupInv
<1>8. ASSUME NEW r \in requests, Startup!begin(r) PROVE Goal
  <2> DEFINE e == Startup!Effective(r)
  <2>1. /\ r.st = "marked" /\ UNCHANGED <<env, setupPc, inProgress, message>>
        /\ r \in RequestRecord /\ r.name \in Startup!Names
    BY <1>0, <1>8 DEF Startup!begin, Startup!Keep, StartupTyped, RequestRecord
  <2>2. /\ e.name = r.name
        /\ r.action = "INSTALL" => e = r
        /\ e.action = "INSTALL" => e.kind \in {"local", "dynamic"} /\ e.rev \in RevisionIds
    BY <1>0, <2>1 DEF Startup!Effective, RequestRecord, LocalPlugins
  <2> HIDE DEF e
  <2>3. SetupPhases' /\ MessageItems' BY <1>0, <2>1 DEF SetupPhases, MessageItems
  <2>4. requests # {} /\ setupPc \notin {"config", "init"} BY <1>0 DEF SetupPhases
  <2>8. Startup!Absent \in PluginEntry /\ Startup!Absent.kind = "absent"
    BY DEF Startup!Absent, PluginEntry, RevisionIds
  <2>9. \A s \in requests \ {r} : s.name \in Startup!Names \ {r.name}
    BY <1>0 DEF StartupRequests, StartupTyped, RequestRecord
  <2>5. CASE /\ e.action = "INSTALL"
             /\ plugs' = [plugs EXCEPT ![e.name] = [kind |-> e.kind, rev |-> e.rev, state |-> "installing"]]
             /\ stored' = [stored EXCEPT ![e.name] = Startup!Absent]
             /\ requests' = (requests \ {r}) \cup {[r EXCEPT !.st = "launching"]}
    <3> DEFINE p == [kind |-> e.kind, rev |-> e.rev, state |-> "installing"]
    <3>1. p \in PluginEntry /\ p.kind = e.kind /\ p.rev = e.rev BY <2>2, <2>5 DEF PluginEntry
    <3> HIDE DEF p
    <3>2. plugs' = [plugs EXCEPT ![r.name] = p] /\ stored' = [stored EXCEPT ![r.name] = Startup!Absent]
      BY <2>2, <2>5 DEF p
    <3>3. /\ plugs' \in [Startup!Names -> PluginEntry] /\ plugs'[r.name] = p
          /\ \A n \in Startup!Names \ {r.name} : plugs'[n] = plugs[n]
      BY <1>0, <2>1, <3>1, <3>2 DEF StartupTyped
    <3>4. /\ stored' \in [Startup!Names -> PluginEntry] /\ stored'[r.name] = Startup!Absent
          /\ \A n \in Startup!Names \ {r.name} : stored'[n] = stored[n]
      BY <1>0, <2>1, <2>8, <3>2 DEF StartupTyped
    <3>5. \A s \in requests \ {r} : plugs'[s.name] = plugs[s.name]
      BY <2>9, <3>3
    <3>6. requests' \subseteq RequestRecord /\ StartupRequests'
      BY <2>1, <2>5, <3>5, RequestGoesOn
    <3>7. StartupTyped' BY <1>0, <2>1, <3>3, <3>4, <3>6 DEF StartupTyped
    <3>8. Startup!CoreIsLocal'
      <4>1. CASE r.name = CorePluginName
        <5>1. r.kind = "local" /\ r.rev = Version /\ e = r BY <1>0, <2>2, <4>1 DEF StartupRequests
        <5> QED BY <3>1, <3>3, <3>4, <4>1, <5>1 DEF Startup!CoreIsLocal
      <4>2. CASE r.name # CorePluginName
        BY <1>0, <3>3, <3>4, <4>2, CoreIsName DEF Startup!CoreIsLocal
      <4> QED BY <4>1, <4>2
    <3>9. \A n \in Startup!Names : Replaces(n)
      <4> SUFFICES ASSUME NEW n \in Startup!Names, plugs[n].kind = "dynamic", plugs'[n].kind = "local"
                   PROVE  n = r.name /\ r.action = "REMOVE"
        BY DEF Replaces
      <4>1. n = r.name /\ e.kind = "local" BY <3>1, <3>3
      <4>2. r.action # "INSTALL" BY <1>0, <2>1, <2>2, <4>1 DEF StartupRequests
      <4> QED BY <2>1, <4>1, <4>2 DEF RequestRecord
    <3> QED BY <1>a, <2>1, <2>3, <3>6, <3>7, <3>8, <3>9 DEF StartupInv
  <2>6. CASE /\ plugs' = [plugs EXCEPT ![e.name] = Startup!Absent]
             /\ stored' = [stored EXCEPT ![e.name] = Startup!Absent]
             /\ requests' = (requests \ {r}) \cup {[r EXCEPT !.st = "done"]}
    <3>1. /\ plugs' \in [Startup!Names -> PluginEntry] /\ plugs'[r.name] = Startup!Absent
          /\ \A n \in Startup!Names \ {r.name} : plugs'[n] = plugs[n]
      BY <1>0, <2>1, <2>2, <2>6, <2>8 DEF StartupTyped
    <3>2. /\ stored' \in [Startup!Names -> PluginEntry] /\ stored'[r.name] = Startup!Absent
          /\ \A n \in Startup!Names \ {r.name} : stored'[n] = stored[n]
      BY <1>0, <2>1, <2>2, <2>6, <2>8 DEF StartupTyped
    <3>3. \A s \in requests \ {r} : plugs'[s.name] = plugs[s.name] BY <2>9, <3>1
    <3>4. requests' \subseteq RequestRecord /\ StartupRequests'
      BY <2>1, <2>6, <3>3, RequestGoesOn
    <3>5. StartupTyped' BY <1>0, <2>1, <3>1, <3>2, <3>4 DEF StartupTyped
    <3>6. Startup!CoreIsLocal'
      BY <1>0, <2>8, <3>1, <3>2, CoreIsName DEF Startup!CoreIsLocal
    <3>7. \A n \in Startup!Names : Replaces(n) BY <2>8, <3>1 DEF Replaces
    <3> QED BY <1>a, <2>1, <2>3, <3>4, <3>5, <3>6, <3>7 DEF StartupInv
  <2>7. CASE /\ requests' = (requests \ {r}) \cup {[r EXCEPT !.st = "done"]}
             /\ UNCHANGED <<plugs, stored>>
    <3>1. requests' \subseteq RequestRecord /\ StartupRequests'
      BY <2>1, <2>7, RequestGoesOn
    <3>2. StartupTyped' /\ Startup!CoreIsLocal'
      BY <1>0, <2>1, <2>7, <3>1 DEF StartupTyped, Startup!CoreIsLocal
    <3> QED BY <1>a, <1>b, <2>1, <2>3, <2>7, <3>1, <3>2 DEF StartupInv
  <2> QED BY <1>8, <2>5, <2>6, <2>7 DEF Startup!begin, e
<1>9. ASSUME NEW r \in requests, Startup!launch(r) PROVE Goal
  <2> DEFINE e == Startup!Effective(r)
  <2>1. /\ r.st = "launching" /\ UNCHANGED <<env, setupPc, inProgress, message>>
        /\ requests' = (requests \ {r}) \cup {[r EXCEPT !.st = "done"]}
        /\ r \in RequestRecord /\ r.name \in Startup!Names
    BY <1>0, <1>9 DEF Startup!launch, Startup!Keep, StartupTyped, RequestRecord
  <2>2. r.name = CorePluginName => e.kind = "local"
    <3>1. r.name = CorePluginName => r.action = "INSTALL" /\ r.kind = "local" BY <1>0 DEF StartupRequests
    <3> QED BY <3>1 DEF Startup!Effective
  <2> HIDE DEF e
  <2>3. SetupPhases' /\ MessageItems' BY <1>0, <2>1 DEF SetupPhases, MessageItems
  <2>4. Startup!Absent \in PluginEntry /\ Startup!Absent.kind = "absent"
    BY DEF Startup!Absent, PluginEntry, RevisionIds
  <2>5. plugs[r.name] \in PluginEntry BY <1>0, <2>1 DEF StartupTyped
  <2>6. PICK p \in PluginEntry : /\ plugs' = [plugs EXCEPT ![r.name] = p]
                                 /\ \/ p.kind = "absent"
                                    \/ p.kind = plugs[r.name].kind /\ p.rev = plugs[r.name].rev
    <3> DEFINE q == [plugs[r.name] EXCEPT !.state = "running"]
    <3>1. q \in PluginEntry /\ q.kind = plugs[r.name].kind /\ q.rev = plugs[r.name].rev
      BY <2>5 DEF PluginEntry
    <3>2. plugs' = [plugs EXCEPT ![r.name] = q] \/ plugs' = [plugs EXCEPT ![r.name] = Startup!Absent]
      BY <1>9 DEF Startup!launch
    <3> HIDE DEF q
    <3>3. CASE plugs' = [plugs EXCEPT ![r.name] = q] BY <3>1, <3>3
    <3>4. CASE plugs' = [plugs EXCEPT ![r.name] = Startup!Absent]
      <4> QED BY <2>4, <3>4
    <3> QED BY <3>2, <3>3, <3>4
  <2>7. /\ plugs' \in [Startup!Names -> PluginEntry] /\ plugs'[r.name] = p
        /\ \A n \in Startup!Names \ {r.name} : plugs'[n] = plugs[n]
    BY <1>0, <2>1, <2>6 DEF StartupTyped
  <2>8. /\ stored' \in [Startup!Names -> PluginEntry]
        /\ \/ stored' = stored
           \/ e.kind = "dynamic" /\ \E x : stored' = [stored EXCEPT ![r.name] = x]
    <3> DEFINE new == [stored EXCEPT ![r.name] = [plugs[r.name] EXCEPT !.state = "running"]]
    <3>1. stored' = stored \/ (e.kind = "dynamic" /\ stored' = new)
      <4>1. stored' = (IF e.kind = "dynamic" THEN new ELSE stored) \/ stored' = stored
        BY <1>9 DEF Startup!launch, e
      <4> HIDE DEF new
      <4> QED BY <4>1
    <3>2. [plugs[r.name] EXCEPT !.state = "running"] \in PluginEntry BY <2>5 DEF PluginEntry
    <3> QED BY <1>0, <3>1, <3>2 DEF StartupTyped
  <2>9. stored'[CorePluginName] = stored[CorePluginName]
    BY <1>0, <2>2, <2>8, CoreIsName DEF StartupTyped
  <2>10. \A s \in requests \ {r} : plugs'[s.name] = plugs[s.name]
    BY <1>0, <2>7 DEF StartupRequests, StartupTyped, RequestRecord
  <2>11. requests' \subseteq RequestRecord /\ StartupRequests'
    BY <2>1, <2>10, RequestGoesOn
  <2>12. StartupTyped' BY <1>0, <2>1, <2>7, <2>8, <2>11 DEF StartupTyped
  <2>13. Startup!CoreIsLocal'
    BY <1>0, <2>6, <2>7, <2>9, CoreIsName DEF Startup!CoreIsLocal
  <2>14. \A n \in Startup!Names : Replaces(n) BY <2>6, <2>7 DEF Replaces
  <2> QED BY <1>a, <2>1, <2>3, <2>11, <2>12, <2>13, <2>14 DEF StartupInv
<1>10. ASSUME NEW r \in requests, Startup!finish(r) PROVE Goal
  <2>1. /\ UNCHANGED <<env, setupPc, plugs, stored, message>> /\ inProgress' = inProgress \ {r.name}
        /\ requests' = IF r.by = "boot" THEN requests ELSE requests \ {r}
    BY <1>10 DEF Startup!finish, Startup!Keep
  <2>2. StartupTyped' /\ MessageItems' /\ Startup!CoreIsLocal'
    BY <1>0, <2>1 DEF StartupTyped, MessageItems, Startup!CoreIsLocal
  <2>3. SetupPhases' BY <1>0, <2>1 DEF SetupPhases
  <2>4. StartupRequests'
    <3>1. \A s \in requests' : s \in requests /\ (s.by # "boot" => s.name # r.name)
      BY <1>0, <2>1 DEF StartupRequests
    <3> QED BY <1>0, <2>1, <3>1 DEF StartupRequests
  <2> QED BY <1>a, <1>b, <2>1, <2>2, <2>3, <2>4 DEF StartupInv
<1>11. ASSUME NEW n \in Startup!Names, Startup!crash(n) \/ Startup!relaunch(n) PROVE Goal
  <2>1. UNCHANGED <<env, setupPc, stored, inProgress, requests, message>>
    BY <1>11 DEF Startup!crash, Startup!relaunch, Startup!Keep
  <2>2. PICK st \in {"crashed", "running"} : plugs' = [plugs EXCEPT ![n].state = st]
    BY <1>11 DEF Startup!crash, Startup!relaunch
  <2>3. /\ plugs' \in [Startup!Names -> PluginEntry]
        /\ \A m \in Startup!Names : plugs'[m].kind = plugs[m].kind /\ plugs'[m].rev = plugs[m].rev
    BY <1>0, <2>2 DEF StartupTyped, PluginEntry
  <2>4. StartupTyped' /\ MessageItems' BY <1>0, <2>1, <2>3 DEF StartupTyped, MessageItems
  <2>5. SetupPhases' BY <1>0, <2>1, <2>3 DEF SetupPhases
  <2>6. StartupRequests' BY <1>0, <2>1, <2>3 DEF StartupRequests, StartupTyped, RequestRecord
  <2>7. Startup!CoreIsLocal' BY <1>0, <2>1, <2>3, CoreIsName DEF Startup!CoreIsLocal
  <2>8. \A m \in Startup!Names : Replaces(m) BY <2>3 DEF Replaces
  <2> QED BY <1>a, <2>1, <2>4, <2>5, <2>6, <2>7, <2>8 DEF StartupInv
<1>12. CASE Startup!handleMessage
  <2>1. setupPc = "run" /\ UNCHANGED <<env, setupPc, plugs, stored, inProgress, requests>>
    BY <1>12 DEF Startup!handleMessage
  <2>2. PICK c \in Startup!Item, d \in Startup!Item :
          (c.name # d.name \/ c = d) /\ message' = Startup!ToConfigure({c, d})
    BY <1>12 DEF Startup!handleMessage
  <2>3. message' \subseteq {c, d} /\ \A x \in message' : x.name # CorePluginName
    BY <2>2 DEF Startup!ToConfigure
  <2>4. StartupTyped' /\ MessageItems' BY <1>0, <2>1, <2>2, <2>3 DEF StartupTyped, MessageItems
  <2>5. SetupPhases' /\ StartupRequests' /\ Startup!CoreIsLocal'
    BY <1>0, <2>1 DEF SetupPhases, StartupRequests, Startup!CoreIsLocal
  <2> QED BY <1>a, <1>b, <2>1, <2>4, <2>5 DEF StartupInv
<1>13. CASE Startup!ConfigurePluginStates
  <2> DEFINE chosen == {c \in message : c.name \notin inProgress}
             new(c) == Startup!Request(c.name, c.action, "dynamic", c.rev, "acs")
  <2>1. /\ message # {} /\ message' = {} /\ UNCHANGED <<env, setupPc, plugs, stored>>
        /\ inProgress' = inProgress \cup {c.name : c \in chosen}
        /\ requests' = requests \cup {new(c) : c \in chosen}
    BY <1>13 DEF Startup!ConfigurePluginStates, Startup!Keep, Startup!NoMessage
  <2>2. setupPc = "run" BY <1>0, <2>1 DEF SetupPhases
  <2>3. ASSUME NEW c \in chosen
        PROVE  /\ new(c) \in RequestRecord /\ new(c).name = c.name /\ new(c).kind = "dynamic"
               /\ new(c).by = "acs" /\ c.name \in Startup!Names /\ c.name # CorePluginName
               /\ c.name \notin inProgress
    BY <1>0 DEF StartupTyped, MessageItems, Startup!Item, Startup!Request, RequestRecord, RevisionIds
  <2>4. \A c \in chosen, d \in chosen : c.name = d.name => c = d BY <1>0 DEF MessageItems
  <2> HIDE DEF new, chosen
  <2>5. \A r \in requests : r.name \in inProgress BY <1>0, <2>2 DEF StartupRequests
  <2>6. requests' \subseteq RequestRecord /\ inProgress' \subseteq Startup!Names
    BY <1>0, <2>1, <2>3 DEF StartupTyped
  <2>7. StartupTyped' /\ MessageItems' /\ SetupPhases' /\ Startup!CoreIsLocal'
    BY <1>0, <2>1, <2>2, <2>6 DEF StartupTyped, MessageItems, SetupPhases, Startup!CoreIsLocal
  <2>8. StartupRequests'
    <3> SUFFICES ASSUME NEW q \in requests' PROVE
          /\ q.kind = "local" => q.action = "INSTALL"
          /\ q.name = CorePluginName => q.kind = "local" /\ q.rev = Version
          /\ q.by \in {"boot", "later"} => setupPc' = "wait"
          /\ q.by # "boot" => q.name \in inProgress'
          /\ \A s \in requests' : s.name = q.name => s = q
          /\ q.kind = "local" /\ q.st = "marked" => plugs'[q.name].kind # "dynamic"
      BY DEF StartupRequests
    <3>1. CASE q \in requests
      BY <1>0, <2>1, <2>3, <2>5, <3>1 DEF StartupRequests
    <3>2. CASE \E c \in chosen : q = new(c)
      <4>1. PICK c \in chosen : q = new(c) BY <3>2
      <4>2. ASSUME NEW s \in requests', s.name = q.name PROVE s = q
        <5>1. s \notin requests BY <2>3, <2>5, <4>1, <4>2
        <5>2. PICK d \in chosen : s = new(d) BY <2>1, <5>1
        <5> QED BY <2>3, <2>4, <4>1, <4>2, <5>2
      <4> QED BY <2>1, <2>3, <4>1, <4>2
    <3> QED BY <2>1, <3>1, <3>2
  <2> QED BY <1>a, <1>b, <2>1, <2>7, <2>8 DEF StartupInv
<1>14. CASE Startup!coreInitializes \/ Startup!watchStatus
  <2>1. UNCHANGED <<env, setupPc, plugs, stored, inProgress, requests, message>>
    BY <1>14 DEF Startup!coreInitializes, Startup!watchStatus, Startup!Keep
  <2> QED BY <1>0, <1>a, <1>b, <2>1
      DEF StartupInv, StartupTyped, SetupPhases, MessageItems, StartupRequests, Startup!CoreIsLocal
<1> QED
  BY <1>1, <1>2, <1>3, <1>4, <1>5, <1>6, <1>7, <1>8, <1>9, <1>10, <1>11, <1>12, <1>13, <1>14
  DEF Startup!Next

\* A step of another component changes none of it.
LEMMA StartupStutters == StartupInv /\ UNCHANGED startupVars => StartupInv'
BY DEF StartupInv, StartupTyped, LocalPlugins, SetupPhases, MessageItems, StartupRequests, Startup!CoreIsLocal,
       startupVars, Startup!GetLocalPlugin

\* The core plugin stays the one of the agent's own version, installed locally, whatever ACS
\* sends and however often the agent restarts, for any set of plugins and revisions
\* (AgentStartup; the filter is configurePluginStates of the ACS handler).
THEOREM CorePluginIsLocal == AgentSpec => []CoreIsLocal
<1>1. AgentInit => StartupInv BY StartupInitial DEF AgentInit
<1>2. StartupInv /\ [AgentNext]_allVars => StartupInv'
  BY OneComponentMoves, StartupStepPreserves, StartupStutters
<1>3. StartupInv => CoreIsLocal BY DEF StartupInv, CoreIsLocal
<1> QED BY <1>1, <1>2, <1>3, PTL DEF AgentSpec

\* A local plugin takes the place of a dynamic one only in a request that removes the dynamic
\* one: StartLocalPlugins finds every dynamic revision that InitPluginManager loaded, and no
\* request for the plugin can come in between (AgentStartup).
THEOREM DynamicHasPrecedence == AgentSpec => DynamicTakesPrecedence
<1> DEFINE A == \A n \in Startup!Names : Replaces(n)
<1>1. AgentInit => StartupInv BY StartupInitial DEF AgentInit
<1>2. StartupInv /\ [AgentNext]_allVars => StartupInv' /\ [A]_(Startup!vars)
  BY OneComponentMoves, StartupStepPreserves, StartupStutters DEF startupVars, Startup!vars
<1>3. A <=> \A n \in Startup!Names :
              plugs[n].kind = "dynamic" /\ plugs'[n].kind = "local" =>
                \E r \in requests : r.name = n /\ r.action = "REMOVE"
  BY DEF Replaces
<1> QED BY <1>1, <1>2, <1>3, PTL DEF AgentSpec, DynamicTakesPrecedence, Startup!DynamicTakesPrecedence

-----------------------------------------------------------------------------
(* The legacy agent and the core plugin                                    *)

\* CompatManager: the operations a switch is made of.
SwitchOps ==
    {"disable legacy", "stop legacy", "knob on", "certs off", "restart manager", "knob off",
     "stop manager", "stop core", "start manager", "certs on", "enable legacy", "start legacy"}

\* s is what is left of a switch when it has n operations to go.
LastOfEnable(s, n) ==
    s \in Seq(SwitchOps) /\ Len(s) = n /\ \A i \in 1..n : s[i] = Compat!enableCorePlugin[5 - n + i]

LastOfDisable(s, n) ==
    s \in Seq(SwitchOps) /\ Len(s) = n /\ \A i \in 1..n : s[i] = Compat!disableCorePlugin[7 - n + i]

\* Types of the switches of the machine.
CompatTyped ==
    /\ legacy \in [enabled : BOOLEAN, up : BOOLEAN]
    /\ coreKnob \in BOOLEAN /\ mgrUp \in BOOLEAN /\ mgrCore \in BOOLEAN /\ coreUp \in BOOLEAN
    /\ todoSteps \in Seq(SwitchOps)

\* A legacy agent that runs, or would run after a reboot, leaves no way to a core plugin.
LegacyExcludesCore == legacy.enabled \/ legacy.up => ~coreKnob /\ ~mgrCore /\ ~coreUp

\* What the operations of a switch that were carried out have established.
SwitchProgress ==
    \/ todoSteps = <<>>
    \/ LastOfEnable(todoSteps, 5)
    \/ LastOfEnable(todoSteps, 4) /\ ~legacy.enabled
    \/ LastOfEnable(todoSteps, 3) /\ ~legacy.enabled /\ ~legacy.up
    \/ LastOfEnable(todoSteps, 2)
    \/ LastOfEnable(todoSteps, 1)
    \/ LastOfDisable(todoSteps, 7)
    \/ LastOfDisable(todoSteps, 6) /\ ~coreKnob
    \/ LastOfDisable(todoSteps, 5) /\ ~coreKnob /\ ~mgrUp /\ ~coreUp
    \/ LastOfDisable(todoSteps, 4) /\ ~coreKnob /\ ~mgrUp /\ ~coreUp
    \/ LastOfDisable(todoSteps, 3) /\ ~coreKnob /\ ~mgrCore /\ ~coreUp
    \/ LastOfDisable(todoSteps, 2) /\ ~coreKnob /\ ~mgrCore /\ ~coreUp
    \/ LastOfDisable(todoSteps, 1) /\ ~coreKnob /\ ~mgrCore /\ ~coreUp

\* Inductive: a switch that is under way has done what its next operation relies on.
CompatInv == CompatTyped /\ LegacyExcludesCore /\ SwitchProgress

\* enableCorePlugin: the operation that is next, and what is left after it.
LEMMA EnableTails ==
  ASSUME NEW s
  PROVE  /\ LastOfEnable(s, 5) => Head(s) = "disable legacy" /\ LastOfEnable(Tail(s), 4)
         /\ LastOfEnable(s, 4) => Head(s) = "stop legacy" /\ LastOfEnable(Tail(s), 3)
         /\ LastOfEnable(s, 3) => Head(s) = "knob on" /\ LastOfEnable(Tail(s), 2)
         /\ LastOfEnable(s, 2) => Head(s) = "certs off" /\ LastOfEnable(Tail(s), 1)
         /\ LastOfEnable(s, 1) => Head(s) = "restart manager" /\ Tail(s) = <<>>
<1>1. ASSUME NEW n \in 1..5, NEW m, m = n - 1, LastOfEnable(s, n)
      PROVE  LastOfEnable(Tail(s), m) /\ Head(s) = Compat!enableCorePlugin[5 - m]
  BY <1>1 DEF LastOfEnable
<1>2. ASSUME NEW x, LastOfEnable(x, 0) PROVE x = <<>>
  BY <1>2 DEF LastOfEnable
<1>3. /\ Compat!enableCorePlugin[1] = "disable legacy"
      /\ Compat!enableCorePlugin[2] = "stop legacy"
      /\ Compat!enableCorePlugin[3] = "knob on"
      /\ Compat!enableCorePlugin[4] = "certs off"
      /\ Compat!enableCorePlugin[5] = "restart manager"
  BY DEF Compat!enableCorePlugin
<1>4. ASSUME LastOfEnable(s, 5) PROVE Head(s) = "disable legacy" /\ LastOfEnable(Tail(s), 4)
  <2>1. Head(s) = Compat!enableCorePlugin[1] BY <1>4, <1>1
  <2>2. LastOfEnable(Tail(s), 4) BY <1>4, <1>1
  <2> QED BY <2>1, <2>2, <1>3
<1>5. ASSUME LastOfEnable(s, 4) PROVE Head(s) = "stop legacy" /\ LastOfEnable(Tail(s), 3)
  <2>1. Head(s) = Compat!enableCorePlugin[2] BY <1>5, <1>1
  <2>2. LastOfEnable(Tail(s), 3) BY <1>5, <1>1
  <2> QED BY <2>1, <2>2, <1>3
<1>6. ASSUME LastOfEnable(s, 3) PROVE Head(s) = "knob on" /\ LastOfEnable(Tail(s), 2)
  <2>1. Head(s) = Compat!enableCorePlugin[3] BY <1>6, <1>1
  <2>2. LastOfEnable(Tail(s), 2) BY <1>6, <1>1
  <2> QED BY <2>1, <2>2, <1>3
<1>7. ASSUME LastOfEnable(s, 2) PROVE Head(s) = "certs off" /\ LastOfEnable(Tail(s), 1)
  <2>1. Head(s) = Compat!enableCorePlugin[4] BY <1>7, <1>1
  <2>2. LastOfEnable(Tail(s), 1) BY <1>7, <1>1
  <2> QED BY <2>1, <2>2, <1>3
<1>8. ASSUME LastOfEnable(s, 1) PROVE Head(s) = "restart manager" /\ Tail(s) = <<>>
  <2>1. Head(s) = Compat!enableCorePlugin[5] BY <1>8, <1>1
  <2>2. LastOfEnable(Tail(s), 0) BY <1>8, <1>1
  <2>3. Tail(s) = <<>> BY <2>2, <1>2
  <2> QED BY <2>1, <2>3, <1>3
<1> QED BY <1>4, <1>5, <1>6, <1>7, <1>8

\* disableCorePlugin: the operation that is next, and what is left after it.
LEMMA DisableTails ==
  ASSUME NEW s
  PROVE  /\ LastOfDisable(s, 7) => Head(s) = "knob off" /\ LastOfDisable(Tail(s), 6)
         /\ LastOfDisable(s, 6) => Head(s) = "stop manager" /\ LastOfDisable(Tail(s), 5)
         /\ LastOfDisable(s, 5) => Head(s) = "stop core" /\ LastOfDisable(Tail(s), 4)
         /\ LastOfDisable(s, 4) => Head(s) = "start manager" /\ LastOfDisable(Tail(s), 3)
         /\ LastOfDisable(s, 3) => Head(s) = "certs on" /\ LastOfDisable(Tail(s), 2)
         /\ LastOfDisable(s, 2) => Head(s) = "enable legacy" /\ LastOfDisable(Tail(s), 1)
         /\ LastOfDisable(s, 1) => Head(s) = "start legacy" /\ Tail(s) = <<>>
<1>1. ASSUME NEW n \in 1..7, NEW m, m = n - 1, LastOfDisable(s, n)
      PROVE  LastOfDisable(Tail(s), m) /\ Head(s) = Compat!disableCorePlugin[7 - m]
  BY <1>1 DEF LastOfDisable
<1>2. ASSUME NEW x, LastOfDisable(x, 0) PROVE x = <<>>
  BY <1>2 DEF LastOfDisable
<1>3. /\ Compat!disableCorePlugin[1] = "knob off"
      /\ Compat!disableCorePlugin[2] = "stop manager"
      /\ Compat!disableCorePlugin[3] = "stop core"
      /\ Compat!disableCorePlugin[4] = "start manager"
      /\ Compat!disableCorePlugin[5] = "certs on"
      /\ Compat!disableCorePlugin[6] = "enable legacy"
      /\ Compat!disableCorePlugin[7] = "start legacy"
  BY DEF Compat!disableCorePlugin
<1>4. ASSUME LastOfDisable(s, 7) PROVE Head(s) = "knob off" /\ LastOfDisable(Tail(s), 6)
  <2>1. Head(s) = Compat!disableCorePlugin[1] BY <1>4, <1>1
  <2>2. LastOfDisable(Tail(s), 6) BY <1>4, <1>1
  <2> QED BY <2>1, <2>2, <1>3
<1>5. ASSUME LastOfDisable(s, 6) PROVE Head(s) = "stop manager" /\ LastOfDisable(Tail(s), 5)
  <2>1. Head(s) = Compat!disableCorePlugin[2] BY <1>5, <1>1
  <2>2. LastOfDisable(Tail(s), 5) BY <1>5, <1>1
  <2> QED BY <2>1, <2>2, <1>3
<1>6. ASSUME LastOfDisable(s, 5) PROVE Head(s) = "stop core" /\ LastOfDisable(Tail(s), 4)
  <2>1. Head(s) = Compat!disableCorePlugin[3] BY <1>6, <1>1
  <2>2. LastOfDisable(Tail(s), 4) BY <1>6, <1>1
  <2> QED BY <2>1, <2>2, <1>3
<1>7. ASSUME LastOfDisable(s, 4) PROVE Head(s) = "start manager" /\ LastOfDisable(Tail(s), 3)
  <2>1. Head(s) = Compat!disableCorePlugin[4] BY <1>7, <1>1
  <2>2. LastOfDisable(Tail(s), 3) BY <1>7, <1>1
  <2> QED BY <2>1, <2>2, <1>3
<1>8. ASSUME LastOfDisable(s, 3) PROVE Head(s) = "certs on" /\ LastOfDisable(Tail(s), 2)
  <2>1. Head(s) = Compat!disableCorePlugin[5] BY <1>8, <1>1
  <2>2. LastOfDisable(Tail(s), 2) BY <1>8, <1>1
  <2> QED BY <2>1, <2>2, <1>3
<1>9. ASSUME LastOfDisable(s, 2) PROVE Head(s) = "enable legacy" /\ LastOfDisable(Tail(s), 1)
  <2>1. Head(s) = Compat!disableCorePlugin[6] BY <1>9, <1>1
  <2>2. LastOfDisable(Tail(s), 1) BY <1>9, <1>1
  <2> QED BY <2>1, <2>2, <1>3
<1>10. ASSUME LastOfDisable(s, 1) PROVE Head(s) = "start legacy" /\ Tail(s) = <<>>
  <2>1. Head(s) = Compat!disableCorePlugin[7] BY <1>10, <1>1
  <2>2. LastOfDisable(Tail(s), 0) BY <1>10, <1>1
  <2>3. Tail(s) = <<>> BY <2>2, <1>2
  <2> QED BY <2>1, <2>3, <1>3
<1> QED BY <1>4, <1>5, <1>6, <1>7, <1>8, <1>9, <1>10

\* The two switches begin with all their operations to go.
LEMMA SwitchBegins ==
  /\ LastOfEnable(Compat!enableCorePlugin, 5)
  /\ LastOfDisable(Compat!disableCorePlugin, 7)
<1>1. LastOfEnable(Compat!enableCorePlugin, 5)
  BY DEF LastOfEnable, Compat!enableCorePlugin, SwitchOps
<1>2. LastOfDisable(Compat!disableCorePlugin, 7)
  BY DEF LastOfDisable, Compat!disableCorePlugin, SwitchOps
<1> QED BY <1>1, <1>2

\* What each operation does to the machine (effect), and that it does no more.
LEMMA EffectOf ==
  ASSUME NEW op, Compat!effect(op)
  PROVE  /\ op \in {"certs on", "certs off", "stop core"} =>
              UNCHANGED <<coreKnob, legacy, mgrUp, mgrCore, coreUp>>
         /\ op = "disable legacy" => /\ legacy' = [legacy EXCEPT !.enabled = FALSE]
                                     /\ UNCHANGED <<coreKnob, mgrUp, mgrCore, coreUp>>
         /\ op = "enable legacy" => /\ legacy' = [legacy EXCEPT !.enabled = TRUE]
                                    /\ UNCHANGED <<coreKnob, mgrUp, mgrCore, coreUp>>
         /\ op = "stop legacy" => /\ legacy' = [legacy EXCEPT !.up = FALSE]
                                  /\ UNCHANGED <<coreKnob, mgrUp, mgrCore, coreUp>>
         /\ op = "start legacy" => /\ legacy' = [legacy EXCEPT !.up = TRUE]
                                   /\ UNCHANGED <<coreKnob, mgrUp, mgrCore, coreUp>>
         /\ op = "knob on" => coreKnob' = TRUE /\ UNCHANGED <<legacy, mgrUp, mgrCore, coreUp>>
         /\ op = "knob off" => coreKnob' = FALSE /\ UNCHANGED <<legacy, mgrUp, mgrCore, coreUp>>
         /\ op \in {"start manager", "restart manager"} =>
              mgrUp' = TRUE /\ mgrCore' = coreKnob /\ UNCHANGED <<coreKnob, legacy>>
         /\ op = "start manager" => UNCHANGED coreUp
         /\ op \in {"stop manager", "restart manager"} => coreUp' = FALSE
         /\ op = "stop manager" => mgrUp' = FALSE /\ UNCHANGED <<coreKnob, legacy, mgrCore>>
BY DEF Compat!effect, Compat!SetCorePluginEnabled, Compat!managerEnds, Compat!stopCorePlugin

\* The initial states of the compat manager satisfy its invariant.
LEMMA CompatInitial == Compat!Init => CompatInv
<1> SUFFICES ASSUME Compat!Init PROVE CompatInv
  OBVIOUS
<1>1. CompatTyped /\ SwitchProgress
  BY DEF Compat!Init, CompatTyped, SwitchProgress
<1>2. CASE coreKnob = TRUE
  BY <1>1, <1>2 DEF Compat!Init, CompatInv, LegacyExcludesCore
<1>3. CASE coreKnob = FALSE
  BY <1>1, <1>3 DEF Compat!Init, CompatInv, LegacyExcludesCore
<1> QED BY <1>2, <1>3 DEF Compat!Init

\* An operation of a switch that is carried out, whether or not the switch goes on after
\* it, preserves the invariant (enableDisableAgent).
LEMMA OperationPreserves ==
  ASSUME CompatInv, todoSteps # <<>>, Compat!effect(Head(todoSteps)),
         todoSteps' \in {<<>>, Tail(todoSteps)}
  PROVE  CompatInv'
<1> DEFINE op == Head(todoSteps)
           left == Tail(todoSteps)
<1>t. todoSteps' \in Seq(SwitchOps)
  <2>1. todoSteps \in Seq(SwitchOps) BY DEF CompatInv, CompatTyped
  <2>2. Tail(todoSteps) \in Seq(SwitchOps) BY <2>1
  <2>3. <<>> \in Seq(SwitchOps) OBVIOUS
  <2> QED BY <2>2, <2>3
<1>u. LegacyExcludesCore /\ CompatTyped BY DEF CompatInv
<1> USE DEF CompatInv, LegacyExcludesCore, SwitchProgress
<1>1. CASE LastOfEnable(todoSteps, 5)
  <2>1. op = "disable legacy" /\ LastOfEnable(left, 4) BY <1>1, EnableTails
  <2>2. legacy' = [legacy EXCEPT !.enabled = FALSE] /\ UNCHANGED <<coreKnob, mgrUp, mgrCore, coreUp>>
    BY <2>1, EffectOf
  <2>3. ~legacy'.enabled /\ legacy'.up = legacy.up BY <2>2, <1>u DEF CompatTyped
  <2>4. CompatTyped' BY <2>2, <1>t, <1>u DEF CompatTyped
  <2> QED BY <2>1, <2>2, <2>3, <2>4, <1>u DEF CompatTyped
<1>2. CASE LastOfEnable(todoSteps, 4) /\ ~legacy.enabled
  <2>1. op = "stop legacy" /\ LastOfEnable(left, 3) BY <1>2, EnableTails
  <2>2. legacy' = [legacy EXCEPT !.up = FALSE] /\ UNCHANGED <<coreKnob, mgrUp, mgrCore, coreUp>>
    BY <2>1, EffectOf
  <2>3. ~legacy'.up /\ legacy'.enabled = legacy.enabled BY <2>2, <1>u DEF CompatTyped
  <2>4. CompatTyped' BY <2>2, <1>t, <1>u DEF CompatTyped
  <2> QED BY <1>2, <2>1, <2>2, <2>3, <2>4, <1>u DEF CompatTyped
<1>3. CASE LastOfEnable(todoSteps, 3) /\ ~legacy.enabled /\ ~legacy.up
  <2>1. op = "knob on" /\ LastOfEnable(left, 2) BY <1>3, EnableTails
  <2>2. coreKnob' = TRUE /\ UNCHANGED <<legacy, mgrUp, mgrCore, coreUp>> BY <2>1, EffectOf
  <2>3. CompatTyped' BY <2>2, <1>t, <1>u DEF CompatTyped
  <2> QED BY <1>3, <2>1, <2>2, <2>3, <1>u DEF CompatTyped
<1>4. CASE LastOfEnable(todoSteps, 2)
  <2>1. op = "certs off" /\ LastOfEnable(left, 1) BY <1>4, EnableTails
  <2>2. UNCHANGED <<coreKnob, legacy, mgrUp, mgrCore, coreUp>> BY <2>1, EffectOf
  <2>3. CompatTyped' BY <2>2, <1>t, <1>u DEF CompatTyped
  <2> QED BY <2>1, <2>2, <2>3, <1>u DEF CompatTyped
<1>5. CASE LastOfEnable(todoSteps, 1)
  <2>1. op = "restart manager" /\ left = <<>> BY <1>5, EnableTails
  <2>2. mgrUp' = TRUE /\ mgrCore' = coreKnob /\ coreUp' = FALSE /\ UNCHANGED <<coreKnob, legacy>>
    BY <2>1, EffectOf
  <2>3. CompatTyped' BY <2>2, <1>t, <1>u DEF CompatTyped
  <2> QED BY <2>1, <2>2, <2>3, <1>u DEF CompatTyped
<1>6. CASE LastOfDisable(todoSteps, 7)
  <2>1. op = "knob off" /\ LastOfDisable(left, 6) BY <1>6, DisableTails
  <2>2. coreKnob' = FALSE /\ UNCHANGED <<legacy, mgrUp, mgrCore, coreUp>> BY <2>1, EffectOf
  <2>3. CompatTyped' BY <2>2, <1>t, <1>u DEF CompatTyped
  <2> QED BY <2>1, <2>2, <2>3, <1>u DEF CompatTyped
<1>7. CASE LastOfDisable(todoSteps, 6) /\ ~coreKnob
  <2>1. op = "stop manager" /\ LastOfDisable(left, 5) BY <1>7, DisableTails
  <2>2. mgrUp' = FALSE /\ coreUp' = FALSE /\ UNCHANGED <<coreKnob, legacy, mgrCore>>
    BY <2>1, EffectOf
  <2>3. CompatTyped' BY <2>2, <1>t, <1>u DEF CompatTyped
  <2> QED BY <1>7, <2>1, <2>2, <2>3, <1>u DEF CompatTyped
<1>8. CASE LastOfDisable(todoSteps, 5) /\ ~coreKnob /\ ~mgrUp /\ ~coreUp
  <2>1. op = "stop core" /\ LastOfDisable(left, 4) BY <1>8, DisableTails
  <2>2. UNCHANGED <<coreKnob, legacy, mgrUp, mgrCore, coreUp>> BY <2>1, EffectOf
  <2>3. CompatTyped' BY <2>2, <1>t, <1>u DEF CompatTyped
  <2> QED BY <1>8, <2>1, <2>2, <2>3, <1>u DEF CompatTyped
<1>9. CASE LastOfDisable(todoSteps, 4) /\ ~coreKnob /\ ~mgrUp /\ ~coreUp
  <2>1. op = "start manager" /\ LastOfDisable(left, 3) BY <1>9, DisableTails
  <2>2. mgrUp' = TRUE /\ mgrCore' = coreKnob /\ UNCHANGED <<coreKnob, legacy, coreUp>>
    BY <2>1, EffectOf
  <2>3. CompatTyped' BY <2>2, <1>t, <1>u DEF CompatTyped
  <2> QED BY <1>9, <2>1, <2>2, <2>3, <1>u DEF CompatTyped
<1>10. CASE LastOfDisable(todoSteps, 3) /\ ~coreKnob /\ ~mgrCore /\ ~coreUp
  <2>1. op = "certs on" /\ LastOfDisable(left, 2) BY <1>10, DisableTails
  <2>2. UNCHANGED <<coreKnob, legacy, mgrUp, mgrCore, coreUp>> BY <2>1, EffectOf
  <2>3. CompatTyped' BY <2>2, <1>t, <1>u DEF CompatTyped
  <2> QED BY <1>10, <2>1, <2>2, <2>3, <1>u DEF CompatTyped
<1>11. CASE LastOfDisable(todoSteps, 2) /\ ~coreKnob /\ ~mgrCore /\ ~coreUp
  <2>1. op = "enable legacy" /\ LastOfDisable(left, 1) BY <1>11, DisableTails
  <2>2. legacy' = [legacy EXCEPT !.enabled = TRUE] /\ UNCHANGED <<coreKnob, mgrUp, mgrCore, coreUp>>
    BY <2>1, EffectOf
  <2>3. CompatTyped' BY <2>2, <1>t, <1>u DEF CompatTyped
  <2> QED BY <1>11, <2>1, <2>2, <2>3, <1>u DEF CompatTyped
<1>12. CASE LastOfDisable(todoSteps, 1) /\ ~coreKnob /\ ~mgrCore /\ ~coreUp
  <2>1. op = "start legacy" /\ left = <<>> BY <1>12, DisableTails
  <2>2. legacy' = [legacy EXCEPT !.up = TRUE] /\ UNCHANGED <<coreKnob, mgrUp, mgrCore, coreUp>>
    BY <2>1, EffectOf
  <2>3. CompatTyped' BY <2>2, <1>t, <1>u DEF CompatTyped
  <2> QED BY <1>12, <2>1, <2>2, <2>3, <1>u DEF CompatTyped
<1> QED BY <1>1, <1>2, <1>3, <1>4, <1>5, <1>6, <1>7, <1>8, <1>9, <1>10, <1>11, <1>12

\* Every step of the compat manager, and of the machine around it, preserves the invariant.
LEMMA CompatStepPreserves == CompatInv /\ Compat!Next => CompatInv'
<1> SUFFICES ASSUME CompatInv, Compat!Next PROVE CompatInv'
  OBVIOUS
<1>1. CASE Compat!Setup
  <2>1. todoSteps' = Compat!enableCorePlugin \/ todoSteps' = Compat!disableCorePlugin
    BY <1>1 DEF Compat!Setup
  <2>2. LastOfEnable(todoSteps', 5) \/ LastOfDisable(todoSteps', 7)
    BY <2>1, SwitchBegins
  <2>3. todoSteps' \in Seq(SwitchOps) BY <2>2 DEF LastOfEnable, LastOfDisable
  <2>4. UNCHANGED <<coreKnob, legacy, mgrUp, mgrCore, coreUp>> BY <1>1 DEF Compat!Setup, Compat!machine
  <2> QED BY <2>2, <2>3, <2>4 DEF CompatInv, CompatTyped, LegacyExcludesCore, SwitchProgress
<1>2. CASE Compat!step
  BY <1>2, OperationPreserves DEF Compat!step
<1>3. CASE Compat!stepFails
  <2>1. CASE Compat!effect(Head(todoSteps))
    BY <1>3, <2>1, OperationPreserves DEF Compat!stepFails
  <2>2. CASE UNCHANGED Compat!machine
    BY <1>3, <2>2 DEF Compat!stepFails, Compat!machine, CompatInv, CompatTyped,
                      LegacyExcludesCore, SwitchProgress
  <2> QED BY <1>3, <2>1, <2>2 DEF Compat!stepFails
<1>4. CASE Compat!wish
  BY <1>4 DEF Compat!wish, Compat!machine, CompatInv, CompatTyped, LegacyExcludesCore, SwitchProgress
<1>5. CASE Compat!NewManager
  BY <1>5 DEF Compat!NewManager, Compat!machine, CompatInv, CompatTyped, LegacyExcludesCore,
              SwitchProgress
<1>6. CASE Compat!reboot
  <2>1. legacy' \in [enabled : BOOLEAN, up : BOOLEAN]
    BY <1>6 DEF Compat!reboot, CompatInv, CompatTyped
  <2>2. todoSteps' \in Seq(SwitchOps)
    BY <1>6 DEF Compat!reboot
  <2>3. mgrUp' \in BOOLEAN /\ mgrCore' \in BOOLEAN /\ coreKnob' \in BOOLEAN /\ coreUp' \in BOOLEAN
    BY <1>6 DEF Compat!reboot, CompatInv, CompatTyped
  <2>4. CompatTyped'
    BY <2>1, <2>2, <2>3 DEF CompatTyped
  <2>5. SwitchProgress'
    BY <1>6 DEF Compat!reboot, SwitchProgress
  <2>6. LegacyExcludesCore'
    BY <1>6 DEF Compat!reboot, CompatInv, CompatTyped, LegacyExcludesCore
  <2> QED BY <2>4, <2>5, <2>6 DEF CompatInv
<1>7. CASE Compat!launchCore
  <2>1. CompatTyped' BY <1>7 DEF Compat!launchCore, CompatInv, CompatTyped
  <2>2. LegacyExcludesCore'
    BY <1>7 DEF Compat!launchCore, CompatInv, CompatTyped, LegacyExcludesCore
  <2>3. SwitchProgress'
    BY <1>7 DEF Compat!launchCore, CompatInv, CompatTyped, SwitchProgress
  <2> QED BY <2>1, <2>2, <2>3 DEF CompatInv
<1>8. CASE Compat!managerDies
  <2>1. CompatTyped'
    BY <1>8 DEF Compat!managerDies, Compat!managerEnds, CompatInv, CompatTyped
  <2>2. LegacyExcludesCore'
    BY <1>8 DEF Compat!managerDies, Compat!managerEnds, CompatInv, CompatTyped, LegacyExcludesCore
  <2>3. SwitchProgress'
    BY <1>8 DEF Compat!managerDies, Compat!managerEnds, CompatInv, CompatTyped, SwitchProgress
  <2> QED BY <2>1, <2>2, <2>3 DEF CompatInv
<1>9. CASE Compat!coreDies
  <2>1. /\ coreUp' \in BOOLEAN /\ (coreUp' => coreUp)
        /\ UNCHANGED <<coreKnob, legacy, mgrUp, mgrCore, todoSteps>>
    <3>1. CASE coreUp = TRUE
      BY <1>9, <3>1 DEF Compat!coreDies
    <3>2. CASE coreUp = FALSE
      BY <1>9, <3>2 DEF Compat!coreDies
    <3> QED BY <3>1, <3>2 DEF CompatInv, CompatTyped
  <2> QED BY <2>1 DEF CompatInv, CompatTyped, LegacyExcludesCore, SwitchProgress
<1> QED BY <1>1, <1>2, <1>3, <1>4, <1>5, <1>6, <1>7, <1>8, <1>9 DEF Compat!Next

\* A step of another part of the program preserves it too.
LEMMA CompatStutters == CompatInv /\ UNCHANGED compatVars => CompatInv'
BY DEF CompatInv, CompatTyped, LegacyExcludesCore, SwitchProgress, compatVars

\* The legacy guest agent and the core plugin of the manager never run together: whichever
\* operation of a switch fails, whatever is wished for, dies, restarts or reboots in between.
THEOREM LegacyAndCoreExclude == AgentSpec => []NeverBoth
<1>1. AgentInit => CompatInv
  BY CompatInitial DEF AgentInit
<1>2. CompatInv /\ [AgentNext]_allVars => CompatInv'
  BY OneComponentMoves, CompatStepPreserves, CompatStutters
<1>3. CompatInv => NeverBoth
  BY DEF CompatInv, LegacyExcludesCore, NeverBoth, Compat!NeverBoth
<1> QED BY <1>1, <1>2, <1>3, PTL DEF AgentSpec

=============================================================================
