------------------------ MODULE PluginLifecycleProofs ------------------------
(***************************************************************************)
(* What the plugin manager keeps true through installs, upgrades,          *)
(* removals, monitors and restarts, proved for every set of plugins,       *)
(* revisions, requests and process ids:                                    *)
(*                                                                         *)
(*   NothingHalfInstalled  no plugin that is at rest is left INSTALLING or *)
(*                         with a pending revision                         *)
(*   ManagerGuardsMap      the map of plugins changes as PluginMap says:   *)
(*                         behind a mark, never over another object        *)
(*   MonitorsAreStopped    only the object the manager holds is monitored, *)
(*                         when ACS waits for a monitor to start           *)
(*   UpgradesAreReady      the running revision is only taken down once    *)
(*                         the next one is unpacked, when the cleanup job  *)
(*                         does not run                                    *)
(*   OneProcessPerPlugin   a plugin has at most one process, ...           *)
(*   NoProcessIsOrphaned   which the object the manager holds knows, and   *)
(*   RequestsReportTruly   what a request reports is what it leaves        *)
(*                         behind, in one run of the agent                 *)
(*   RunningIsDurable      a dynamic plugin at rest is found again after a *)
(*                         restart, when ACS waits for monitors and the    *)
(*                         cleanup job does not run                        *)
(*                                                                         *)
(* All of them rest on FlowInv, the control flow of every goroutine: which *)
(* workflow it is in, how much of it is left, and which object the manager *)
(* holds meanwhile.                                                        *)
(***************************************************************************)
EXTENDS PluginManagerProofs

-----------------------------------------------------------------------------
(*****************************************************************************)
(* The control flow of the goroutines: the invariant, the workflows and      *)
(* how one step of a workflow moves its thread.                              *)
(*****************************************************************************)

\* What may be left of an install workflow, generateInstallWorkflow.
Installs == {<<"download", "unpack", "launch">>, <<"unpack", "launch">>, <<"launch">>, <<>>}

\* What may be left of the part of an upgrade that runs beside the old revision.
Prelaunches == {<<"download", "unpack">>, <<"unpack">>, <<>>}

\* What may be left of the removal of a plugin.
Removals == {<<"remove">>, <<>>}

\* What may be left of a relaunch, by a monitor, by an APPLY or after a restart.
Relaunches == {<<"stop", "launch">>, <<"launch">>, <<>>}

\* What is left in the threads of s belongs to the workflow of the phase that s is in; an upgrade
\* that has taken the old revision down has only its launch left.
FitOK(s) ==
    /\ steps[Mon(s)] \in Relaunches
    /\ phase[s] = "install" => steps[Req(s)] \in Installs
    /\ phase[s] = "install" /\ curr[s] # None => steps[Req(s)] \in {<<"launch">>, <<>>}
    /\ phase[s] = "prelaunch" => steps[Req(s)] \in Prelaunches
    /\ phase[s] \in {"replace", "remove"} => steps[Req(s)] \in Removals
    /\ phase[s] \in {"apply", "load"} => steps[Req(s)] \in Relaunches
    /\ phase[s] = None => steps[Req(s)] = <<>>

\* A thread inside a step is inside the step its workflow begins with, and a thread outside
\* runSteps has no step left.
PointOK(t) ==
    /\ pc[t] = "mark" => Head(steps[t]) \in {"stop", "remove"}
    /\ pc[t] = "clean" => Head(steps[t]) = "remove"
    /\ pc[t] \in {"socket", "connect", "store", "write"} => Head(steps[t]) = "launch"
    /\ pc[t] \notin StepPc \cup {"run"} => steps[t] = <<>>

\* The request s has been accepted and its goroutine has not come to its last call.
Working(s) == Active(s) /\ pc[Req(s)] # "finish"

\* What s refers to: a monitor exists only once its request has handed over; the manager holds
\* only objects that were installed or loaded; the object that s found has the same name, and
\* another revision when s upgrades it.
RefOK(s) ==
    /\ pc[Mon(s)] # "off" => pc[Req(s)] \in {"finish", "done"}
    /\ pc[Req(s)] \in {"free", "dispatch"} => curr[s] = None /\ phase[s] = None
    /\ pc[Req(s)] = "check" => phase[s] = "load"
    /\ \A n \in Names : plugins[n] = s => phase[s] \in {"install", "load"}
    /\ curr[s] # None => /\ phase[curr[s]] \in {"install", "load"}
                         /\ req[curr[s]].name = req[s].name
    /\ phase[s] \in {"prelaunch", "replace", "install"} /\ curr[s] # None
         => req[curr[s]].rev # req[s].rev

\* What the manager holds under the name of a working request: the object s found, nothing
\* between the removal of the old revision and the launch of the new, or s itself.
PlaceOK(s) == Working(s) =>
    LET c == plugins[req[s].name] IN
    /\ phase[s] \in {"prelaunch", "remove", "apply"} => c = curr[s]
    /\ phase[s] = "replace" => c = IF pc[Req(s)] = "launch" THEN None ELSE curr[s]
    /\ phase[s] \in {"install", "load"} => c = s

\* The control flow of every goroutine.
FlowInv == \A s \in Slots : /\ FitOK(s) /\ RefOK(s) /\ PlaceOK(s)
                            /\ PointOK(Req(s)) /\ PointOK(Mon(s))

\* Heads and tails of the workflows that the manager builds.
LEMMA Workflows ==
    /\ Tail(<<"download", "unpack", "launch">>) = <<"unpack", "launch">>
    /\ Tail(<<"unpack", "launch">>) = <<"launch">>
    /\ Tail(<<"launch">>) = <<>>
    /\ Tail(<<"download", "unpack">>) = <<"unpack">>
    /\ Tail(<<"unpack">>) = <<>>
    /\ Tail(<<"remove">>) = <<>>
    /\ Tail(<<"stop", "launch">>) = <<"launch">>
    /\ Head(<<"download", "unpack", "launch">>) = "download"
    /\ Head(<<"unpack", "launch">>) = "unpack"
    /\ Head(<<"launch">>) = "launch"
    /\ Head(<<"download", "unpack">>) = "download"
    /\ Head(<<"unpack">>) = "unpack"
    /\ Head(<<"remove">>) = "remove"
    /\ Head(<<"stop", "launch">>) = "stop"
    /\ <<"launch">> # <<>> /\ <<"unpack", "launch">> # <<>>
    /\ <<"download", "unpack", "launch">> # <<>>
    /\ <<"download", "unpack">> # <<>> /\ <<"unpack">> # <<>>
    /\ <<"remove">> # <<>> /\ <<"stop", "launch">> # <<>>
  OBVIOUS

\* The workflows that a request starts with are those of preLaunchWorkflow,
\* generateInstallWorkflow and relaunchWorkflow.
LEMMA WorkflowValues ==
    ASSUME NEW local \in BOOLEAN
    PROVE  /\ preLaunchWorkflow(local) \in Prelaunches
           /\ generateInstallWorkflow(local) \in Installs
           /\ generateInstallWorkflow(local) # <<>>
           /\ relaunchWorkflow = <<"stop", "launch">>
  <1>1. preLaunchWorkflow(local) \in {<<"download", "unpack">>, <<>>}
    BY DEF preLaunchWorkflow
  <1>2. <<"download", "unpack">> \o <<"launch">> = <<"download", "unpack", "launch">>
    <2> DEFINE d == <<"download", "unpack">>
               w == <<"launch">>
               v == <<"download", "unpack", "launch">>
    <2>1. d \in Seq(StepKind) /\ w \in Seq(StepKind) /\ v \in Seq(StepKind)
      BY DEF StepKind
    <2>2. /\ Len(d) = 2 /\ d[1] = "download" /\ d[2] = "unpack"
          /\ Len(w) = 1 /\ w[1] = "launch"
          /\ Len(v) = 3 /\ v[1] = "download" /\ v[2] = "unpack" /\ v[3] = "launch"
      OBVIOUS
    <2> HIDE DEF d, w, v
    <2>3. /\ d \o w \in Seq(StepKind) /\ Len(d \o w) = Len(d) + Len(w)
          /\ \A i \in 1 .. Len(d) + Len(w) :
                (d \o w)[i] = IF i <= Len(d) THEN d[i] ELSE w[i - Len(d)]
      BY <2>1, ConcatProperties, Zenon
    <2>4. \A i \in 1 .. 3 : (d \o w)[i] = v[i]
      <3>1. (d \o w)[1] = d[1] /\ (d \o w)[2] = d[2] /\ (d \o w)[3] = w[1]
        BY <2>2, <2>3
      <3> QED BY <2>2, <3>1
    <2>5. Len(d \o w) = 3
      BY <2>2, <2>3
    <2>6. d \o w = v
      BY <2>1, <2>2, <2>3, <2>4, <2>5, SeqEqual, Zenon
    <2> QED BY <2>6 DEF d, w, v
  <1>3. <<>> \o <<"launch">> = <<"launch">>
    BY WorkflowType, ConcatEmptySeq
  <1> QED BY <1>1, <1>2, <1>3, Workflows
      DEF generateInstallWorkflow, Prelaunches, Installs, relaunchWorkflow

\* How a step moves its thread t, to l with the workflow w left: runSteps stops at a failure,
\* goes through the points of a step in order, and takes the next step after a success.
Transition(t, l, w) ==
    /\ \A u \in Threads : pc'[u] = IF u = t THEN l ELSE pc[u]
    /\ \A u \in Threads : steps'[u] = IF u = t THEN w ELSE steps[u]
    /\ \/ /\ pc[t] \in StepPc \cup {"run"} /\ l = "failed" /\ w = <<>>
          /\ steps[t] # <<>>
       \/ /\ w = steps[t] /\ steps[t] # <<>>
          /\ \/ pc[t] = "run" /\ l = "exec"
             \/ pc[t] = "exec" /\ Head(steps[t]) \in {"stop", "remove"} /\ l = "mark"
             \/ pc[t] = "mark" /\ Head(steps[t]) = "remove" /\ l = "clean"
             \/ /\ pc[t] = "exec" /\ Head(steps[t]) = "launch"
                /\ l \in {"socket", "connect"}
             \/ pc[t] = "socket" /\ l = "connect"
             \/ pc[t] = "connect" /\ l = "store"
             \/ pc[t] = "store" /\ l = "write"
       \/ /\ w = Tail(steps[t]) /\ steps[t] # <<>> /\ l = "run"
          /\ \/ pc[t] = "exec" /\ Head(steps[t]) \in {"download", "unpack"}
             \/ pc[t] = "mark" /\ Head(steps[t]) # "remove"
             \/ pc[t] \in {"clean", "store", "write"}
       \/ pc[t] = "check" /\ l = "run" /\ w \in {<<>>, <<"stop", "launch">>}

\* Every step is such a transition: runSteps and the Run methods of its steps.
LEMMA StepTransition ==
    ASSUME IInv, NEW t \in Threads, Step(t)
    PROVE  \E l, w : Transition(t, l, w)
  <1>1. /\ pc \in [Threads -> ReqPc \cup MonPc]
        /\ steps \in [Threads -> Seq(StepKind)]
        /\ pc[t] \in StepPc => steps[t] # <<>>
    BY DEF IInv, TypeOK, WellFormed, StepOK
  <1>2. ASSUME NEW l, NEW w, pc' = [pc EXCEPT ![t] = l], steps' = [steps EXCEPT ![t] = w]
        PROVE  /\ \A u \in Threads : pc'[u] = IF u = t THEN l ELSE pc[u]
               /\ \A u \in Threads : steps'[u] = IF u = t THEN w ELSE steps[u]
    BY <1>1, <1>2
  <1>3. ASSUME NEW l, Goto(t, l), UNCHANGED steps
        PROVE  /\ \A u \in Threads : pc'[u] = IF u = t THEN l ELSE pc[u]
               /\ \A u \in Threads : steps'[u] = IF u = t THEN steps[t] ELSE steps[u]
    BY <1>1, <1>3 DEF Goto
  <1>4. ASSUME StepDone(t)
        PROVE  /\ \A u \in Threads : pc'[u] = IF u = t THEN "run" ELSE pc[u]
               /\ \A u \in Threads : steps'[u] = IF u = t THEN Tail(steps[t]) ELSE steps[u]
    BY <1>1, <1>4 DEF StepDone, Goto
  <1>5. ASSUME StepFails(t), pc[t] \in StepPc \cup {"run"}, steps[t] # <<>>
        PROVE  Transition(t, "failed", <<>>)
    BY <1>1, <1>2, <1>5 DEF StepFails, Goto, Transition
  <1>6. CASE runSteps(t)
    <2>1. CASE cancelled
      BY <1>5, <1>6, <2>1 DEF runSteps
    <2>2. CASE ~cancelled
      <3>1. Transition(t, "exec", steps[t])
        BY <1>3, <1>6, <2>2 DEF runSteps, Transition
      <3> QED BY <3>1
    <2> QED BY <2>1, <2>2
  <1>7. CASE downloadStep(t) \/ unpackStep(t)
    <2>1. pc[t] = "exec" /\ Head(steps[t]) \in {"download", "unpack"} /\ steps[t] # <<>>
      BY <1>1, <1>7 DEF downloadStep, unpackStep, Executes, StepPc
    <2>2. CASE StepFails(t)
      BY <1>5, <2>1, <2>2 DEF StepPc
    <2>3. CASE StepDone(t)
      <3>1. Transition(t, "run", Tail(steps[t]))
        BY <1>4, <2>1, <2>3 DEF Transition
      <3> QED BY <3>1
    <2> QED BY <1>7, <2>2, <2>3 DEF downloadStep, unpackStep
  <1>8. CASE stopPlugin(t)
    <2>1. Transition(t, "mark", steps[t])
      BY <1>1, <1>3, <1>8 DEF stopPlugin, Executes, StepPc, Transition
    <2> QED BY <2>1
  <1>9. CASE markStopped(t)
    <2>1. pc[t] = "mark" /\ steps[t] # <<>>
      BY <1>1, <1>9 DEF markStopped, StepPc
    <2>2. CASE Head(steps[t]) = "remove"
      <3>1. Transition(t, "clean", steps[t])
        BY <1>3, <1>9, <2>1, <2>2 DEF markStopped, Transition
      <3> QED BY <3>1
    <2>3. CASE Head(steps[t]) # "remove"
      <3>1. Transition(t, "run", Tail(steps[t]))
        BY <1>4, <1>9, <2>1, <2>3 DEF markStopped, Transition
      <3> QED BY <3>1
    <2> QED BY <2>2, <2>3
  <1>10. CASE cleanup(t)
    <2>1. Transition(t, "run", Tail(steps[t]))
      BY <1>1, <1>4, <1>10 DEF cleanup, StepPc, Transition
    <2> QED BY <2>1
  <1>11. CASE launchStep(t)
    <2>1. pc[t] = "exec" /\ Head(steps[t]) = "launch" /\ steps[t] # <<>>
      BY <1>1, <1>11 DEF launchStep, Executes, StepPc
    <2>2. CASE StepFails(t)
      BY <1>5, <2>1, <2>2 DEF StepPc
    <2>3. CASE \E l \in {"socket", "connect"} : Goto(t, l) /\ UNCHANGED steps
      <3>1. PICK l \in {"socket", "connect"} : Goto(t, l) /\ UNCHANGED steps
        BY <2>3
      <3>2. Transition(t, l, steps[t])
        BY <1>3, <2>1, <3>1 DEF Transition
      <3> QED BY <3>2
    <2> QED BY <1>11, <2>2, <2>3 DEF launchStep
  <1>12. CASE awaitSocket(t)
    <2>1. pc[t] = "socket" /\ steps[t] # <<>>
      BY <1>1, <1>12 DEF awaitSocket, StepPc
    <2>2. CASE StepFails(t)
      BY <1>5, <2>1, <2>2 DEF StepPc
    <2>3. CASE Goto(t, "connect") /\ UNCHANGED steps
      <3>1. Transition(t, "connect", steps[t])
        BY <1>3, <2>1, <2>3 DEF Transition
      <3> QED BY <3>1
    <2> QED BY <1>12, <2>2, <2>3 DEF awaitSocket
  <1>13. CASE startPlugin(t)
    <2>1. pc[t] = "connect" /\ steps[t] # <<>>
      BY <1>1, <1>13 DEF startPlugin, StepPc
    <2>2. CASE StepFails(t)
      BY <1>5, <2>1, <2>2 DEF StepPc
    <2>3. CASE Goto(t, "store") /\ UNCHANGED steps
      <3>1. Transition(t, "store", steps[t])
        BY <1>3, <2>1, <2>3 DEF Transition
      <3> QED BY <3>1
    <2> QED BY <1>13, <2>2, <2>3 DEF startPlugin
  <1>14. CASE openStateFile(t) \/ writeStateFile(t)
    <2>1. pc[t] \in {"store", "write"} /\ steps[t] # <<>>
      BY <1>1, <1>14 DEF openStateFile, writeStateFile, StepPc
    <2>2. CASE StepFails(t)
      BY <1>5, <2>1, <2>2 DEF StepPc
    <2>3. CASE pc[t] = "store" /\ Goto(t, "write") /\ UNCHANGED steps
      <3>1. Transition(t, "write", steps[t])
        BY <1>3, <2>1, <2>3 DEF Transition
      <3> QED BY <3>1
    <2>4. CASE StepDone(t)
      <3>1. Transition(t, "run", Tail(steps[t]))
        BY <1>4, <2>1, <2>4 DEF Transition
      <3> QED BY <3>1
    <2> QED BY <1>14, <2>2, <2>3, <2>4 DEF openStateFile, writeStateFile
  <1>15. CASE connectOrReLaunch(t)
    <2>1. PICK w \in {<<>>, <<"stop", "launch">>} : RunSteps(t, w)
      BY <1>15 DEF connectOrReLaunch, relaunchWorkflow
    <2>2. Transition(t, "run", w)
      BY <1>2, <1>15, <2>1 DEF connectOrReLaunch, RunSteps, Goto, Transition
    <2> QED BY <2>2
  <1> QED BY <1>6, <1>7, <1>8, <1>9, <1>10, <1>11, <1>12, <1>13, <1>14, <1>15 DEF Step

-----------------------------------------------------------------------------
(*****************************************************************************)
(* What the handlers of a request do to its thread, its phase, the map of    *)
(* plugins and the objects.                                                  *)
(*****************************************************************************)

\* The request s is at l with the workflow w left; no other thread has moved.
ReqAt(s, l, w) ==
    /\ \A x \in Slots : pc'[Req(x)] = IF x = s THEN l ELSE pc[Req(x)]
    /\ \A x \in Slots : steps'[Req(x)] = IF x = s THEN w ELSE steps[Req(x)]
    /\ \A x \in Slots : pc'[Mon(x)] = pc[Mon(x)] /\ steps'[Mon(x)] = steps[Mon(x)]

\* The request s is in phase p and holds the object c; no other request has changed.
PhaseAt(s, p, c) ==
    /\ \A x \in Slots : phase'[x] = IF x = s THEN p ELSE phase[x]
    /\ \A x \in Slots : curr'[x] = IF x = s THEN c ELSE curr[x]

\* The manager holds o under the name n; nothing else in plugins has changed.
MapAt(n, o) == \A m \in Names : plugins'[m] = IF m = n THEN o ELSE plugins[m]

\* The request s may have been given a revision; no other request has changed.
Revised(s) ==
    /\ \A x \in Slots \ {s} : req'[x] = req[x]
    /\ req'[s].name = req[s].name /\ req'[s].action = req[s].action
    /\ req'[s] \in ReqType

\* Only the pending revision of the object c has changed, to v.
PendingAt(c, v) ==
    \A x \in Slots : /\ obj'[x].status = obj[x].status
                     /\ obj'[x].pid = obj[x].pid
                     /\ obj'[x].pending = IF x = c THEN v ELSE obj[x].pending

\* A request that goes to l moves no other thread.
LEMMA GotoEffect ==
    ASSUME IInv, NEW s \in Slots, NEW l, Goto(Req(s), l)
    PROVE  /\ UNCHANGED steps => ReqAt(s, l, steps[Req(s)])
           /\ \A w : steps' = [steps EXCEPT ![Req(s)] = w] => ReqAt(s, l, w)
  <1>1. /\ pc \in [Threads -> ReqPc \cup MonPc] /\ steps \in [Threads -> Seq(StepKind)]
        /\ \A x \in Slots : Req(x) \in Threads /\ Mon(x) \in Threads
        /\ \A x \in Slots : Mon(x) # Req(s) /\ (Req(x) = Req(s) <=> x = s)
    BY ThreadFacts DEF IInv, TypeOK
  <1> QED BY <1>1 DEF Goto, ReqAt

\* setPendingStatus changes the pending revision of one object.
LEMMA PendingEffect ==
    ASSUME IInv, NEW c \in Slots, NEW v, obj' = [obj EXCEPT ![c].pending = v]
    PROVE  PendingAt(c, v)
  <1>1. \A x \in Slots : obj[x] \in ObjType
    BY DEF IInv, TypeOK
  <1>2. \A x \in Slots : obj'[x] = IF x = c THEN [obj[x] EXCEPT !.pending = v] ELSE obj[x]
    BY DEF IInv, TypeOK
  <1> QED BY <1>1, <1>2 DEF PendingAt, ObjType

\* What a request becomes when its revision is that of a local manifest.
LEMMA RevisedRecord ==
    ASSUME NEW f \in ReqType, NEW r \in Revs, NEW b \in BOOLEAN
    PROVE  [f EXCEPT !.rev = r, !.local = b] =
             [name |-> f.name, rev |-> r, local |-> b, action |-> f.action]
  <1>1. f = [name |-> f.name, rev |-> f.rev, local |-> f.local, action |-> f.action]
    BY DEF ReqType
  <1>2. [f EXCEPT !.rev = r] =
           [name |-> f.name, rev |-> r, local |-> f.local, action |-> f.action]
    BY <1>1 DEF ReqType
  <1> DEFINE g == [f EXCEPT !.rev = r]
  <1>3. [f EXCEPT !.rev = r, !.local = b] = [g EXCEPT !.local = b]
    BY <1>1
  <1>4. [g EXCEPT !.local = b] = [name |-> f.name, rev |-> r, local |-> b, action |-> f.action]
    <2>1. g = [name |-> f.name, rev |-> r, local |-> f.local, action |-> f.action]
      BY <1>2
    <2> HIDE DEF g
    <2> QED BY <2>1
  <1> QED BY <1>3, <1>4

\* A request that is given the revision of a local manifest keeps its name and action.
LEMMA RevisedEffect ==
    ASSUME IInv, NEW s \in Slots, NEW r \in Revs, NEW b \in BOOLEAN,
           req' = [req EXCEPT ![s].rev = r, ![s].local = b]
    PROVE  Revised(s) /\ req'[s].rev = r /\ req'[s].local = b
  <1>1. req \in [Slots -> ReqType]
    BY DEF IInv, TypeOK
  <1>2. req'[s] = [req[s] EXCEPT !.rev = r, !.local = b] /\ req[s] \in ReqType
    BY <1>1
  <1>3. \A x \in Slots \ {s} : req'[x] = req[x]
    BY <1>1
  <1>4. req'[s] = [name |-> req[s].name, rev |-> r, local |-> b, action |-> req[s].action]
    BY <1>2, RevisedRecord
  <1>5. req'[s] \in ReqType
    BY <1>2, <1>4 DEF ReqType
  <1>6. /\ req'[s].name = req[s].name /\ req'[s].action = req[s].action
        /\ req'[s].rev = r /\ req'[s].local = b
    BY <1>4
  <1> QED BY <1>3, <1>5, <1>6 DEF Revised

\* configurePlugin gives up: the request goes to its last call and nothing else changes.
Refused(s) ==
    /\ ReqAt(s, "finish", <<>>) /\ PhaseAt(s, None, None)
    /\ UNCHANGED <<plugins, obj>>
    /\ Revised(s)
    /\ report' = [report EXCEPT ![s] = report'[s]]
    /\ \/ report'[s].event \in {None, "REMOVE_FAILED"}
       \/ report'[s].event = "INSTALL_FAILED" /\ plugins[req[s].name] # None

\* configurePlugin starts an upgrade of the object that the manager holds.
StartsUpgrade(s) ==
    LET c == plugins[req[s].name] IN
    /\ c \in Slots /\ req[c].rev # req'[s].rev /\ req'[s].rev \in Revs
    /\ ReqAt(s, "run", preLaunchWorkflow(req'[s].local))
    /\ PhaseAt(s, "prelaunch", c) /\ PendingAt(c, req'[s].rev) /\ Revised(s)
    /\ UNCHANGED <<plugins, report>>

\* configurePlugin starts the installation of a plugin that the manager does not hold.
StartsInstall(s) ==
    /\ plugins[req[s].name] = None
    /\ ReqAt(s, "run", generateInstallWorkflow(req'[s].local))
    /\ PhaseAt(s, "install", None) /\ MapAt(req[s].name, s) /\ Revised(s)
    /\ UNCHANGED <<obj, report>>

\* configurePlugin starts the removal of the object that the manager holds.
StartsRemove(s) ==
    LET c == plugins[req[s].name] IN
    /\ c \in Slots
    /\ ReqAt(s, "unmonitor", <<>>)
    /\ PhaseAt(s, "remove", c) /\ Revised(s)
    /\ UNCHANGED <<plugins, obj, req, report>>

\* A request at its dispatch has no phase, no object and no step yet.
LEMMA DispatchFacts ==
    ASSUME IInv, FlowInv, NEW s \in Slots, pc[Req(s)] = "dispatch"
    PROVE  /\ steps[Req(s)] = <<>> /\ curr[s] = None /\ phase[s] = None
           /\ phase \in [Slots -> PhaseType] /\ curr \in [Slots -> Slots \cup {None}]
           /\ req[s].name \in Names /\ Active(s)
           /\ plugins \in [Names -> Slots \cup {None}]
           /\ report \in [Slots -> [event : EventType,
                                   verdict : {"success", "failure", None}]]
           /\ req[s] \in ReqType
           /\ req[s].action = "INSTALL" => req[s].rev \in Revs
  BY ReqFacts DEF IInv, TypeOK, FlowInv, PointOK, RefOK, StepPc, Active, ReqOK

\* installPlugin refuses the request, starts an upgrade or starts an installation.
LEMMA installPluginEffect ==
    ASSUME IInv, FlowInv, NEW s \in Slots, pc[Req(s)] = "dispatch",
           NEW r \in Revs, NEW b \in BOOLEAN, installPlugin(s, r, b)
    PROVE  Refused(s) \/ StartsUpgrade(s) \/ StartsInstall(s)
  <1> DEFINE c == plugins[req[s].name]
  <1>1. /\ steps[Req(s)] = <<>> /\ curr[s] = None /\ phase[s] = None
        /\ phase \in [Slots -> PhaseType] /\ curr \in [Slots -> Slots \cup {None}]
        /\ req[s].name \in Names
        /\ plugins \in [Names -> Slots \cup {None}] /\ c \in Slots \cup {None}
        /\ report \in [Slots -> [event : EventType,
                                 verdict : {"success", "failure", None}]]
    BY DispatchFacts
  <1>2. Revised(s) /\ req'[s].rev = r /\ req'[s].local = b
    BY RevisedEffect DEF installPlugin
  <1>3. CASE c # None /\ req[c].rev = r /\ Conclude(s, "INSTALL_FAILED", "failure")
             /\ UNCHANGED <<plugins, obj, phase, curr, steps>>
    <2>1. ReqAt(s, "finish", <<>>)
      BY <1>1, <1>3, GotoEffect DEF Conclude
    <2>2. report'[s].event = "INSTALL_FAILED"
          /\ report' = [report EXCEPT ![s] = report'[s]]
      BY <1>1, <1>3 DEF Conclude, Report
    <2>3. PhaseAt(s, None, None)
      BY <1>1, <1>3 DEF PhaseAt
    <2> QED BY <1>2, <1>3, <2>1, <2>2, <2>3 DEF Refused
  <1>4. CASE /\ c # None /\ req[c].rev # r
             /\ curr' = [curr EXCEPT ![s] = c]
             /\ setPendingStatus(c, r)
             /\ phase' = [phase EXCEPT ![s] = "prelaunch"]
             /\ RunSteps(Req(s), preLaunchWorkflow(b))
             /\ UNCHANGED <<plugins, report>>
    <2>1. ReqAt(s, "run", preLaunchWorkflow(b))
      BY <1>4, GotoEffect DEF RunSteps
    <2>2. PhaseAt(s, "prelaunch", c)
      BY <1>1, <1>4 DEF PhaseAt
    <2>3. PendingAt(c, r)
      BY <1>1, <1>4, PendingEffect DEF setPendingStatus
    <2> QED BY <1>1, <1>2, <1>4, <2>1, <2>2, <2>3 DEF StartsUpgrade
  <1>5. CASE /\ c = None
             /\ plugins' = [plugins EXCEPT ![req[s].name] = s]
             /\ phase' = [phase EXCEPT ![s] = "install"]
             /\ RunSteps(Req(s), generateInstallWorkflow(b))
             /\ UNCHANGED <<obj, curr, report>>
    <2>1. ReqAt(s, "run", generateInstallWorkflow(b))
      BY <1>5, GotoEffect DEF RunSteps
    <2>2. PhaseAt(s, "install", None)
      BY <1>1, <1>5 DEF PhaseAt
    <2>3. MapAt(req[s].name, s)
      BY <1>1, <1>5 DEF MapAt
    <2> QED BY <1>1, <1>2, <1>5, <2>1, <2>2, <2>3 DEF StartsInstall
  <1> QED BY <1>3, <1>4, <1>5 DEF installPlugin

\* configurePlugin refuses the request or starts one of its three workflows.
LEMMA configurePluginEffect ==
    ASSUME IInv, FlowInv, NEW s \in Slots, configurePlugin(s)
    PROVE  /\ pc[Req(s)] = "dispatch" /\ Active(s)
           /\ Refused(s) \/ StartsUpgrade(s) \/ StartsInstall(s) \/ StartsRemove(s)
  <1> DEFINE n == req[s].name
             c == plugins[n]
  <1>0. pc[Req(s)] = "dispatch"
    BY DEF configurePlugin
  <1>1. /\ steps[Req(s)] = <<>> /\ curr[s] = None /\ phase[s] = None
        /\ phase \in [Slots -> PhaseType] /\ curr \in [Slots -> Slots \cup {None}]
        /\ n \in Names /\ Active(s)
        /\ plugins \in [Names -> Slots \cup {None}] /\ c \in Slots \cup {None}
        /\ report \in [Slots -> [event : EventType,
                                 verdict : {"success", "failure", None}]]
        /\ req[s] \in ReqType
    BY <1>0, DispatchFacts
  <1>2. ASSUME req' = req PROVE Revised(s)
    BY <1>1, <1>2 DEF Revised
  <1>3. ASSUME NEW e \in {None, "REMOVE_FAILED"}, Conclude(s, e, "failure"),
               UNCHANGED <<plugins, obj, req, steps, phase, curr>>
        PROVE  Refused(s)
    <2>1. ReqAt(s, "finish", <<>>)
      BY <1>1, <1>3, GotoEffect DEF Conclude
    <2>2. report'[s].event = e /\ report' = [report EXCEPT ![s] = report'[s]]
      BY <1>1, <1>3 DEF Conclude, Report
    <2>3. PhaseAt(s, None, None)
      BY <1>1, <1>3 DEF PhaseAt
    <2> QED BY <1>2, <1>3, <2>1, <2>2, <2>3 DEF Refused
  <1>4. CASE req[s].action = "INSTALL" /\ installPlugin(s, req[s].rev, FALSE)
    BY <1>0, <1>1, <1>4, DispatchFacts, installPluginEffect
  <1>5. CASE LocalRev[n] # None /\ installPlugin(s, LocalRev[n], TRUE)
    <2>1. LocalRev[n] \in Revs
      BY <1>1, <1>5, ConstantsAssumption
    <2> QED BY <1>0, <1>1, <1>5, <2>1, installPluginEffect
  <1>6. CASE removePlugin(s)
    <2>1. CASE c = None
      BY <1>0, <1>1, <1>3, <1>6, <2>1 DEF removePlugin
    <2>2. CASE c # None
      <3>1. /\ curr' = [curr EXCEPT ![s] = c]
            /\ phase' = [phase EXCEPT ![s] = "remove"]
            /\ Goto(Req(s), "unmonitor")
            /\ UNCHANGED <<plugins, obj, req, steps, report>>
        BY <1>6, <2>2 DEF removePlugin
      <3>2. ReqAt(s, "unmonitor", <<>>)
        BY <1>1, <3>1, GotoEffect
      <3>3. PhaseAt(s, "remove", c)
        BY <1>1, <3>1 DEF PhaseAt
      <3> QED BY <1>0, <1>1, <1>2, <2>2, <3>1, <3>2, <3>3 DEF StartsRemove
    <2> QED BY <2>1, <2>2
  <1>7. CASE Conclude(s, None, "failure")
             /\ UNCHANGED <<plugins, obj, req, steps, phase, curr>>
    BY <1>0, <1>1, <1>3, <1>7
  <1> QED BY <1>4, <1>5, <1>6, <1>7 DEF configurePlugin

-----------------------------------------------------------------------------
(*****************************************************************************)
(* The handlers of a request keep the control flow.                          *)
(*****************************************************************************)

USE ConstantsAssumption

\* The control flow stays when one request moves, changes its own phase and at most the entry of
\* its own name in plugins, and is itself in order afterwards.
LEMMA FlowFrame ==
    ASSUME IInv, OneRequestPerPlugin, FlowInv, NEW s \in Slots, Active(s),
           NEW l, NEW w, NEW p, NEW c, NEW m,
           ReqAt(s, l, w), PhaseAt(s, p, c), MapAt(req[s].name, m), Revised(s),
           m \in {plugins[req[s].name], None, s},
           phase[s] \in {"install", "load"} => p = phase[s] /\ req'[s] = req[s],
           FitOK(s)', RefOK(s)', PlaceOK(s)', PointOK(Req(s))'
    PROVE  FlowInv'
  <1> SUFFICES ASSUME NEW x \in Slots
               PROVE  (FitOK(x) /\ RefOK(x) /\ PlaceOK(x) /\ PointOK(Req(x)) /\ PointOK(Mon(x)))'
    BY DEF FlowInv
  <1>0. FitOK(x) /\ RefOK(x) /\ PlaceOK(x) /\ PointOK(Req(x)) /\ PointOK(Mon(x))
    BY DEF FlowInv
  <1>1. PointOK(Mon(x))'
    BY <1>0 DEF PointOK, ReqAt
  <1>2. CASE x = s
    BY <1>1, <1>2
  <1>3. CASE x # s
    <2>1. /\ pc'[Req(x)] = pc[Req(x)] /\ pc'[Mon(x)] = pc[Mon(x)]
          /\ steps'[Req(x)] = steps[Req(x)] /\ steps'[Mon(x)] = steps[Mon(x)]
          /\ phase'[x] = phase[x] /\ curr'[x] = curr[x] /\ req'[x] = req[x]
      BY <1>3 DEF ReqAt, PhaseAt, Revised
    <2>2. FitOK(x)' /\ PointOK(Req(x))'
      BY <1>0, <2>1 DEF FitOK, PointOK
    <2>3. curr[x] \in Slots \cup {None}
      BY DEF IInv, TypeOK
    <2>4. ASSUME curr[x] # None
          PROVE  phase'[curr[x]] = phase[curr[x]] /\ req'[curr[x]] = req[curr[x]]
      BY <1>0, <2>3, <2>4 DEF RefOK, PhaseAt, Revised
    <2>5. \A n \in Names : plugins'[n] = x => plugins[n] = x
      BY <1>3 DEF MapAt, IInv, TypeOK
    <2>6. RefOK(x)'
      BY <1>0, <2>1, <2>4, <2>5 DEF RefOK
    <2>7. Working(x)' <=> Working(x)
      BY <2>1 DEF Working, Active
    <2>8. ASSUME Working(x) PROVE plugins'[req[x].name] = plugins[req[x].name]
      <3>1. req[x].name # req[s].name /\ req[x].name \in Names
        BY <1>3, <2>8, ReqFacts DEF Working, OneRequestPerPlugin
      <3> QED BY <3>1 DEF MapAt
    <2>9. PlaceOK(x)'
      BY <1>0, <2>1, <2>7, <2>8 DEF PlaceOK
    <2> QED BY <1>1, <2>2, <2>6, <2>9
  <1> QED BY <1>2, <1>3

\* The control flow stays when one request moves on within its phase.
LEMMA FlowMove ==
    ASSUME IInv, OneRequestPerPlugin, FlowInv, NEW s \in Slots, Active(s),
           NEW l, NEW w, ReqAt(s, l, w), UNCHANGED <<plugins, phase, curr, req>>,
           FitOK(s)', PlaceOK(s)', PointOK(Req(s))',
           l \notin {"free", "dispatch", "check"}, pc[Req(s)] = "finish" => l = "done"
    PROVE  FlowInv'
  <1>1. PhaseAt(s, phase[s], curr[s]) /\ MapAt(req[s].name, plugins[req[s].name])
    BY DEF PhaseAt, MapAt
  <1>2. Revised(s)
    BY ReqFacts DEF Revised
  <1>3. RefOK(s)'
    BY DEF FlowInv, RefOK, ReqAt, Active
  <1> QED BY <1>1, <1>2, <1>3, FlowFrame

\* configurePlugin keeps the control flow.
LEMMA configurePluginFlow ==
    ASSUME IInv, OneRequestPerPlugin, FlowInv, NEW s \in Slots, configurePlugin(s)
    PROVE  FlowInv'
  <1> DEFINE n == req[s].name
             o == plugins[n]
  <1>1. /\ pc[Req(s)] = "dispatch" /\ Active(s)
        /\ steps[Req(s)] = <<>> /\ curr[s] = None /\ phase[s] = None
        /\ n \in Names /\ o \in Slots \cup {None}
        /\ FitOK(s) /\ RefOK(s) /\ PlaceOK(s)
        /\ plugins \in [Names -> Slots \cup {None}]
    BY configurePluginEffect, DispatchFacts DEF FlowInv
  <1>2. CASE Refused(s)
    <2>1. MapAt(n, o) /\ ReqAt(s, "finish", <<>>) /\ PhaseAt(s, None, None) /\ Revised(s)
          /\ plugins' = plugins
      BY <1>2 DEF Refused, MapAt
    <2>2. FitOK(s)' /\ PointOK(Req(s))' /\ PlaceOK(s)' /\ RefOK(s)'
      BY <1>1, <2>1 DEF FitOK, PointOK, ReqAt, PhaseAt, StepPc, PlaceOK, Working, RefOK
    <2> QED BY <1>1, <2>1, <2>2, FlowFrame
  <1>3. CASE StartsUpgrade(s)
    <2>1. /\ o \in Slots /\ req[o].rev # req'[s].rev /\ plugins' = plugins
          /\ ReqAt(s, "run", preLaunchWorkflow(req'[s].local))
          /\ PhaseAt(s, "prelaunch", o) /\ Revised(s) /\ MapAt(n, o)
      BY <1>3 DEF StartsUpgrade, MapAt
    <2>2. preLaunchWorkflow(req'[s].local) \in Prelaunches
      BY <2>1, WorkflowValues DEF Revised, ReqType
    <2>3. o # s /\ phase[o] \in {"install", "load"} /\ req[o].name = n
      BY <1>1, <2>1 DEF RefOK, FlowInv, IInv, WellFormed, MapOK
    <2>4. FitOK(s)' /\ PointOK(Req(s))'
      BY <1>1, <2>1, <2>2 DEF FitOK, PointOK, ReqAt, PhaseAt, StepPc
    <2>5. PlaceOK(s)'
      BY <1>1, <2>1 DEF PlaceOK, PhaseAt, Revised
    <2>6. RefOK(s)'
      <3>1. phase'[o] = phase[o] /\ req'[o] = req[o]
        BY <2>1, <2>3 DEF PhaseAt, Revised
      <3>2. \A m \in Names : plugins'[m] # s
        BY <1>1, <2>1 DEF RefOK
      <3> QED BY <1>1, <2>1, <2>3, <3>1, <3>2 DEF RefOK, ReqAt, PhaseAt, Revised
    <2> QED BY <1>1, <2>1, <2>4, <2>5, <2>6, FlowFrame
  <1>4. CASE StartsInstall(s)
    <2>1. /\ ReqAt(s, "run", generateInstallWorkflow(req'[s].local))
          /\ PhaseAt(s, "install", None) /\ Revised(s) /\ MapAt(n, s)
      BY <1>4 DEF StartsInstall
    <2>2. generateInstallWorkflow(req'[s].local) \in Installs
      BY <2>1, WorkflowValues DEF Revised, ReqType
    <2>4. FitOK(s)' /\ PointOK(Req(s))'
      BY <1>1, <2>1, <2>2 DEF FitOK, PointOK, ReqAt, PhaseAt, StepPc
    <2>5. PlaceOK(s)'
      BY <1>1, <2>1 DEF PlaceOK, PhaseAt, Revised, MapAt
    <2>6. RefOK(s)'
      BY <1>1, <2>1 DEF RefOK, ReqAt, PhaseAt
    <2> QED BY <1>1, <2>1, <2>4, <2>5, <2>6, FlowFrame
  <1>5. CASE StartsRemove(s)
    <2>1. /\ o \in Slots /\ plugins' = plugins
          /\ ReqAt(s, "unmonitor", <<>>)
          /\ PhaseAt(s, "remove", o) /\ Revised(s) /\ MapAt(n, o)
      BY <1>5 DEF StartsRemove, MapAt
    <2>3. o # s /\ phase[o] \in {"install", "load"} /\ req[o].name = n
      BY <1>1, <2>1 DEF RefOK, FlowInv, IInv, WellFormed, MapOK
    <2>4. FitOK(s)' /\ PointOK(Req(s))'
      BY <1>1, <2>1 DEF FitOK, PointOK, ReqAt, PhaseAt, StepPc, Removals
    <2>5. PlaceOK(s)'
      BY <1>1, <2>1 DEF PlaceOK, PhaseAt, Revised
    <2>6. RefOK(s)'
      <3>1. phase'[o] = phase[o] /\ req'[o] = req[o]
        BY <2>1, <2>3 DEF PhaseAt, Revised
      <3>2. \A m \in Names : plugins'[m] # s
        BY <1>1, <2>1 DEF RefOK
      <3> QED BY <1>1, <2>1, <2>3, <3>1, <3>2 DEF RefOK, ReqAt, PhaseAt, Revised
    <2> QED BY <1>1, <2>1, <2>4, <2>5, <2>6, FlowFrame
  <1> QED BY <1>2, <1>3, <1>4, <1>5, configurePluginEffect

\* The request s has launched its plugin and hands over to a monitor.
HandedOver(s) ==
    /\ \A x \in Slots : /\ pc'[Req(x)] = IF x = s THEN "finish" ELSE pc[Req(x)]
                        /\ pc'[Mon(x)] = IF x = s THEN "schedule" ELSE pc[Mon(x)]
    /\ UNCHANGED <<steps, plugins, phase, curr, req>>

\* Starting the monitor and going to the last call is handing over.
LEMMA HandOverEffect ==
    ASSUME IInv, NEW s \in Slots, UNCHANGED <<steps, plugins, phase, curr, req>>,
           pc' = [pc EXCEPT ![Req(s)] = "finish", ![Mon(s)] = "schedule"]
    PROVE  HandedOver(s)
  <1>1. /\ pc \in [Threads -> ReqPc \cup MonPc]
        /\ \A x \in Slots : Req(x) \in Threads /\ Mon(x) \in Threads /\ Req(x) # Mon(s)
        /\ \A x \in Slots : Mon(x) # Req(s) /\ (Req(x) = Req(s) <=> x = s)
                                           /\ (Mon(x) = Mon(s) <=> x = s)
    BY ThreadFacts DEF IInv, TypeOK
  <1> QED BY <1>1 DEF HandedOver

\* Handing over keeps the control flow.
LEMMA HandOverFlow ==
    ASSUME IInv, FlowInv, NEW s \in Slots, HandedOver(s),
           pc[Req(s)] = "run", steps[Req(s)] = <<>>
    PROVE  FlowInv'
  <1> SUFFICES ASSUME NEW x \in Slots
               PROVE  (FitOK(x) /\ RefOK(x) /\ PlaceOK(x) /\ PointOK(Req(x)) /\ PointOK(Mon(x)))'
    BY DEF FlowInv
  <1>1. FitOK(x) /\ RefOK(x) /\ PlaceOK(x) /\ PointOK(Req(x)) /\ PointOK(Mon(x))
    BY DEF FlowInv
  <1>2. FitOK(x)' /\ RefOK(x)'
    BY <1>1 DEF FitOK, RefOK, HandedOver
  <1>3. pc[Mon(s)] = "off" /\ steps[Mon(s)] = <<>>
    BY DEF FlowInv, RefOK, PointOK, StepPc
  <1>4. PointOK(Req(x))' /\ PointOK(Mon(x))'
    BY <1>1, <1>3 DEF PointOK, HandedOver
  <1>5. PlaceOK(x)'
    BY <1>1 DEF PlaceOK, HandedOver, Working, Active
  <1> QED BY <1>2, <1>4, <1>5

\* Where a request is when its runSteps returns.
LEMMA OverFacts ==
    ASSUME IInv, FlowInv, NEW s \in Slots, NEW p, StepsDone(s, p) \/ StepsFailed(s, p)
    PROVE  /\ pc[Req(s)] \in {"run", "failed"} /\ steps[Req(s)] = <<>> /\ phase[s] = p
           /\ Active(s) /\ Working(s) /\ pc[Mon(s)] = "off"
           /\ req[s].name \in Names
           /\ FitOK(s) /\ RefOK(s) /\ PlaceOK(s) /\ ReqOK(s)
           /\ curr[s] \in Slots \cup {None}
           /\ p \in {"prelaunch", "replace", "remove", "apply"} => curr[s] \in Slots
           /\ plugins \in [Names -> Slots \cup {None}] /\ phase \in [Slots -> PhaseType]
           /\ curr \in [Slots -> Slots \cup {None}]
           /\ req[s] \in ReqType
  <1>1. /\ pc[Req(s)] \in {"run", "failed"} /\ Active(s) /\ phase[s] = p
        /\ req[s].name \in Names /\ ReqOK(s)
    BY PhaseFacts
  <1>2. steps[Req(s)] = <<>>
    BY DEF StepsDone, StepsFailed, FlowInv, PointOK, StepPc
  <1>3. pc[Mon(s)] = "off" /\ Working(s)
    BY <1>1 DEF FlowInv, RefOK, Working
  <1>4. /\ curr[s] \in Slots \cup {None}
        /\ p \in {"prelaunch", "replace", "remove", "apply"} => curr[s] \in Slots
    BY <1>1 DEF IInv, TypeOK, ReqOK
  <1> QED BY <1>1, <1>2, <1>3, <1>4 DEF FlowInv, IInv, TypeOK

\* A request that goes to its last call, and may drop its plugin from the map, keeps the control
\* flow.
LEMMA ConcludeFlow ==
    ASSUME IInv, OneRequestPerPlugin, FlowInv, NEW s \in Slots, Active(s),
           steps[Req(s)] = <<>>, pc[Req(s)] # "finish",
           Goto(Req(s), "finish"), UNCHANGED <<steps, phase, curr, req>>,
           NEW m \in {plugins[req[s].name], None}, MapAt(req[s].name, m)
    PROVE  ReqAt(s, "finish", <<>>) /\ FlowInv'
  <1>1. ReqAt(s, "finish", <<>>)
    BY GotoEffect
  <1>2. PhaseAt(s, phase[s], curr[s]) /\ Revised(s) /\ req[s].name \in Names
    BY ReqFacts DEF PhaseAt, Revised
  <1>3. FitOK(s) /\ RefOK(s) /\ PlaceOK(s)
    BY DEF FlowInv
  <1>4. FitOK(s)' /\ PlaceOK(s)' /\ PointOK(Req(s))'
    BY <1>1, <1>3 DEF FitOK, PlaceOK, PointOK, ReqAt, Working
  <1>5. RefOK(s)'
    BY <1>1, <1>2, <1>3 DEF RefOK, ReqAt, MapAt, IInv, TypeOK
  <1> QED BY <1>1, <1>2, <1>4, <1>5, FlowFrame

\* applyConfig keeps the control flow.
LEMMA applyConfigFlow ==
    ASSUME IInv, OneRequestPerPlugin, FlowInv, NEW s \in Slots, applyConfig(s)
    PROVE  FlowInv'
  <1> DEFINE n == req[s].name
             o == plugins[n]
  <1>1. /\ pc[Req(s)] = "dispatch" /\ Active(s)
        /\ steps[Req(s)] = <<>> /\ curr[s] = None /\ phase[s] = None
        /\ n \in Names /\ o \in Slots \cup {None}
        /\ FitOK(s) /\ RefOK(s) /\ PlaceOK(s)
        /\ plugins \in [Names -> Slots \cup {None}]
        /\ phase \in [Slots -> PhaseType] /\ curr \in [Slots -> Slots \cup {None}]
        /\ UNCHANGED <<plugins, steps, req>>
    BY DispatchFacts DEF FlowInv, applyConfig, memory
  <1>2. MapAt(n, o) /\ Revised(s)
    BY <1>1, ReqFacts DEF MapAt, Revised
  <1>3. CASE Conclude(s, "APPLY_FAILED", "failure") /\ UNCHANGED <<phase, curr>>
    BY <1>1, <1>2, <1>3, ConcludeFlow DEF Conclude
  <1>4. CASE /\ o # None
             /\ curr' = [curr EXCEPT ![s] = o]
             /\ phase' = [phase EXCEPT ![s] = "apply"]
             /\ Goto(Req(s), "apply")
    <2>1. ReqAt(s, "apply", <<>>) /\ PhaseAt(s, "apply", o)
      BY <1>1, <1>4, GotoEffect DEF PhaseAt
    <2>2. o # s /\ phase[o] \in {"install", "load"} /\ req[o].name = n /\ o \in Slots
      BY <1>1, <1>4 DEF RefOK, FlowInv, IInv, WellFormed, MapOK
    <2>3. FitOK(s)' /\ PointOK(Req(s))'
      BY <1>1, <2>1 DEF FitOK, PointOK, ReqAt, PhaseAt, StepPc, Relaunches
    <2>4. PlaceOK(s)'
      BY <1>1, <2>1 DEF PlaceOK, PhaseAt
    <2>5. RefOK(s)'
      <3>1. phase'[o] = phase[o] /\ req'[o] = req[o]
        BY <1>1, <2>1, <2>2 DEF PhaseAt
      <3>2. \A m \in Names : plugins'[m] # s
        BY <1>1 DEF RefOK
      <3> QED BY <1>1, <2>1, <2>2, <3>1, <3>2 DEF RefOK, ReqAt, PhaseAt
    <2> QED BY <1>1, <1>2, <2>1, <2>3, <2>4, <2>5, FlowFrame
  <1> QED BY <1>3, <1>4 DEF applyConfig

\* Sending the new configuration to a running plugin keeps the control flow.
LEMMA ApplyFlow ==
    ASSUME IInv, OneRequestPerPlugin, FlowInv, NEW s \in Slots, Apply(s)
    PROVE  FlowInv'
  <1>1. /\ pc[Req(s)] = "apply" /\ Active(s) /\ phase[s] = "apply" /\ steps[Req(s)] = <<>>
        /\ UNCHANGED <<plugins, phase, curr, req>>
        /\ FitOK(s) /\ PlaceOK(s) /\ req[s].name \in Names
    BY ReqFacts DEF Apply, Active, ReqOK, FlowInv, PointOK, StepPc, memory
  <1>2. MapAt(req[s].name, plugins[req[s].name])
    BY <1>1 DEF MapAt
  <1>3. CASE Goto(Req(s), "finish") /\ UNCHANGED steps
    BY <1>1, <1>2, <1>3, ConcludeFlow
  <1>4. CASE RunSteps(Req(s), relaunchWorkflow)
    <2>1. ReqAt(s, "run", <<"stop", "launch">>)
      BY <1>4, GotoEffect DEF RunSteps, relaunchWorkflow
    <2>2. FitOK(s)' /\ PlaceOK(s)' /\ PointOK(Req(s))'
      BY <1>1, <2>1 DEF FitOK, PlaceOK, PointOK, ReqAt, Relaunches, StepPc, Working
    <2> QED BY <1>1, <2>1, <2>2, FlowMove
  <1> QED BY <1>3, <1>4 DEF Apply, Conclude

\* Stopping a monitor keeps the control flow.
LEMMA stopMonitoringFlow ==
    ASSUME IInv, OneRequestPerPlugin, FlowInv, NEW s \in Slots, stopMonitoring(s)
    PROVE  FlowInv'
  <1>1. /\ pc[Req(s)] = "unmonitor" /\ Active(s) /\ phase[s] \in {"replace", "remove"}
        /\ steps[Req(s)] = <<>>
        /\ UNCHANGED <<plugins, phase, curr, req>>
        /\ FitOK(s) /\ PlaceOK(s)
    BY ReqFacts DEF stopMonitoring, Active, ReqOK, FlowInv, PointOK, StepPc
  <1>2. ReqAt(s, "unschedule", <<>>) \/ ReqAt(s, "run", <<"remove">>)
    BY <1>1, GotoEffect DEF stopMonitoring, RunSteps
  <1>3. CASE ReqAt(s, "unschedule", <<>>)
    <2>2. FitOK(s)' /\ PlaceOK(s)' /\ PointOK(Req(s))'
      BY <1>1, <1>3 DEF FitOK, PlaceOK, PointOK, ReqAt, Removals, StepPc, Working, Active
    <2> QED BY <1>1, <1>3, <2>2, FlowMove
  <1>4. CASE ReqAt(s, "run", <<"remove">>)
    <2>2. FitOK(s)' /\ PlaceOK(s)' /\ PointOK(Req(s))'
      BY <1>1, <1>4 DEF FitOK, PlaceOK, PointOK, ReqAt, Removals, StepPc, Working, Active
    <2> QED BY <1>1, <1>4, <2>2, FlowMove
  <1> QED BY <1>2, <1>3, <1>4

\* What UnscheduleJob does to the threads: the monitor whose job it takes away is gone if it is
\* idle, and the request goes on with its removal.
LEMMA UnscheduleEffect ==
    ASSUME IInv, NEW s \in Slots, UnscheduleJob(s)
    PROVE  LET j == jobs[FullName(curr[s])] IN
           /\ pc[Req(s)] = "unschedule" /\ Active(s) /\ curr[s] \in Slots
           /\ FullName(curr[s]) \in FullNames /\ j \in Slots \cup {None}
           /\ \A x \in Slots : pc'[Req(x)] = IF x = s THEN "run" ELSE pc[Req(x)]
           /\ \A x \in Slots : pc'[Mon(x)] = IF x = j /\ pc[Mon(x)] = "idle" THEN "gone"
                                             ELSE pc[Mon(x)]
           /\ j # None => pc[Mon(j)] \in {"idle", "register"}
           /\ \A x \in Slots : steps'[Req(x)] = IF x = s THEN <<"remove">> ELSE steps[Req(x)]
           /\ \A x \in Slots : steps'[Mon(x)] = steps[Mon(x)]
           /\ \A f \in FullNames : jobs'[f] = IF f = FullName(curr[s]) THEN None ELSE jobs[f]
  <1> DEFINE f == FullName(curr[s])
             j == jobs[f]
  <1>1. pc[Req(s)] = "unschedule" /\ Active(s)
    BY DEF UnscheduleJob, Active
  <1>2. curr[s] \in Slots /\ f \in FullNames /\ j \in Slots \cup {None}
    <2>1. curr[s] \in Slots /\ Object(curr[s])
      BY <1>1, ReqFacts DEF ReqOK
    <2> QED BY <2>1 DEF FullName, FullNames, Object, IInv, TypeOK
  <1>3. /\ pc \in [Threads -> ReqPc \cup MonPc] /\ steps \in [Threads -> Seq(StepKind)]
        /\ jobs \in [FullNames -> Slots \cup {None}]
        /\ \A x \in Slots : Req(x) \in Threads /\ Mon(x) \in Threads
        /\ \A x, y \in Slots : Mon(x) # Req(y) /\ (Req(x) = Req(y) <=> x = y)
                                               /\ (Mon(x) = Mon(y) <=> x = y)
    BY ThreadFacts DEF IInv, TypeOK
  <1>4. /\ \A x \in Slots : steps'[Req(x)] = IF x = s THEN <<"remove">> ELSE steps[Req(x)]
        /\ \A x \in Slots : steps'[Mon(x)] = steps[Mon(x)]
    BY <1>3 DEF UnscheduleJob
  <1>5. CASE j = None
    <2>1. pc' = [pc EXCEPT ![Req(s)] = "run"] /\ UNCHANGED jobs
      BY <1>5 DEF UnscheduleJob
    <2> QED BY <1>1, <1>2, <1>3, <1>4, <1>5, <2>1
  <1>6. CASE j # None
    <2>1. /\ pc' = [pc EXCEPT ![Req(s)] = "run",
                              ![Mon(j)] = IF @ = "idle" THEN "gone" ELSE @]
          /\ jobs' = [jobs EXCEPT ![f] = None] /\ pc[Mon(j)] \in {"idle", "register"}
      BY <1>6 DEF UnscheduleJob
    <2>2. j \in Slots
      BY <1>2, <1>6
    <2> HIDE DEF j, f
    <2>3. \A x \in Slots : pc'[Req(x)] = IF x = s THEN "run" ELSE pc[Req(x)]
      BY <1>3, <2>1, <2>2
    <2>4. \A x \in Slots : pc'[Mon(x)] = IF x = j /\ pc[Mon(x)] = "idle" THEN "gone"
                                             ELSE pc[Mon(x)]
      BY <1>3, <2>1, <2>2
    <2>5. \A g \in FullNames : jobs'[g] = IF g = f THEN None ELSE jobs[g]
      BY <1>3, <2>1
    <2> USE DEF j, f
    <2> QED BY <1>1, <1>2, <1>4, <2>1, <2>3, <2>4, <2>5
  <1> QED BY <1>5, <1>6

\* UnscheduleJob keeps the control flow.
LEMMA UnscheduleJobFlow ==
    ASSUME IInv, FlowInv, NEW s \in Slots, UnscheduleJob(s)
    PROVE  FlowInv'
  <1> SUFFICES ASSUME NEW x \in Slots
               PROVE  (FitOK(x) /\ RefOK(x) /\ PlaceOK(x) /\ PointOK(Req(x)) /\ PointOK(Mon(x)))'
    BY DEF FlowInv
  <1>1. FitOK(x) /\ RefOK(x) /\ PlaceOK(x) /\ PointOK(Req(x)) /\ PointOK(Mon(x))
    BY DEF FlowInv
  <1>2. phase[s] \in {"replace", "remove"} /\ pc[Req(s)] = "unschedule" /\ Active(s)
    BY ReqFacts, UnscheduleEffect DEF ReqOK
  <1>3. /\ \A y \in Slots : pc'[Req(y)] = IF y = s THEN "run" ELSE pc[Req(y)]
        /\ \A y \in Slots : \/ pc'[Mon(y)] = pc[Mon(y)]
                            \/ pc[Mon(y)] = "idle" /\ pc'[Mon(y)] = "gone"
        /\ \A y \in Slots : steps'[Req(y)] = IF y = s THEN <<"remove">> ELSE steps[Req(y)]
        /\ \A y \in Slots : steps'[Mon(y)] = steps[Mon(y)]
        /\ UNCHANGED <<plugins, phase, curr, req>>
    <2>1. UNCHANGED <<plugins, phase, curr, req>>
      BY DEF UnscheduleJob
    <2> DEFINE j == jobs[FullName(curr[s])]
    <2>2. \A y \in Slots : pc'[Mon(y)] = IF y = j /\ pc[Mon(y)] = "idle" THEN "gone"
                                          ELSE pc[Mon(y)]
      BY UnscheduleEffect
    <2>3. /\ \A y \in Slots : pc'[Req(y)] = IF y = s THEN "run" ELSE pc[Req(y)]
          /\ \A y \in Slots : steps'[Req(y)] = IF y = s THEN <<"remove">> ELSE steps[Req(y)]
          /\ \A y \in Slots : steps'[Mon(y)] = steps[Mon(y)]
      BY UnscheduleEffect
    <2> HIDE DEF j
    <2> QED BY <2>1, <2>2, <2>3
  <1>4. FitOK(x)' /\ RefOK(x)'
    BY <1>1, <1>2, <1>3 DEF FitOK, RefOK, Removals
  <1>5. PointOK(Req(x))' /\ PointOK(Mon(x))'
    BY <1>1, <1>3 DEF PointOK, StepPc
  <1>6. PlaceOK(x)'
    BY <1>1, <1>2, <1>3 DEF PlaceOK, Working, Active
  <1> QED BY <1>4, <1>5, <1>6

\* What a request does after a call of runSteps keeps the control flow.
LEMMA AfterStepsFlow ==
    ASSUME IInv, OneRequestPerPlugin, FlowInv, NEW s \in Slots,
           \/ installed(s) \/ installFailed(s) \/ preLaunched(s) \/ upgradeFailed(s)
           \/ replaced(s) \/ removed(s) \/ removeFailed(s) \/ applied(s) \/ loaded(s)
    PROVE  FlowInv'
  <1> DEFINE n == req[s].name
  <1>1. ASSUME NEW p, StepsDone(s, p) \/ StepsFailed(s, p),
               Goto(Req(s), "finish"), UNCHANGED <<steps, phase, curr, req>>,
               \/ plugins' = plugins
               \/ plugins' = [plugins EXCEPT ![n] = None]
        PROVE  FlowInv'
    <2>1. /\ Active(s) /\ steps[Req(s)] = <<>> /\ pc[Req(s)] # "finish" /\ n \in Names
          /\ plugins \in [Names -> Slots \cup {None}]
      BY <1>1, OverFacts
    <2>2. MapAt(n, plugins[n]) \/ MapAt(n, None)
      BY <1>1, <2>1 DEF MapAt
    <2> QED BY <1>1, <2>1, <2>2, ConcludeFlow
  <1>2. CASE installed(s) \/ loaded(s)
    <2>1. PICK p \in {"install", "load"} : StepsDone(s, p) \/ StepsFailed(s, p)
      BY <1>2 DEF installed, loaded
    <2>2. UNCHANGED <<steps, plugins, phase, curr, req>>
      BY <1>2 DEF installed, loaded
    <2>3. CASE Goto(Req(s), "finish")
      BY <1>1, <2>1, <2>2, <2>3
    <2>4. CASE /\ StepsDone(s, "install") \/ StepsDone(s, "load")
               /\ pc' = [pc EXCEPT ![Req(s)] = "finish", ![Mon(s)] = "schedule"]
      <3>1. pc[Req(s)] = "run" /\ steps[Req(s)] = <<>>
        BY <2>4 DEF StepsDone
      <3> QED BY <2>2, <2>4, <3>1, HandOverEffect, HandOverFlow
    <2> QED BY <1>2, <2>3, <2>4 DEF installed, loaded
  <1>3. CASE installFailed(s)
    BY <1>1, <1>3 DEF installFailed, Conclude
  <1>4. CASE upgradeFailed(s)
    BY <1>1, <1>4 DEF upgradeFailed, Conclude
  <1>5. CASE removed(s)
    BY <1>1, <1>5 DEF removed, Conclude
  <1>6. CASE removeFailed(s)
    BY <1>1, <1>6 DEF removeFailed, Conclude, memory
  <1>7. CASE applied(s)
    BY <1>1, <1>7 DEF applied, Conclude
  <1>8. CASE preLaunched(s)
    <2>1. /\ Active(s) /\ steps[Req(s)] = <<>> /\ n \in Names /\ phase[s] = "prelaunch"
          /\ FitOK(s) /\ RefOK(s) /\ PlaceOK(s) /\ Working(s)
          /\ phase \in [Slots -> PhaseType] /\ req[s] \in ReqType
          /\ pc[Mon(s)] = "off" /\ curr[s] \in Slots
      BY <1>8, OverFacts DEF preLaunched
    <2>2. /\ phase' = [phase EXCEPT ![s] = "replace"] /\ Goto(Req(s), "unmonitor")
          /\ UNCHANGED <<plugins, steps, curr, req>>
      BY <1>8 DEF preLaunched, memory
    <2>3. /\ ReqAt(s, "unmonitor", <<>>) /\ PhaseAt(s, "replace", curr[s])
          /\ MapAt(n, plugins[n]) /\ Revised(s)
      BY <2>1, <2>2, GotoEffect DEF PhaseAt, MapAt, Revised
    <2>4. FitOK(s)' /\ PlaceOK(s)' /\ PointOK(Req(s))'
      BY <2>1, <2>2, <2>3 DEF FitOK, PlaceOK, PointOK, ReqAt, PhaseAt, Removals, Working,
         StepPc
    <2>5. RefOK(s)'
      <3>1. curr[s] # s /\ phase'[curr[s]] = phase[curr[s]]
        BY <2>1, <2>3 DEF RefOK, PhaseAt
      <3> QED BY <2>1, <2>2, <2>3, <3>1 DEF RefOK, ReqAt, PhaseAt
    <2> QED BY <2>1, <2>3, <2>4, <2>5, FlowFrame
  <1>9. CASE replaced(s)
    <2>1. /\ Active(s) /\ steps[Req(s)] = <<>> /\ n \in Names /\ phase[s] = "replace"
          /\ FitOK(s) /\ RefOK(s) /\ PlaceOK(s) /\ Working(s)
          /\ plugins \in [Names -> Slots \cup {None}] /\ req[s] \in ReqType
          /\ pc[Mon(s)] = "off"
      BY <1>9, OverFacts DEF replaced
    <2>2. /\ plugins' = [plugins EXCEPT ![n] = None] /\ Goto(Req(s), "launch")
          /\ UNCHANGED <<steps, phase, curr, req>>
      BY <1>9 DEF replaced
    <2>3. /\ ReqAt(s, "launch", <<>>) /\ PhaseAt(s, "replace", curr[s])
          /\ MapAt(n, None) /\ Revised(s)
      BY <2>1, <2>2, GotoEffect DEF PhaseAt, MapAt, Revised
    <2>4. FitOK(s)' /\ PlaceOK(s)' /\ PointOK(Req(s))'
      BY <2>1, <2>2, <2>3 DEF FitOK, PlaceOK, PointOK, ReqAt, MapAt, Working, StepPc
    <2>5. RefOK(s)'
      BY <2>1, <2>2, <2>3 DEF RefOK, ReqAt, MapAt
    <2> QED BY <2>1, <2>3, <2>4, <2>5, FlowFrame
  <1> QED BY <1>2, <1>3, <1>4, <1>5, <1>6, <1>7, <1>8, <1>9

\* What launchUpgrade does: the map of plugins gets the new object, whose launch is all that is
\* left.
LEMMA launchUpgradeEffect ==
    ASSUME IInv, FlowInv, NEW s \in Slots, launchUpgrade(s)
    PROVE  /\ pc[Req(s)] = "launch" /\ Active(s) /\ Working(s) /\ phase[s] = "replace"
           /\ curr[s] \in Slots /\ plugins[req[s].name] = None /\ req[s].name \in Names
           /\ ReqAt(s, "run", <<"launch">>) /\ PhaseAt(s, "install", curr[s])
           /\ MapAt(req[s].name, s) /\ Revised(s)
           /\ FitOK(s) /\ RefOK(s) /\ PlaceOK(s) /\ req' = req /\ pc[Mon(s)] = "off"
  <1>1. pc[Req(s)] = "launch" /\ Active(s) /\ Working(s)
    BY DEF launchUpgrade, Active, Working
  <1>2. phase[s] = "replace" /\ curr[s] \in Slots /\ req[s].name \in Names
    BY <1>1, ReqFacts DEF ReqOK, IInv, TypeOK
  <1>3. FitOK(s) /\ RefOK(s) /\ PlaceOK(s)
    BY DEF FlowInv
  <1>4. plugins[req[s].name] = None /\ pc[Mon(s)] = "off"
    BY <1>1, <1>2, <1>3 DEF PlaceOK, RefOK
  <1>5. /\ ReqAt(s, "run", <<"launch">>) /\ PhaseAt(s, "install", curr[s])
        /\ MapAt(req[s].name, s) /\ Revised(s) /\ req' = req
    BY <1>2, ReqFacts, GotoEffect
       DEF launchUpgrade, RunSteps, PhaseAt, MapAt, Revised, IInv, TypeOK
  <1> QED BY <1>1, <1>2, <1>3, <1>4, <1>5

\* launchUpgrade keeps the control flow.
LEMMA launchUpgradeFlow ==
    ASSUME IInv, OneRequestPerPlugin, FlowInv, NEW s \in Slots, launchUpgrade(s)
    PROVE  FlowInv'
  <1>1. /\ pc[Req(s)] = "launch" /\ Active(s) /\ Working(s) /\ phase[s] = "replace"
        /\ curr[s] \in Slots /\ plugins[req[s].name] = None /\ req[s].name \in Names
        /\ ReqAt(s, "run", <<"launch">>) /\ PhaseAt(s, "install", curr[s])
        /\ MapAt(req[s].name, s) /\ Revised(s)
        /\ FitOK(s) /\ RefOK(s) /\ PlaceOK(s) /\ req' = req /\ pc[Mon(s)] = "off"
    BY launchUpgradeEffect
  <1>2. FitOK(s)' /\ PlaceOK(s)' /\ PointOK(Req(s))'
    BY <1>1 DEF FitOK, PlaceOK, PointOK, ReqAt, PhaseAt, MapAt, Installs, StepPc
  <1>3. RefOK(s)'
    <2>1. curr[s] # s /\ phase'[curr[s]] = phase[curr[s]]
      BY <1>1 DEF RefOK, PhaseAt
    <2> QED BY <1>1, <2>1 DEF RefOK, ReqAt, PhaseAt
  <1> QED BY <1>1, <1>2, <1>3, FlowFrame

\* The last call of a request keeps the control flow.
LEMMA FinishFlow ==
    ASSUME IInv, OneRequestPerPlugin, FlowInv, NEW s \in Slots, Finish(s)
    PROVE  FlowInv'
  <1>1. /\ pc[Req(s)] = "finish" /\ Active(s) /\ steps[Req(s)] = <<>>
        /\ UNCHANGED <<plugins, steps, phase, curr, req>> /\ FitOK(s)
    BY DEF Finish, Active, FlowInv, PointOK, StepPc
  <1>2. ReqAt(s, "done", <<>>)
    BY <1>1, GotoEffect DEF Finish
  <1>3. FitOK(s)' /\ PlaceOK(s)' /\ PointOK(Req(s))'
    BY <1>1, <1>2 DEF FitOK, PlaceOK, PointOK, ReqAt, Working, Active
  <1> QED BY <1>1, <1>2, <1>3, FlowMove

\* The request s has been accepted: its name was not in progress, and when ACS spaces its
\* requests no monitor of that name is starting.
Accepted(s) ==
    /\ pc[Req(s)] = "free"
    /\ ReqAt(s, "dispatch", steps[Req(s)])
    /\ \A x \in Slots \ {s} : req'[x] = req[x]
    /\ req'[s].name \in Names \ inProgress /\ req'[s].action \in Actions
    /\ SpacedRequests => Settled(req'[s].name)
    /\ inProgress' = inProgress \cup {req'[s].name}
    /\ UNCHANGED <<plugins, monitors, jobs, obj, phase, curr,
                   booting, report, cancelled, host, chores>>

\* filterPendingPluginRevisions accepts a request only so.
LEMMA filterEffect ==
    ASSUME IInv, NEW s \in Slots, filterPendingPluginRevisions(s)
    PROVE  Accepted(s)
  <1>1. PICK n \in Names, a \in Actions, r \in Revs \cup {None} :
          /\ n \notin inProgress
          /\ SpacedRequests => Settled(n)
          /\ inProgress' = inProgress \cup {n}
          /\ req' = [req EXCEPT ![s] =
                     [name |-> n, rev |-> r, local |-> FALSE, action |-> a]]
    BY DEF filterPendingPluginRevisions
  <1>2. req'[s] = [name |-> n, rev |-> r, local |-> FALSE, action |-> a]
        /\ \A x \in Slots \ {s} : req'[x] = req[x]
    BY <1>1 DEF IInv, TypeOK
  <1>3. /\ pc[Req(s)] = "free" /\ Goto(Req(s), "dispatch")
        /\ UNCHANGED <<plugins, monitors, jobs, obj, steps, phase, curr,
                       booting, report, cancelled, host, chores>>
    BY DEF filterPendingPluginRevisions
  <1>4. ReqAt(s, "dispatch", steps[Req(s)])
    BY <1>3, GotoEffect
  <1>5. req'[s].name = n /\ req'[s].action = a
    BY <1>2
  <1> QED BY <1>1, <1>2, <1>3, <1>4, <1>5 DEF Accepted

\* Accepting a request keeps the control flow.
LEMMA filterFlow ==
    ASSUME IInv, FlowInv, NEW s \in Slots, Accepted(s)
    PROVE  FlowInv'
  <1> SUFFICES ASSUME NEW x \in Slots
               PROVE  (FitOK(x) /\ RefOK(x) /\ PlaceOK(x) /\ PointOK(Req(x)) /\ PointOK(Mon(x)))'
    BY DEF FlowInv
  <1>1. FitOK(x) /\ RefOK(x) /\ PlaceOK(x) /\ PointOK(Req(x)) /\ PointOK(Mon(x))
    BY DEF FlowInv
  <1>2. phase[s] = None /\ curr[s] = None /\ pc[Mon(s)] = "off" /\ steps[Req(s)] = <<>>
    BY DEF FlowInv, RefOK, PointOK, StepPc, Accepted
  <1>3. FitOK(x)' /\ PointOK(Req(x))' /\ PointOK(Mon(x))'
    BY <1>1, <1>2 DEF FitOK, PointOK, ReqAt, Accepted, StepPc
  <1>4. curr[x] # None => curr[x] \in Slots \ {s}
    BY <1>1, <1>2 DEF RefOK, IInv, TypeOK
  <1>5. RefOK(x)'
    BY <1>1, <1>2, <1>4 DEF RefOK, ReqAt, Accepted
  <1>6. PlaceOK(x)'
    BY <1>1, <1>2 DEF PlaceOK, ReqAt, Accepted, Working, Active
  <1> QED BY <1>3, <1>5, <1>6

-----------------------------------------------------------------------------
(*****************************************************************************)
(* The steps, the monitors and the restarts keep the control flow.           *)
(*****************************************************************************)

\* The monitor s is at l with the workflow w left; no other thread has moved.
MonAt(s, l, w) ==
    /\ \A x \in Slots : pc'[Mon(x)] = IF x = s THEN l ELSE pc[Mon(x)]
    /\ \A x \in Slots : steps'[Mon(x)] = IF x = s THEN w ELSE steps[Mon(x)]
    /\ \A x \in Slots : pc'[Req(x)] = pc[Req(x)] /\ steps'[Req(x)] = steps[Req(x)]

\* A monitor that goes to l moves no other thread.
LEMMA GotoMonEffect ==
    ASSUME IInv, NEW s \in Slots, NEW l, Goto(Mon(s), l), UNCHANGED steps
    PROVE  MonAt(s, l, steps[Mon(s)])
  <1>1. /\ pc \in [Threads -> ReqPc \cup MonPc] /\ steps \in [Threads -> Seq(StepKind)]
        /\ \A x \in Slots : Req(x) \in Threads /\ Mon(x) \in Threads
        /\ \A x \in Slots : Req(x) # Mon(s) /\ (Mon(x) = Mon(s) <=> x = s)
    BY ThreadFacts DEF IInv, TypeOK
  <1> QED BY <1>1 DEF Goto, MonAt

\* A transition of a request or of a monitor moves that thread alone.
LEMMA TransitionEffect ==
    ASSUME NEW s \in Slots, NEW l, NEW w
    PROVE  /\ Transition(Req(s), l, w) => ReqAt(s, l, w)
           /\ Transition(Mon(s), l, w) => MonAt(s, l, w)
  <1>1. /\ \A x \in Slots : Req(x) \in Threads /\ Mon(x) \in Threads
        /\ \A x \in Slots : Req(x) # Mon(s) /\ (Mon(x) = Mon(s) <=> x = s)
        /\ \A x \in Slots : Mon(x) # Req(s) /\ (Req(x) = Req(s) <=> x = s)
    BY ThreadFacts
  <1> QED BY <1>1 DEF Transition, ReqAt, MonAt

\* What is left of a workflow is again a workflow of its kind.
LEMMA RestOfWorkflow ==
    ASSUME NEW v, v # <<>>
    PROVE  /\ v \in Installs => Tail(v) \in Installs
           /\ v \in {<<"launch">>, <<>>} => Tail(v) \in {<<"launch">>, <<>>}
           /\ v \in Prelaunches => Tail(v) \in Prelaunches
           /\ v \in Removals => Tail(v) \in Removals
           /\ v \in Relaunches => Tail(v) \in Relaunches
  BY Workflows DEF Installs, Prelaunches, Removals, Relaunches

\* A workflow may be over.
LEMMA EmptyWorkflow ==
    /\ <<>> \in Installs /\ <<>> \in Prelaunches /\ <<>> \in Removals
    /\ <<>> \in Relaunches /\ <<"stop", "launch">> \in Relaunches
  BY DEF Installs, Prelaunches, Removals, Relaunches

\* A transition keeps a thread where its workflow says, and stays inside runSteps.
LEMMA TransitionPoint ==
    ASSUME NEW t \in Threads, NEW l, NEW w, Transition(t, l, w)
    PROVE  /\ PointOK(t) => PointOK(t)'
           /\ l \in StepPc \cup {"run", "failed"}
           /\ l \notin {"free", "dispatch", "check", "finish", "done", "launch", "off", "gone",
                       "unmonitor", "unschedule"}
           /\ pc[t] \in StepPc \cup {"run", "check"}
  <1>1. pc'[t] = l /\ steps'[t] = w
    BY DEF Transition
  <1> QED BY <1>1 DEF Transition, PointOK, StepPc

\* A step of a request keeps the control flow.
LEMMA StepReqFlow ==
    ASSUME IInv, OneRequestPerPlugin, FlowInv, NEW s \in Slots, Step(Req(s))
    PROVE  FlowInv'
  <1>1. PICK l, w : Transition(Req(s), l, w)
    BY StepTransition, ThreadFacts
  <1>2. ReqAt(s, l, w) /\ UNCHANGED <<plugins, phase, curr, req>>
    <2>1. OnlySteps
      BY DEF Step, runSteps, downloadStep, unpackStep, stopPlugin, markStopped, cleanup,
         launchStep, awaitSocket, startPlugin, openStateFile, writeStateFile,
         connectOrReLaunch
    <2> QED BY <1>1, <2>1, TransitionEffect DEF OnlySteps
  <1>3. /\ l \notin {"free", "dispatch", "check", "finish", "done", "launch"}
        /\ pc[Req(s)] \in StepPc \cup {"run", "check"} /\ PointOK(Req(s))'
    BY <1>1, TransitionPoint, ThreadFacts DEF FlowInv
  <1>4. Active(s) /\ Working(s) /\ FitOK(s) /\ RefOK(s) /\ PlaceOK(s) /\ phase[s] # None
    BY <1>3, ReqFacts DEF Active, Working, StepPc, FlowInv, ReqOK
  <1>5. PlaceOK(s)'
    BY <1>2, <1>3, <1>4 DEF PlaceOK, Working, Active, ReqAt, StepPc
  <1>6. \/ w \in {<<>>, steps[Req(s)]}
        \/ w = Tail(steps[Req(s)]) /\ steps[Req(s)] # <<>>
        \/ w = <<"stop", "launch">> /\ phase[s] = "load"
    BY <1>1, <1>4 DEF Transition, RefOK
  <1>7. FitOK(s)'
    <2>1. steps'[Req(s)] = w /\ steps'[Mon(s)] = steps[Mon(s)]
      BY <1>2 DEF ReqAt
    <2>2. CASE w \in {<<>>, steps[Req(s)]}
      BY <1>2, <1>4, <2>1, <2>2, EmptyWorkflow DEF FitOK
    <2>3. CASE w = Tail(steps[Req(s)]) /\ steps[Req(s)] # <<>>
      BY <1>2, <1>4, <2>1, <2>3, RestOfWorkflow DEF FitOK
    <2>4. CASE w = <<"stop", "launch">> /\ phase[s] = "load"
      BY <1>2, <1>4, <2>1, <2>4, EmptyWorkflow DEF FitOK
    <2> QED BY <1>6, <2>2, <2>3, <2>4
  <1> QED BY <1>2, <1>3, <1>4, <1>5, <1>7, FlowMove DEF StepPc

\* A monitor that moves within its relaunch keeps the control flow.
LEMMA MonFlow ==
    ASSUME IInv, FlowInv, NEW s \in Slots, NEW l, NEW w, MonAt(s, l, w),
           pc[Mon(s)] # "off", w \in Relaunches, PointOK(Mon(s))',
           UNCHANGED <<plugins, phase, curr, req>>
    PROVE  FlowInv'
  <1> SUFFICES ASSUME NEW x \in Slots
               PROVE  (FitOK(x) /\ RefOK(x) /\ PlaceOK(x) /\ PointOK(Req(x)) /\ PointOK(Mon(x)))'
    BY DEF FlowInv
  <1>1. FitOK(x) /\ RefOK(x) /\ PlaceOK(x) /\ PointOK(Req(x)) /\ PointOK(Mon(x))
    BY DEF FlowInv
  <1>2. FitOK(x)' /\ RefOK(x)'
    BY <1>1 DEF FitOK, RefOK, MonAt
  <1>3. PointOK(Req(x))' /\ PointOK(Mon(x))'
    BY <1>1 DEF PointOK, MonAt
  <1>4. PlaceOK(x)'
    BY <1>1 DEF PlaceOK, MonAt, Working, Active
  <1> QED BY <1>2, <1>3, <1>4

\* A step of a monitor moves that monitor alone, within its relaunch.
LEMMA StepMonEffect ==
    ASSUME IInv, FlowInv, NEW s \in Slots, Step(Mon(s))
    PROVE  \E l, w : /\ Transition(Mon(s), l, w) /\ MonAt(s, l, w)
                     /\ pc[Mon(s)] \in StepPc \cup {"run", "check"}
                     /\ l \in StepPc \cup {"run", "failed"}
                     /\ w \in Relaunches /\ PointOK(Mon(s))'
  <1>1. PICK l, w : Transition(Mon(s), l, w)
    BY StepTransition, ThreadFacts
  <1>2. FitOK(s) /\ PointOK(Mon(s)) /\ Mon(s) \in Threads
    BY ThreadFacts DEF FlowInv
  <1>3. \/ w \in {<<>>, steps[Mon(s)]}
        \/ w = Tail(steps[Mon(s)]) /\ steps[Mon(s)] # <<>>
        \/ w = <<"stop", "launch">>
    BY <1>1 DEF Transition
  <1>4. w \in Relaunches
    BY <1>2, <1>3, RestOfWorkflow, EmptyWorkflow DEF FitOK
  <1> QED BY <1>1, <1>2, <1>4, TransitionEffect, TransitionPoint

\* A step changes nothing of the requests and of the map of plugins.
LEMMA StepFrame ==
    ASSUME NEW t, Step(t)
    PROVE  OnlySteps
  BY DEF Step, runSteps, downloadStep, unpackStep, stopPlugin, markStopped, cleanup,
     launchStep, awaitSocket, startPlugin, openStateFile, writeStateFile, connectOrReLaunch

\* A monitor outside its relaunch moves alone, has no step left, and changes neither requests nor
\* the map of plugins.
LEMMA MonitorMoves ==
    ASSUME IInv, FlowInv, NEW s \in Slots,
           \/ ScheduleJob(s) \/ addJob(s) \/ startMonitoring(s) \/ healthCheck(s)
           \/ GetStatus(s) \/ relaunched(s) \/ runOnSchedule(s)
    PROVE  \E l : /\ MonAt(s, l, <<>>) /\ steps[Mon(s)] = <<>>
                  /\ l \notin StepPc \cup {"run", "off"} /\ pc[Mon(s)] \notin {"off", "gone"}
                  /\ UNCHANGED <<plugins, inProgress, phase, curr, req, report, host, chores>>
  <1>1. PICK l : Goto(Mon(s), l) /\ l \notin StepPc \cup {"run", "off"}
    BY DEF ScheduleJob, addJob, startMonitoring, healthCheck, GetStatus, relaunched,
       runOnSchedule, AfterRun, StepPc
  <1>2. /\ UNCHANGED <<steps, plugins, inProgress, phase, curr, req, report, host, chores>>
        /\ pc[Mon(s)] \notin {"off", "gone"}
    BY DEF ScheduleJob, addJob, startMonitoring, healthCheck, GetStatus, relaunched,
       runOnSchedule, OnlyMonitor
  <1>3. steps[Mon(s)] = <<>>
    BY DEF ScheduleJob, addJob, startMonitoring, healthCheck, GetStatus, relaunched,
       runOnSchedule, FlowInv, PointOK, StepPc
  <1> QED BY <1>1, <1>2, <1>3, GotoMonEffect

\* Monitors keep the control flow.
LEMMA MonitorFlow ==
    ASSUME IInv, FlowInv, NEW s \in Slots, MonitorRun(s) \/ runOnSchedule(s)
    PROVE  FlowInv'
  <1>1. CASE Step(Mon(s))
    <2>1. UNCHANGED <<plugins, phase, curr, req>>
      BY <1>1, StepFrame DEF OnlySteps
    <2>2. PICK l, w : /\ MonAt(s, l, w) /\ pc[Mon(s)] \in StepPc \cup {"run", "check"}
                      /\ w \in Relaunches /\ PointOK(Mon(s))'
      BY <1>1, StepMonEffect
    <2> QED BY <2>1, <2>2, MonFlow DEF StepPc
  <1>2. CASE \/ ScheduleJob(s) \/ addJob(s) \/ startMonitoring(s) \/ healthCheck(s)
             \/ GetStatus(s) \/ relaunched(s) \/ runOnSchedule(s)
    <2>1. PICK l : /\ MonAt(s, l, <<>>) /\ steps[Mon(s)] = <<>>
                   /\ l \notin StepPc \cup {"run", "off"} /\ pc[Mon(s)] \notin {"off", "gone"}
                   /\ UNCHANGED <<plugins, phase, curr, req>>
      BY <1>2, MonitorMoves
    <2>2. PointOK(Mon(s))' /\ <<>> \in Relaunches
      BY <2>1 DEF PointOK, MonAt, StepPc, Relaunches
    <2> QED BY <2>1, <2>2, MonFlow
  <1> QED BY <1>1, <1>2 DEF MonitorRun

\* A restart keeps the control flow: only the loaded objects have goroutines.
LEMMA InitPluginManagerFlow ==
    ASSUME IInv, FlowInv, InitPluginManager
    PROVE  FlowInv'
  <1>0. PICK ld \in [FileNames -> Slots] : Loads(ld)
    BY InitPluginManagerFacts
  <1> DEFINE loading == {ld[n] : n \in FileNames}
  <1>1. /\ \A n \in FileNames : pc[Req(ld[n])] = "free"
        /\ plugins' = [n \in Names |-> IF n \in FileNames THEN ld[n] ELSE None]
        /\ \A n \in FileNames : req'[ld[n]].name = n
        /\ \A n \in FileNames : phase'[ld[n]] = "load"
        /\ \A s \in Slots \ loading : req'[s] = req[s] /\ phase'[s] = phase[s]
        /\ pc' = RestartedPc(loading) /\ loading \in SUBSET Slots
        /\ FileNames \subseteq Names
    BY <1>0 DEF Loads, FileNames
  <1>2. steps' = [t \in Threads |-> <<>>] /\ curr' = curr
    BY DEF InitPluginManager
  <1>3. \A s \in Slots : /\ pc'[Req(s)] = IF s \in loading THEN "check"
                                  ELSE IF pc[Req(s)] = "free" THEN "free" ELSE "done"
                         /\ pc'[Mon(s)] = IF pc[Mon(s)] = "off" THEN "off" ELSE "gone"
                         /\ steps'[Req(s)] = <<>> /\ steps'[Mon(s)] = <<>>
    BY <1>1, <1>2, RestartedPcFacts, ThreadFacts DEF RestartedPc
  <1>4. \A s \in loading : /\ pc[Req(s)] = "free" /\ curr[s] = None /\ phase[s] = None
                           /\ phase'[s] = "load" /\ plugins'[req'[s].name] = s
                           /\ pc[Mon(s)] = "off"
    BY <1>1 DEF FlowInv, RefOK
  <1>5. \A s \in Slots, n \in Names : plugins'[n] = s => s \in loading
    BY <1>1
  <1> SUFFICES ASSUME NEW x \in Slots
               PROVE  (FitOK(x) /\ RefOK(x) /\ PlaceOK(x) /\ PointOK(Req(x)) /\ PointOK(Mon(x)))'
    BY DEF FlowInv
  <1>6. FitOK(x) /\ RefOK(x)
    BY DEF FlowInv
  <1>7. curr[x] # None => curr[x] \in Slots \ loading
    BY <1>4, <1>6 DEF RefOK, IInv, TypeOK
  <1> HIDE DEF loading
  <1>8. PointOK(Req(x))' /\ PointOK(Mon(x))'
    BY <1>3 DEF PointOK, StepPc
  <1>9. FitOK(x)'
    BY <1>3, EmptyWorkflow DEF FitOK
  <1>10. RefOK(x)'
    <2>1. CASE x \in loading
      BY <1>1, <1>2, <1>3, <1>4, <1>5, <2>1 DEF RefOK
    <2>2. CASE x \notin loading
      BY <1>1, <1>2, <1>3, <1>5, <1>6, <1>7, <2>2 DEF RefOK
    <2> QED BY <2>1, <2>2
  <1>11. PlaceOK(x)'
    BY <1>3, <1>4 DEF PlaceOK, Working, Active
  <1> QED BY <1>8, <1>9, <1>10, <1>11

\* A restart that fails to load the plugins keeps the control flow: no goroutine is left.
LEMMA InitFailsFlow ==
    ASSUME IInv, FlowInv, InitFails
    PROVE  FlowInv'
  <1>1. \A s \in Slots : /\ pc'[Req(s)] = "done" /\ pc'[Mon(s)] = "gone"
                         /\ steps'[Req(s)] = <<>> /\ steps'[Mon(s)] = <<>>
    BY ThreadFacts DEF InitFails
  <1>2. plugins' = [n \in Names |-> None] /\ UNCHANGED <<phase, curr, req>>
    BY DEF InitFails
  <1> SUFFICES ASSUME NEW x \in Slots
               PROVE  (FitOK(x) /\ RefOK(x) /\ PlaceOK(x) /\ PointOK(Req(x)) /\ PointOK(Mon(x)))'
    BY DEF FlowInv
  <1>3. FitOK(x) /\ RefOK(x)
    BY DEF FlowInv
  <1>4. PointOK(Req(x))' /\ PointOK(Mon(x))' /\ PlaceOK(x)'
    BY <1>1 DEF PointOK, StepPc, PlaceOK, Working, Active
  <1>5. FitOK(x)'
    BY <1>1, EmptyWorkflow DEF FitOK
  <1>6. RefOK(x)'
    BY <1>1, <1>2, <1>3 DEF RefOK
  <1> QED BY <1>4, <1>5, <1>6

\* The control flow does not depend on the rest of the state.
LEMMA SameFlow ==
    ASSUME FlowInv, UNCHANGED <<plugins, pc, steps, phase, curr, req>>
    PROVE  FlowInv'
  BY DEF FlowInv, FitOK, RefOK, PlaceOK, PointOK, Working, Active

\* Every step of the specification keeps the control flow.
LEMMA NextFlow ==
    ASSUME IInv, OneRequestPerPlugin, FlowInv, [Next]_vars
    PROVE  FlowInv'
  <1>1. CASE UNCHANGED vars
    BY <1>1, SameFlow DEF vars, memory, control
  <1>2. ASSUME NEW s \in Slots, filterPendingPluginRevisions(s) PROVE FlowInv'
    BY <1>2, filterEffect, filterFlow
  <1>3. ASSUME NEW s \in Slots, Request(s) PROVE FlowInv'
    BY <1>3, configurePluginFlow, applyConfigFlow, ApplyFlow, stopMonitoringFlow,
       AfterStepsFlow, launchUpgradeFlow, FinishFlow, StepReqFlow DEF Request
  <1>4. ASSUME NEW s \in Slots, UnscheduleJob(s) PROVE FlowInv'
    BY <1>4, UnscheduleJobFlow
  <1>5. ASSUME NEW s \in Slots, MonitorRun(s) \/ runOnSchedule(s) PROVE FlowInv'
    BY <1>5, MonitorFlow
  <1>6. CASE scanLeftovers \/ removeLeftover \/ ProcessExits \/ CancelContext
    BY <1>6, SameFlow DEF scanLeftovers, removeLeftover, ProcessExits, CancelContext,
       memory, control
  <1>7. CASE InitPluginManager \/ InitFails
    BY <1>7, InitPluginManagerFlow, InitFailsFlow
  <1> QED BY <1>1, <1>2, <1>3, <1>4, <1>5, <1>6, <1>7 DEF Next, Environment

\* The control flow holds at first: no request has been accepted.
LEMMA InitFlow == Init => FlowInv
  <1> SUFFICES ASSUME Init PROVE FlowInv
    OBVIOUS
  <1>1. \A s \in Slots : /\ pc[Req(s)] = "free" /\ pc[Mon(s)] = "off"
                         /\ steps[Req(s)] = <<>> /\ steps[Mon(s)] = <<>>
                         /\ phase[s] = None /\ curr[s] = None
    BY ThreadFacts DEF Init
  <1>2. \A n \in Names : plugins[n] = None
    BY DEF Init
  <1> QED BY <1>1, <1>2 DEF FlowInv, FitOK, RefOK, PlaceOK, PointOK, Working, Active,
             Relaunches, StepPc

-----------------------------------------------------------------------------
(*****************************************************************************)
(* No half installed plugin: the object of a request that is over has left   *)
(* INSTALLING, and a pending revision belongs to an upgrade under way.       *)
(*****************************************************************************)

\* The states of an object that is not installed yet.
Installing == {"INSTALLING", "INSTALL_FAILED"}

\* The request o has still to launch what it installs.
InstallAt(o) ==
    /\ Working(o) /\ phase[o] = "install"
    /\ \/ pc[Req(o)] = "failed"
       \/ pc[Req(o)] = "run" /\ steps[Req(o)] # <<>>
       \/ pc[Req(o)] = "exec" /\ Head(steps[Req(o)]) \in {"download", "unpack"}

\* The request s replaces the object o.
Upgrades(s, o) == Working(s) /\ curr[s] = o /\ phase[s] \in {"prelaunch", "replace"}

\* An object is INSTALLING, or failed to install, only while its request has still to launch it
\* or to drop it; it has a pending revision only while a request upgrades it.
HalfOK(o) ==
    /\ obj[o].status \in Installing => InstallAt(o)
    /\ obj[o].pending # None => \E s \in Slots : Upgrades(s, o)

\* So is every object that the manager holds, and only those ever have a pending revision.
HalfInv ==
    /\ \A n \in Names : plugins[n] # None => HalfOK(plugins[n])
    /\ \A s \in Slots : phase[s] \notin {"install", "load"} => obj[s].pending = None

\* What a step does to the objects: it changes the one it works on, leaves its pending revision
\* alone, and puts it among the installing ones only while it downloads or unpacks.
LEMMA StepObj ==
    ASSUME IInv, NEW t \in Threads, Step(t)
    PROVE  LET o == Target(t) IN
           /\ o \in Slots
           /\ \A x \in Slots \ {o} : obj'[x] = obj[x]
           /\ obj'[o].pending = obj[o].pending
           /\ obj'[o].status \in Installing =>
                \/ /\ steps[t] # <<>> /\ Head(steps[t]) \in {"download", "unpack"}
                   /\ pc[t] \in {"run", "exec"}
                \/ obj[o].status \in Installing /\ pc[t] # "run"
  <1> DEFINE o == Target(t)
  <1>1. /\ o \in Slots /\ obj \in [Slots -> ObjType] /\ obj[o] \in ObjType
        /\ steps[t] # <<>> => Head(steps[t]) \in StepKind
        /\ pc[t] \in StepPc => steps[t] # <<>>
    <2>1. pc[t] \in StepPc \cup {"run", "check"}
      BY DEF Step, runSteps, downloadStep, unpackStep, stopPlugin, markStopped, cleanup,
         launchStep, awaitSocket, startPlugin, openStateFile, writeStateFile,
         connectOrReLaunch, Executes, StepPc
    <2>2. StepData(t)
      BY <2>1, StepFacts
    <2> QED BY <2>2 DEF StepData, IInv, WellFormed, StepOK
  <1>2. ASSUME NEW v \in {"INSTALLING", "INSTALL_FAILED", "STARTING",
                           "STOPPING", "CRASHED", "UNSPECIFIED"},
               obj' = [obj EXCEPT ![o].status = v]
        PROVE  /\ \A x \in Slots \ {o} : obj'[x] = obj[x]
               /\ obj'[o].pending = obj[o].pending /\ obj'[o].status = v
    BY <1>1, <1>2 DEF ObjType
  <1>3. ASSUME steps[t] # <<>>
        PROVE  /\ StepErrorStatus(Head(steps[t])) \in {"INSTALL_FAILED", "CRASHED", "UNSPECIFIED"}
               /\ StepStatus(Head(steps[t])) \in {"INSTALLING", "STARTING", "STOPPING"}
               /\ StepErrorStatus(Head(steps[t])) \in Installing
                    => Head(steps[t]) \in {"download", "unpack"}
               /\ StepStatus(Head(steps[t])) \in Installing
                    => Head(steps[t]) \in {"download", "unpack"}
    BY <1>1, <1>3 DEF StepErrorStatus, StepStatus, Installing, StepKind
  <1>4. ASSUME obj' = [obj EXCEPT ![o] = FailedObj(t)], steps[t] # <<>>
        PROVE  /\ \A x \in Slots \ {o} : obj'[x] = obj[x]
               /\ obj'[o].pending = obj[o].pending
               /\ obj'[o].status \in Installing => Head(steps[t]) \in {"download", "unpack"}
    <2>1. obj'[o] = [obj[o] EXCEPT !.status = StepErrorStatus(Head(steps[t]))]
      BY <1>1, <1>4 DEF FailedObj
    <2>2. obj'[o].pending = obj[o].pending /\ obj'[o].status = StepErrorStatus(Head(steps[t]))
      BY <1>1, <2>1 DEF ObjType
    <2> QED BY <1>1, <1>3, <1>4, <2>2
  <1>5. ASSUME NEW v \in ObjType, obj' = [obj EXCEPT ![o] = v], v.pending = obj[o].pending,
               v.status \in {obj[o].status, "RUNNING", "CRASHED", "STOPPED"}
        PROVE  /\ \A x \in Slots \ {o} : obj'[x] = obj[x]
               /\ obj'[o].pending = obj[o].pending
               /\ obj'[o].status \in Installing => obj[o].status \in Installing
    BY <1>1, <1>5 DEF Installing
  <1>6. CASE runSteps(t)
    <2>1. pc[t] = "run" /\ steps[t] # <<>>
      BY <1>6 DEF runSteps
    <2>2. \/ obj' = [obj EXCEPT ![o].status = StepErrorStatus(Head(steps[t]))]
          \/ obj' = [obj EXCEPT ![o].status = StepStatus(Head(steps[t]))]
      BY <1>6 DEF runSteps, setState
    <2> QED BY <1>1, <1>2, <1>3, <2>1, <2>2
  <1>7. CASE downloadStep(t) \/ unpackStep(t)
    BY <1>1, <1>4, <1>7 DEF downloadStep, unpackStep, Executes, StepPc
  <1>8. CASE stopPlugin(t) \/ cleanup(t)
    BY <1>1, <1>8 DEF stopPlugin, cleanup, Executes
  <1>9. CASE markStopped(t)
    <2> DEFINE v == [obj[o] EXCEPT !.client = FALSE, !.status = "STOPPED", !.pid = None]
    <2>1. v \in ObjType /\ v.pending = obj[o].pending /\ v.status = "STOPPED"
      BY <1>1 DEF ObjType, StatusValue
    <2>2. obj' = [obj EXCEPT ![o] = v]
      BY <1>1, <1>9 DEF markStopped
    <2> HIDE DEF v
    <2> QED BY <1>5, <1>1, <1>9, <2>1, <2>2 DEF markStopped
  <1>10. CASE launchStep(t)
    <2>1. CASE obj' = [obj EXCEPT ![o] = FailedObj(t)]
      BY <1>1, <1>4, <1>10, <2>1 DEF launchStep, Executes, StepPc
    <2>2. CASE \E p \in Pids : obj' = [obj EXCEPT ![o].pid = p]
      <3>1. PICK p \in Pids : obj' = [obj EXCEPT ![o].pid = p]
        BY <2>2
      <3> DEFINE v == [obj[o] EXCEPT !.pid = p]
      <3>2. v \in ObjType /\ v.pending = obj[o].pending /\ v.status = obj[o].status
        BY <1>1 DEF ObjType
      <3>3. obj' = [obj EXCEPT ![o] = v]
        BY <1>1, <3>1
      <3> HIDE DEF v
      <3> QED BY <1>1, <1>5, <1>10, <3>2, <3>3 DEF launchStep, Executes
    <2> QED BY <1>10, <2>1, <2>2 DEF launchStep, Spawn, setPid
  <1>11. CASE awaitSocket(t)
    <2>1. CASE obj' = obj
      BY <1>1, <1>11, <2>1 DEF awaitSocket
    <2>2. CASE \E q \in Pids : obj' = [obj EXCEPT ![o].pid = q, ![o].uds = FALSE]
      <3>1. PICK q \in Pids : obj' = [obj EXCEPT ![o].pid = q, ![o].uds = FALSE]
        BY <2>2
      <3> DEFINE v == [obj[o] EXCEPT !.pid = q, !.uds = FALSE]
      <3>2. v \in ObjType /\ v.pending = obj[o].pending /\ v.status = obj[o].status
        BY <1>1 DEF ObjType
      <3>3. obj' = [obj EXCEPT ![o] = v]
        BY <1>1, <3>1
      <3> HIDE DEF v
      <3> QED BY <1>1, <1>5, <1>11, <3>2, <3>3 DEF awaitSocket
    <2>3. CASE \E u \in BOOLEAN : obj' = [obj EXCEPT ![o].uds = u, ![o].status = "CRASHED"]
      <3>1. PICK u \in BOOLEAN : obj' = [obj EXCEPT ![o].uds = u, ![o].status = "CRASHED"]
        BY <2>3
      <3> DEFINE v == [obj[o] EXCEPT !.uds = u, !.status = "CRASHED"]
      <3>2. v \in ObjType /\ v.pending = obj[o].pending /\ v.status = "CRASHED"
        BY <1>1 DEF ObjType, StatusValue
      <3>3. obj' = [obj EXCEPT ![o] = v]
        BY <1>1, <3>1
      <3> HIDE DEF v
      <3> QED BY <1>1, <1>5, <1>11, <3>2, <3>3 DEF awaitSocket
    <2> QED BY <1>11, <2>1, <2>2, <2>3 DEF awaitSocket
  <1>12. CASE startPlugin(t) \/ connectOrReLaunch(t)
    <2>1. PICK c \in BOOLEAN, k \in {"RUNNING", "CRASHED", obj[o].status} :
            obj' = [obj EXCEPT ![o].client = c, ![o].status = k]
      <3>1. CASE \E c \in BOOLEAN, k \in {"RUNNING", "CRASHED"} :
               obj' = [obj EXCEPT ![o].client = c, ![o].status = k]
        BY <3>1
      <3>2. CASE obj' = [obj EXCEPT ![o].client = TRUE]
        <4>1. [obj[o] EXCEPT !.client = TRUE]
                = [obj[o] EXCEPT !.client = TRUE, !.status = obj[o].status]
          BY <1>1 DEF ObjType
        <4>2. obj' = [obj EXCEPT ![o].client = TRUE, ![o].status = obj[o].status]
          BY <1>1, <3>2, <4>1
        <4> QED BY <4>2
      <3>3. obj[o].client \in BOOLEAN
        BY <1>1 DEF ObjType
      <3> QED BY <1>12, <3>1, <3>2, <3>3 DEF startPlugin, connectOrReLaunch
    <2> DEFINE v == [obj[o] EXCEPT !.client = c, !.status = k]
    <2>2. v \in ObjType /\ v.pending = obj[o].pending /\ v.status = k
      BY <1>1 DEF ObjType, StatusValue
    <2>3. obj' = [obj EXCEPT ![o] = v]
      BY <1>1, <2>1
    <2> HIDE DEF v
    <2> QED BY <1>1, <1>5, <1>12, <2>2, <2>3 DEF startPlugin, connectOrReLaunch
  <1>13. CASE openStateFile(t) \/ writeStateFile(t)
    <2>1. CASE obj' = obj
      BY <1>1, <1>13, <2>1 DEF openStateFile, writeStateFile
    <2>2. CASE obj' = [obj EXCEPT ![o].status = "CRASHED"]
      BY <1>1, <1>2, <2>2 DEF Installing
    <2> QED BY <1>13, <2>1, <2>2 DEF openStateFile, writeStateFile, setState
  <1> QED BY <1>6, <1>7, <1>8, <1>9, <1>10, <1>11, <1>12, <1>13 DEF Step

\* HalfInv stays when one request moves, no object becomes an installing one, and the upgrade
\* that this request gives up leaves no pending revision in the map.
LEMMA HalfFrame ==
    ASSUME IInv, FlowInv, HalfInv, NEW s \in Slots,
           \A x \in Slots \ {s} : /\ pc'[Req(x)] = pc[Req(x)] /\ steps'[Req(x)] = steps[Req(x)]
                                  /\ phase'[x] = phase[x] /\ curr'[x] = curr[x],
           \A x \in Slots : obj'[x].status = obj[x].status \/ obj'[x].status \notin Installing,
           \A x \in Slots : \/ obj'[x].pending \in {obj[x].pending, None}
                            \/ Upgrades(s, x)' /\ phase[x] \in {"install", "load"},
           \A n \in Names : \/ plugins'[n] \in {plugins[n], None}
                            \/ plugins'[n] = s /\ InstallAt(s)' /\ obj'[s].pending = None,
           (\E n \in Names : plugins'[n] = s) => InstallAt(s)' \/ ~InstallAt(s),
           phase[s] \in {"install", "load"} => phase'[s] \in {"install", "load"},
           \A o \in Slots :
              Upgrades(s, o) => \/ Upgrades(s, o)'
                               \/ obj'[o].pending = None
                               \/ \A n \in Names : plugins'[n] # o
    PROVE  HalfInv'
  <1>0. \A n \in Names : plugins[n] \in Slots \cup {None}
    BY DEF IInv, TypeOK
  <1>1. ASSUME NEW n \in Names, NEW o \in Slots, plugins'[n] = o PROVE HalfOK(o)'
    <2>1. CASE plugins[n] # o
      <3>1. o = s /\ InstallAt(s)' /\ obj'[s].pending = None
        BY <1>1, <2>1
      <3> QED BY <3>1 DEF HalfOK
    <2>2. CASE plugins[n] = o
      <3>1. o \in Slots /\ HalfOK(o)
        BY <1>1, <2>2 DEF HalfInv, IInv, TypeOK
      <3>2. obj'[o].status \in Installing => InstallAt(o)'
        <4>1. CASE o = s
          BY <1>1, <3>1, <4>1 DEF HalfOK
        <4>2. CASE o # s
          BY <3>1, <4>2 DEF HalfOK, InstallAt, Working, Active
        <4> QED BY <4>1, <4>2
      <3>3. ASSUME obj'[o].pending # None PROVE \E x \in Slots : Upgrades(x, o)'
        <4>1. CASE Upgrades(s, o)'
          BY <4>1
        <4>2. CASE obj'[o].pending = obj[o].pending
          <5>1. PICK x \in Slots : Upgrades(x, o)
            BY <3>1, <3>3, <4>2 DEF HalfOK
          <5>2. CASE x = s
            BY <1>1, <3>1, <3>3, <5>1, <5>2
          <5>3. CASE x # s
            <6>1. Upgrades(x, o)'
              BY <5>1, <5>3 DEF Upgrades, Working, Active
            <6> QED BY <6>1
          <5> QED BY <5>2, <5>3
        <4> QED BY <3>1, <3>3, <4>1, <4>2
      <3> QED BY <3>2, <3>3 DEF HalfOK
    <2> QED BY <2>1, <2>2
  <1>2. ASSUME NEW x \in Slots, phase'[x] \notin {"install", "load"}
        PROVE  obj'[x].pending = None
    BY <1>2 DEF HalfInv
  <1>3. \A n \in Names : plugins'[n] \in Slots \cup {None}
    BY <1>0
  <1> QED BY <1>1, <1>2, <1>3 DEF HalfInv

\* configurePlugin keeps HalfInv: it sets the pending revision of exactly the object that it
\* upgrades.
LEMMA configurePluginHalf ==
    ASSUME IInv, FlowInv, HalfInv, NEW s \in Slots, configurePlugin(s)
    PROVE  HalfInv'
  <1> DEFINE n == req[s].name
             o == plugins[n]
  <1>1. /\ pc[Req(s)] = "dispatch" /\ curr[s] = None /\ phase[s] = None /\ n \in Names
        /\ RefOK(s) /\ ~InstallAt(s) /\ plugins \in [Names -> Slots \cup {None}]
        /\ obj[s].pending = None /\ \A x \in Slots : ~Upgrades(s, x)
        /\ \A m \in Names : plugins[m] # s
    BY configurePluginEffect, DispatchFacts DEF FlowInv, HalfInv, InstallAt, Upgrades, RefOK
  <1>2. CASE Refused(s) \/ StartsRemove(s)
    <2>1. /\ \A x \in Slots \ {s} : /\ pc'[Req(x)] = pc[Req(x)] /\ steps'[Req(x)] = steps[Req(x)]
                                    /\ phase'[x] = phase[x] /\ curr'[x] = curr[x]
          /\ UNCHANGED <<plugins, obj>>
      BY <1>2 DEF Refused, StartsRemove, ReqAt, PhaseAt
    <2> QED BY <1>1, <2>1, HalfFrame
  <1>3. CASE StartsUpgrade(s)
    <2>1. /\ \A x \in Slots \ {s} : /\ pc'[Req(x)] = pc[Req(x)] /\ steps'[Req(x)] = steps[Req(x)]
                                    /\ phase'[x] = phase[x] /\ curr'[x] = curr[x]
          /\ pc'[Req(s)] = "run" /\ phase'[s] = "prelaunch" /\ curr'[s] = o
          /\ UNCHANGED plugins /\ o \in Slots
          /\ PendingAt(o, req'[s].rev)
      BY <1>3 DEF StartsUpgrade, ReqAt, PhaseAt
    <2>2. Upgrades(s, o)' /\ phase[o] \in {"install", "load"}
      <3>1. phase[o] \in {"install", "load"}
        BY <1>1, <2>1 DEF FlowInv, RefOK
      <3>2. Working(s)' /\ curr'[s] = o /\ phase'[s] = "prelaunch" /\ o' = o
        BY <2>1, <1>3 DEF Working, Active, StartsUpgrade, Revised
      <3> QED BY <3>1, <3>2 DEF Upgrades
    <2>3. \A x \in Slots : \/ obj'[x].pending = obj[x].pending
                           \/ x = o
      BY <2>1 DEF PendingAt
    <2>4. \A x \in Slots : obj'[x].status = obj[x].status
      BY <2>1 DEF PendingAt
    <2>5. ASSUME NEW x \in Slots
          PROVE  \/ obj'[x].pending \in {obj[x].pending, None}
                 \/ Upgrades(s, x)' /\ phase[x] \in {"install", "load"}
      <3>1. CASE x = o
        <4>1. Upgrades(s, x)'
          BY <2>1, <2>2, <3>1 DEF Upgrades, Working, Active
        <4> QED BY <2>2, <3>1, <4>1
      <3> QED BY <2>3, <3>1
    <2> QED BY <1>1, <2>1, <2>4, <2>5, HalfFrame
  <1>4. CASE StartsInstall(s)
    <2>1. /\ \A x \in Slots \ {s} : /\ pc'[Req(x)] = pc[Req(x)] /\ steps'[Req(x)] = steps[Req(x)]
                                    /\ phase'[x] = phase[x] /\ curr'[x] = curr[x]
          /\ pc'[Req(s)] = "run" /\ phase'[s] = "install"
          /\ steps'[Req(s)] = generateInstallWorkflow(req'[s].local)
          /\ req'[s].local \in BOOLEAN
          /\ UNCHANGED obj /\ MapAt(n, s)
      BY <1>4 DEF StartsInstall, ReqAt, PhaseAt, Revised, ReqType
    <2>2. steps'[Req(s)] # <<>>
      BY <2>1, WorkflowValues
    <2>3. InstallAt(s)'
      BY <2>1, <2>2 DEF InstallAt, Working, Active
    <2> QED BY <1>1, <2>1, <2>3, HalfFrame DEF MapAt
  <1> QED BY <1>2, <1>3, <1>4, configurePluginEffect

\* The handlers that touch neither objects nor plugins keep HalfInv.
LEMMA RequestMovesHalf ==
    ASSUME IInv, FlowInv, HalfInv, NEW s \in Slots,
           applyConfig(s) \/ Apply(s) \/ stopMonitoring(s) \/ UnscheduleJob(s) \/ Finish(s)
    PROVE  HalfInv'
  <1>1. /\ pc[Req(s)] \in {"dispatch", "apply", "unmonitor", "unschedule", "finish"}
        /\ UNCHANGED <<plugins, obj>> /\ ~InstallAt(s)
    BY DEF applyConfig, Apply, stopMonitoring, UnscheduleJob, Finish, memory, InstallAt
  <1>2. /\ pc \in [Threads -> ReqPc \cup MonPc] /\ steps \in [Threads -> Seq(StepKind)]
        /\ phase \in [Slots -> PhaseType] /\ curr \in [Slots -> Slots \cup {None}]
        /\ \A x \in Slots : Req(x) \in Threads /\ Mon(x) \in Threads
        /\ \A x, y \in Slots : Mon(x) # Req(y) /\ (Req(x) = Req(y) <=> x = y)
    BY ThreadFacts DEF IInv, TypeOK
  <1>3. CASE UnscheduleJob(s)
    <2>1. /\ \A x \in Slots : /\ pc'[Req(x)] = IF x = s THEN "run" ELSE pc[Req(x)]
                              /\ steps'[Req(x)] = IF x = s THEN <<"remove">> ELSE steps[Req(x)]
          /\ UNCHANGED <<phase, curr>>
      <3>1. UNCHANGED <<phase, curr>>
        BY <1>3 DEF UnscheduleJob
      <3>2. \A x \in Slots : pc'[Req(x)] = IF x = s THEN "run" ELSE pc[Req(x)]
        BY <1>3, UnscheduleEffect
      <3>3. \A x \in Slots : steps'[Req(x)] = IF x = s THEN <<"remove">> ELSE steps[Req(x)]
        BY <1>3, UnscheduleEffect
      <3> QED BY <3>1, <3>2, <3>3
    <2>2. \A o \in Slots : Upgrades(s, o) => Upgrades(s, o)'
      BY <2>1 DEF Upgrades, Working, Active
    <2> QED BY <1>1, <2>1, <2>2, HalfFrame
  <1>4. CASE applyConfig(s)
    <2>1. phase[s] = None /\ curr[s] = None
      BY <1>4, DispatchFacts DEF applyConfig
    <2>2. \A x \in Slots \ {s} : /\ pc'[Req(x)] = pc[Req(x)] /\ steps'[Req(x)] = steps[Req(x)]
                                 /\ phase'[x] = phase[x] /\ curr'[x] = curr[x]
      BY <1>2, <1>4 DEF applyConfig, Conclude, Goto
    <2>3. \A o \in Slots : ~Upgrades(s, o)
      BY <2>1 DEF Upgrades
    <2> QED BY <1>1, <2>1, <2>2, <2>3, HalfFrame
  <1>5. CASE Apply(s) \/ stopMonitoring(s) \/ Finish(s)
    <2>1. /\ UNCHANGED <<phase, curr>>
          /\ \A x \in Slots \ {s} : pc'[Req(x)] = pc[Req(x)] /\ steps'[Req(x)] = steps[Req(x)]
      BY <1>2, <1>5 DEF Apply, stopMonitoring, Finish, Conclude, RunSteps, Goto
    <2>2. \A o \in Slots : Upgrades(s, o) => Upgrades(s, o)'
      <3>1. CASE Apply(s)
        <4>1. phase[s] = "apply"
          BY <3>1, ReqFacts DEF Apply, ReqOK
        <4> QED BY <4>1 DEF Upgrades
      <3>2. CASE stopMonitoring(s)
        <4>1. pc'[Req(s)] \in {"run", "unschedule"}
          BY <1>2, <3>2 DEF stopMonitoring, RunSteps, Goto
        <4> QED BY <2>1, <4>1 DEF Upgrades, Working, Active
      <3>3. CASE Finish(s)
        BY <3>3 DEF Finish, Upgrades, Working
      <3> QED BY <1>5, <3>1, <3>2, <3>3
    <2> QED BY <1>1, <2>1, <2>2, HalfFrame
  <1> QED BY <1>3, <1>4, <1>5

\* Objects may be marked as crashed or lose their pending revision, no more.
ObjCalm ==
    \A x \in Slots : /\ obj'[x].status \in {obj[x].status, "CRASHED"}
                     /\ obj'[x].pid = obj[x].pid
                     /\ obj'[x].pending \in {obj[x].pending, None}

\* Marking an object as crashed changes nothing else.
LEMMA CrashedEffect ==
    ASSUME IInv, NEW o \in Slots, setState(o, "CRASHED")
    PROVE  /\ ObjCalm /\ obj'[o].status = "CRASHED"
           /\ \A x \in Slots : obj'[x].pending = obj[x].pending
  <1>1. \A x \in Slots : obj[x] \in ObjType
    BY DEF IInv, TypeOK
  <1>2. \A x \in Slots : obj'[x] = IF x = o THEN [obj[x] EXCEPT !.status = "CRASHED"] ELSE obj[x]
    BY DEF IInv, TypeOK, setState
  <1> QED BY <1>1, <1>2 DEF ObjCalm, ObjType

\* resetPendingStatus clears the pending revision of the object the request upgraded.
LEMMA ResetEffect ==
    ASSUME IInv, NEW s \in Slots, resetPendingStatus(s)
    PROVE  /\ ObjCalm /\ \A x \in Slots : obj'[x].status = obj[x].status
           /\ curr[s] # None => obj'[curr[s]].pending = None
  <1>1. curr[s] \in Slots \cup {None}
    BY DEF IInv, TypeOK
  <1>2. CASE curr[s] = None
    BY <1>2 DEF resetPendingStatus, ObjCalm
  <1>3. CASE curr[s] # None
    <2>1. PendingAt(curr[s], None)
      BY <1>1, <1>3, PendingEffect DEF resetPendingStatus
    <2> QED BY <1>1, <1>3, <2>1 DEF PendingAt, ObjCalm
  <1> QED BY <1>2, <1>3

\* A request s at the end of its workflow goes on to l, or hands over.
Leaves(s, l) ==
    /\ \A x \in Slots : /\ pc'[Req(x)] = IF x = s THEN l ELSE pc[Req(x)]
                        /\ steps'[Req(x)] = steps[Req(x)] /\ steps'[Mon(x)] = steps[Mon(x)]
                        /\ x # s => pc'[Mon(x)] = pc[Mon(x)]
    /\ UNCHANGED <<curr, req, inProgress>>

\* Both ways of leaving a workflow leave the other goroutines alone.
LEMMA LeavesEffect ==
    ASSUME IInv, NEW s \in Slots, UNCHANGED <<steps, curr, req, inProgress>>
    PROVE  /\ \A l : Goto(Req(s), l) => Leaves(s, l) /\ pc'[Mon(s)] = pc[Mon(s)]
           /\ pc' = [pc EXCEPT ![Req(s)] = "finish", ![Mon(s)] = "schedule"] =>
                 Leaves(s, "finish") /\ pc'[Mon(s)] = "schedule"
  <1>1. /\ pc \in [Threads -> ReqPc \cup MonPc]
        /\ \A x \in Slots : Req(x) \in Threads /\ Mon(x) \in Threads /\ Req(x) # Mon(s)
        /\ \A x \in Slots : Mon(x) # Req(s) /\ (Req(x) = Req(s) <=> x = s)
                                           /\ (Mon(x) = Mon(s) <=> x = s)
    BY ThreadFacts DEF IInv, TypeOK
  <1> QED BY <1>1 DEF Leaves, Goto

\* What a request does after a call of runSteps keeps HalfInv: a failed upgrade resets the
\* pending revision, a failed installation drops its object.
LEMMA AfterStepsHalf ==
    ASSUME IInv, FlowInv, HalfInv, NEW s \in Slots,
           \/ installed(s) \/ installFailed(s) \/ preLaunched(s) \/ upgradeFailed(s)
           \/ replaced(s) \/ removed(s) \/ removeFailed(s) \/ applied(s) \/ loaded(s)
    PROVE  HalfInv'
  <1>0. plugins \in [Names -> Slots \cup {None}] /\ phase \in [Slots -> PhaseType]
    BY DEF IInv, TypeOK
  <1>1. ASSUME NEW p, StepsDone(s, p) \/ StepsFailed(s, p), NEW l, Leaves(s, l), ObjCalm,
               \A n \in Names : plugins'[n] \in {plugins[n], None},
               StepsDone(s, p) \/ p # "install" \/ plugins'[req[s].name] = None,
               \/ phase' = phase
               \/ p = "prelaunch" /\ phase' = [phase EXCEPT ![s] = "replace"],
               \A o \in Slots : Upgrades(s, o) => \/ l \notin {"free", "done", "finish"}
                                                  \/ obj'[o].pending = None
        PROVE  HalfInv'
    <2>1. /\ phase[s] = p /\ steps[Req(s)] = <<>> /\ req[s].name \in Names
          /\ StepsDone(s, p) => pc[Req(s)] = "run"
          /\ pc[Req(s)] \in {"run", "failed"}
      BY <1>1, OverFacts DEF StepsDone
    <2>2. \A x \in Slots \ {s} : /\ pc'[Req(x)] = pc[Req(x)] /\ steps'[Req(x)] = steps[Req(x)]
                                 /\ phase'[x] = phase[x] /\ curr'[x] = curr[x]
      BY <1>0, <1>1 DEF Leaves
    <2>3. \A x \in Slots : obj'[x].status = obj[x].status \/ obj'[x].status \notin Installing
      BY <1>1 DEF ObjCalm, Installing
    <2>4. \A x \in Slots : obj'[x].pending \in {obj[x].pending, None}
      BY <1>1 DEF ObjCalm
    <2>5. (\E n \in Names : plugins'[n] = s) => ~InstallAt(s)
      <3>1. ASSUME NEW n \in Names, plugins'[n] = s, InstallAt(s) PROVE FALSE
        <4>1. p = "install" /\ pc[Req(s)] = "failed"
          BY <2>1, <3>1 DEF InstallAt
        <4>2. plugins'[req[s].name] = None /\ plugins[n] = s
          BY <1>1, <2>1, <3>1, <4>1
        <4>3. req[s].name = n
          BY <3>1, <4>2 DEF IInv, WellFormed, MapOK
        <4> QED BY <3>1, <4>2, <4>3
      <3> QED BY <3>1
    <2>6. \A o \in Slots : Upgrades(s, o) => \/ Upgrades(s, o)' \/ obj'[o].pending = None
      <3> SUFFICES ASSUME NEW o \in Slots, Upgrades(s, o), l \notin {"free", "done", "finish"}
                   PROVE  Upgrades(s, o)'
        BY <1>1
      <3> QED BY <1>0, <1>1, <2>1 DEF Upgrades, Leaves, Working, Active
    <2>7. phase[s] \in {"install", "load"} => phase'[s] \in {"install", "load"}
      BY <1>1, <2>1
    <2> QED BY <1>1, <2>2, <2>3, <2>4, <2>5, <2>6, <2>7, HalfFrame
  <1>2. ASSUME obj' = obj PROVE ObjCalm
    BY <1>2 DEF ObjCalm
  <1>3. ASSUME NEW p, StepsDone(s, p) \/ StepsFailed(s, p), p \notin {"prelaunch", "replace"},
               NEW o \in Slots
        PROVE  ~Upgrades(s, o)
    BY <1>3, OverFacts DEF Upgrades
  <1>4. ASSUME NEW p, StepsDone(s, p) \/ StepsFailed(s, p), resetPendingStatus(s),
               NEW o \in Slots, Upgrades(s, o)
        PROVE  obj'[o].pending = None
    BY <1>4, ResetEffect DEF Upgrades
  <1>5. CASE installed(s)
    <2>1. StepsDone(s, "install") /\ Leaves(s, "finish") /\ ObjCalm
          /\ UNCHANGED <<plugins, phase>>
      BY <1>5, LeavesEffect, ResetEffect DEF installed
    <2> QED BY <1>1, <1>3, <2>1
  <1>6. CASE installFailed(s)
    <2>1. StepsFailed(s, "install") /\ Leaves(s, "finish") /\ ObjCalm
          /\ UNCHANGED phase /\ plugins' = [plugins EXCEPT ![req[s].name] = None]
      BY <1>6, LeavesEffect, ResetEffect DEF installFailed, Conclude
    <2>2. /\ \A n \in Names : plugins'[n] \in {plugins[n], None}
          /\ plugins'[req[s].name] = None
      BY <1>0, <2>1, OverFacts
    <2> QED BY <1>1, <1>3, <2>1, <2>2
  <1>7. CASE preLaunched(s)
    <2>1. StepsDone(s, "prelaunch") /\ Leaves(s, "unmonitor") /\ ObjCalm
          /\ UNCHANGED plugins /\ phase' = [phase EXCEPT ![s] = "replace"]
      BY <1>7, <1>2, LeavesEffect DEF preLaunched, memory
    <2> QED BY <1>1, <2>1
  <1>8. CASE upgradeFailed(s)
    <2>1. (\E p \in {"prelaunch", "replace"} : StepsFailed(s, p)) /\ Leaves(s, "finish") /\ ObjCalm
          /\ UNCHANGED <<plugins, phase>> /\ resetPendingStatus(s)
      BY <1>8, LeavesEffect, ResetEffect DEF upgradeFailed, Conclude
    <2> QED BY <1>1, <1>4, <2>1
  <1>9. CASE replaced(s)
    <2>1. StepsDone(s, "replace") /\ Leaves(s, "launch") /\ ObjCalm
          /\ UNCHANGED phase /\ plugins' = [plugins EXCEPT ![req[s].name] = None]
      BY <1>9, <1>2, LeavesEffect DEF replaced
    <2>2. \A n \in Names : plugins'[n] \in {plugins[n], None}
      BY <1>0, <2>1
    <2> QED BY <1>1, <2>1, <2>2
  <1>10. CASE removed(s)
    <2>1. StepsDone(s, "remove") /\ Leaves(s, "finish") /\ ObjCalm
          /\ UNCHANGED phase /\ plugins' = [plugins EXCEPT ![req[s].name] = None]
      BY <1>10, <1>2, LeavesEffect DEF removed, Conclude
    <2>2. \A n \in Names : plugins'[n] \in {plugins[n], None}
      BY <1>0, <2>1
    <2> QED BY <1>1, <1>3, <2>1, <2>2
  <1>11. CASE removeFailed(s)
    <2>1. StepsFailed(s, "remove") /\ Leaves(s, "finish") /\ ObjCalm
          /\ UNCHANGED <<plugins, phase>>
      BY <1>11, <1>2, LeavesEffect DEF removeFailed, Conclude, memory
    <2> QED BY <1>1, <1>3, <2>1
  <1>12. CASE applied(s)
    <2>1. (StepsDone(s, "apply") \/ StepsFailed(s, "apply")) /\ Leaves(s, "finish")
          /\ UNCHANGED <<plugins, phase>>
      BY <1>12, LeavesEffect DEF applied, Conclude
    <2>2. curr[s] \in Slots
      BY <2>1, OverFacts
    <2>3. ObjCalm
      BY <1>12, <1>2, <2>2, CrashedEffect DEF applied
    <2> QED BY <1>1, <1>3, <2>1, <2>3
  <1>13. CASE loaded(s)
    <2>1. (StepsDone(s, "load") \/ StepsFailed(s, "load")) /\ Leaves(s, "finish")
          /\ UNCHANGED <<plugins, phase>>
      BY <1>13, LeavesEffect DEF loaded
    <2>3. ObjCalm
      BY <1>13, <1>2, CrashedEffect DEF loaded
    <2> QED BY <1>1, <1>3, <2>1, <2>3
  <1> QED BY <1>5, <1>6, <1>7, <1>8, <1>9, <1>10, <1>11, <1>12, <1>13

\* launchUpgrade keeps HalfInv: the object with the pending revision has left the map.
LEMMA launchUpgradeHalf ==
    ASSUME IInv, FlowInv, HalfInv, NEW s \in Slots, launchUpgrade(s)
    PROVE  HalfInv'
  <1>1. /\ phase[s] = "replace" /\ req[s].name \in Names
        /\ ReqAt(s, "run", <<"launch">>) /\ PhaseAt(s, "install", curr[s])
        /\ MapAt(req[s].name, s) /\ UNCHANGED obj /\ curr[s] \in Slots
        /\ plugins[req[s].name] = None /\ RefOK(s)
    BY launchUpgradeEffect DEF launchUpgrade
  <1>2. InstallAt(s)'
    BY <1>1 DEF InstallAt, Working, Active, ReqAt, PhaseAt
  <1>3. obj'[s].pending = None
    BY <1>1 DEF HalfInv
  <1>4. ASSUME NEW n \in Names, plugins'[n] = curr[s] PROVE FALSE
    <2>1. curr[s] # s /\ req[curr[s]].name = req[s].name
      BY <1>1 DEF RefOK
    <2>2. plugins[n] = curr[s] /\ n # req[s].name
      BY <1>1, <1>4, <2>1 DEF MapAt
    <2> QED BY <1>1, <2>1, <2>2 DEF IInv, WellFormed, MapOK
  <1>5. \A o \in Slots : Upgrades(s, o) => \A n \in Names : plugins'[n] # o
    BY <1>4 DEF Upgrades
  <1> QED BY <1>1, <1>2, <1>3, <1>5, HalfFrame DEF MapAt, ReqAt, PhaseAt

\* A step keeps HalfInv: downloads and unpacks belong to a request that still has its launch
\* ahead, and a launch ends in RUNNING or CRASHED.
LEMMA StepHalf ==
    ASSUME IInv, OneRequestPerPlugin, FlowInv, HalfInv, NEW t \in Threads, Step(t)
    PROVE  HalfInv'
  <1> DEFINE T == Target(t)
  <1>1. PICK l, w : Transition(t, l, w)
    BY StepTransition
  <1>2. /\ pc[t] \in StepPc \cup {"run", "check"}
        /\ l \notin {"free", "dispatch", "check", "finish", "done", "launch", "off", "gone",
                     "unmonitor", "unschedule"}
        /\ \A u \in Threads : pc'[u] = IF u = t THEN l ELSE pc[u]
        /\ \A u \in Threads : steps'[u] = IF u = t THEN w ELSE steps[u]
        /\ UNCHANGED <<plugins, phase, curr, req>>
    BY <1>1, TransitionPoint, StepFrame DEF Transition, OnlySteps
  <1>3. T \in Slots /\ (\A x \in Slots \ {T} : obj'[x] = obj[x])
        /\ obj'[T].pending = obj[T].pending
    BY StepObj
  <1>4. obj'[T].status \in Installing =>
                \/ /\ steps[t] # <<>> /\ Head(steps[t]) \in {"download", "unpack"}
                   /\ pc[t] \in {"run", "exec"}
                \/ obj[T].status \in Installing /\ pc[t] # "run"
    BY StepObj
  <1>5. \A x \in Slots : Req(x) \in Threads /\ Req(x)[1] = "req" /\ Req(x)[2] = x
    BY ThreadFacts
  <1>6. ASSUME NEW x \in Slots, NEW o \in Slots, Upgrades(x, o) PROVE Upgrades(x, o)'
    BY <1>2, <1>5, <1>6 DEF Upgrades, Working, Active
  <1>7. ASSUME NEW n \in Names, NEW o \in Slots, plugins[n] = o PROVE HalfOK(o)'
    <2>1. HalfOK(o) /\ phase[o] \in {"install", "load"} /\ req[o].name = n
      BY <1>7 DEF HalfInv, FlowInv, RefOK, IInv, WellFormed, MapOK
    <2>2. ASSUME obj'[o].pending # None PROVE \E s \in Slots : Upgrades(s, o)'
      <3>1. obj[o].pending # None
        BY <1>3, <2>2
      <3> QED BY <1>6, <2>1, <3>1 DEF HalfOK
    <2>3. ASSUME obj'[o].status \in Installing, o # T PROVE InstallAt(o)'
      <3>1. InstallAt(o)
        BY <1>3, <2>1, <2>3 DEF HalfOK
      <3>2. Req(o) # t
        BY <1>5, <2>3, <3>1 DEF InstallAt, Target
      <3> QED BY <1>2, <1>5, <3>1, <3>2 DEF InstallAt, Working, Active
    <2>4. ASSUME steps[t] # <<>>, Head(steps[t]) \in {"download", "unpack"}, o = T,
                 pc[t] \in {"run", "exec"}
          PROVE  InstallAt(o)'
      <3>1. PICK x \in Slots : t = Req(x) \/ t = Mon(x)
        BY DEF Threads, Req, Mon
      <3>2. t = Req(x) /\ phase[x] \in {"install", "prelaunch"}
        BY <2>4, <3>1, Workflows DEF FlowInv, FitOK, Relaunches, Removals, IInv, TypeOK, PhaseType
      <3>3. x = o /\ phase[o] = "install"
        BY <1>5, <2>1, <2>4, <3>2 DEF Target
      <3>4. steps[t] \in {<<"download", "unpack", "launch">>, <<"unpack", "launch">>}
        BY <2>4, <3>2, <3>3, Workflows DEF FlowInv, FitOK, Installs
      <3>5. Tail(steps[t]) # <<>>
        BY <3>4, Workflows
      <3>6. \/ l = "failed"
            \/ l = "exec" /\ w = steps[t]
            \/ l = "run" /\ w = Tail(steps[t])
        BY <1>1, <2>4 DEF Transition
      <3> QED BY <1>2, <2>4, <3>2, <3>3, <3>5, <3>6 DEF InstallAt, Working, Active
    <2>5. ASSUME obj[o].status \in Installing, o = T, pc[t] # "run"
          PROVE  steps[t] # <<>> /\ Head(steps[t]) \in {"download", "unpack"} /\ pc[t] = "exec"
      <3>1. InstallAt(o)
        BY <2>1, <2>5 DEF HalfOK
      <3>2. PICK x \in Slots : t = Req(x) \/ t = Mon(x)
        BY DEF Threads, Req, Mon
      <3>3. t # Mon(x)
        <4> SUFFICES ASSUME t = Mon(x) PROVE FALSE
          OBVIOUS
        <4>1. x = o
          BY <2>5, ThreadFacts DEF Target
        <4>2. pc[Req(o)] \in {"finish", "done"}
          BY <1>2, <4>1 DEF FlowInv, RefOK, StepPc
        <4> QED BY <3>1, <4>2 DEF InstallAt
      <3>4. x = o
        <4> SUFFICES ASSUME x # o PROVE FALSE
          OBVIOUS
        <4>1. t = Req(x)
          BY <3>2, <3>3
        <4>2. curr[x] = o
          BY <1>5, <2>5, <4>1 DEF Target
        <4>3. req[x].name = n
          BY <2>1, <4>2 DEF FlowInv, RefOK
        <4>4. Active(x) /\ Active(o)
          BY <1>2, <3>1, <4>1 DEF InstallAt, Working, Active, StepPc
        <4> QED BY <2>1, <4>3, <4>4 DEF OneRequestPerPlugin
      <3>5. pc[t] = "exec"
        BY <1>2, <2>5, <3>1, <3>2, <3>3, <3>4 DEF InstallAt, StepPc
      <3> QED BY <3>1, <3>2, <3>3, <3>4, <3>5 DEF InstallAt, IInv, WellFormed, StepOK, StepPc
    <2>6. ASSUME obj'[o].status \in Installing PROVE InstallAt(o)'
      BY <1>4, <2>3, <2>4, <2>5, <2>6
    <2> QED BY <2>2, <2>6 DEF HalfOK
  <1>8. ASSUME NEW x \in Slots, phase[x] \notin {"install", "load"}
        PROVE  obj'[x].pending = None
    BY <1>3, <1>8 DEF HalfInv
  <1>9. \A n \in Names : plugins'[n] = plugins[n] /\ plugins[n] \in Slots \cup {None}
    BY <1>2 DEF IInv, TypeOK
  <1> HIDE DEF T
  <1> QED BY <1>2, <1>7, <1>8, <1>9 DEF HalfInv

\* Monitors keep HalfInv.
LEMMA MonitorHalf ==
    ASSUME IInv, OneRequestPerPlugin, FlowInv, HalfInv, NEW s \in Slots,
           MonitorRun(s) \/ runOnSchedule(s)
    PROVE  HalfInv'
  <1>1. CASE Step(Mon(s))
    BY <1>1, StepHalf, ThreadFacts
  <1>2. CASE \/ ScheduleJob(s) \/ addJob(s) \/ startMonitoring(s) \/ healthCheck(s)
             \/ GetStatus(s) \/ relaunched(s) \/ runOnSchedule(s)
    <2>1. PICK l : MonAt(s, l, <<>>) /\ UNCHANGED <<plugins, phase, curr>>
      BY <1>2, MonitorMoves
    <2>2. ObjCalm
      <3>1. obj' = obj \/ setState(s, "CRASHED")
        BY <1>2 DEF ScheduleJob, addJob, startMonitoring, healthCheck, GetStatus, relaunched,
           runOnSchedule
      <3> QED BY <3>1, CrashedEffect DEF ObjCalm
    <2>3. \A o \in Slots : Upgrades(s, o) => Upgrades(s, o)'
      BY <2>1 DEF MonAt, Upgrades, Working, Active
    <2>4. InstallAt(s) => InstallAt(s)'
      BY <2>1 DEF MonAt, InstallAt, Working, Active
    <2> QED BY <2>1, <2>2, <2>3, <2>4, HalfFrame DEF ObjCalm, MonAt, Installing
  <1> QED BY <1>1, <1>2 DEF MonitorRun

\* Every step of the specification keeps HalfInv.
LEMMA NextHalf ==
    ASSUME IInv, OneRequestPerPlugin, FlowInv, HalfInv, [Next]_vars
    PROVE  HalfInv'
  <1>0. ASSUME UNCHANGED <<plugins, pc, steps, phase, curr, obj>> PROVE HalfInv'
    BY <1>0 DEF HalfInv, HalfOK, InstallAt, Upgrades, Working, Active
  <1>1. CASE UNCHANGED vars
    BY <1>0, <1>1 DEF vars, memory, control
  <1>2. ASSUME NEW s \in Slots, filterPendingPluginRevisions(s) PROVE HalfInv'
    <2>1. Accepted(s)
      BY <1>2, filterEffect
    <2>2. /\ ~InstallAt(s) /\ \A o \in Slots : ~Upgrades(s, o)
      BY <2>1 DEF Accepted, InstallAt, Upgrades, Working, Active
    <2> QED BY <2>1, <2>2, HalfFrame DEF Accepted, ReqAt
  <1>3. ASSUME NEW s \in Slots, Request(s) PROVE HalfInv'
    BY <1>3, configurePluginHalf, RequestMovesHalf, AfterStepsHalf, launchUpgradeHalf,
       StepHalf, ThreadFacts DEF Request
  <1>4. ASSUME NEW s \in Slots, UnscheduleJob(s) PROVE HalfInv'
    BY <1>4, RequestMovesHalf
  <1>5. ASSUME NEW s \in Slots, MonitorRun(s) \/ runOnSchedule(s) PROVE HalfInv'
    BY <1>5, MonitorHalf
  <1>6. CASE scanLeftovers \/ removeLeftover \/ ProcessExits \/ CancelContext
    BY <1>0, <1>6 DEF scanLeftovers, removeLeftover, ProcessExits, CancelContext,
       memory, control
  <1>7. CASE InitPluginManager
    <2>1. PICK ld \in [FileNames -> Slots] : Loads(ld)
      BY <1>7, InitPluginManagerFacts
    <2>2. /\ plugins' = [n \in Names |-> IF n \in FileNames THEN ld[n] ELSE None]
          /\ \A n \in FileNames : /\ phase'[ld[n]] = "load"
                                  /\ obj'[ld[n]].status = "UNSPECIFIED"
                                  /\ obj'[ld[n]].pending = None
          /\ \A x \in Slots \ {ld[n] : n \in FileNames} :
                phase'[x] = phase[x] /\ obj'[x] = obj[x]
      BY <2>1 DEF Loads
    <2>3. ASSUME NEW n \in Names, NEW o \in Slots, plugins'[n] = o PROVE HalfOK(o)'
      BY <2>2, <2>3 DEF HalfOK, Installing
    <2>4. ASSUME NEW x \in Slots, phase'[x] \notin {"install", "load"}
          PROVE  obj'[x].pending = None
      BY <2>2, <2>4 DEF HalfInv
    <2>5. \A n \in Names : plugins'[n] \in Slots \cup {None}
      BY <2>2
    <2> QED BY <2>3, <2>4, <2>5 DEF HalfInv
  <1>8. CASE InitFails
    BY <1>8 DEF InitFails, HalfInv
  <1> QED BY <1>1, <1>2, <1>3, <1>4, <1>5, <1>6, <1>7, <1>8 DEF Next, Environment

\* The control flow of every goroutine is as FlowInv says, always, for every value of the
\* constants.
LEMMA FlowHolds == Spec => [](IInv /\ OneRequestPerPlugin /\ FlowInv)
  <1>1. Spec => []IInv
    BY TypeCorrect DEF IInv
  <1>2. IInv /\ OneRequestPerPlugin /\ FlowInv /\ [Next]_vars => FlowInv'
    BY NextFlow
  <1> QED BY <1>1, <1>2, InitFlow, OneRequest, PTL DEF Spec

\* NoHalfInstalledPlugin holds for every value of the constants: once no request for a plugin is
\* in progress, the object that the manager holds for it is neither INSTALLING nor INSTALL_FAILED
\* and has no pending revision (installPlugin, upgradePlugin and their error paths in
\* manager.go).
THEOREM NothingHalfInstalled == Spec => []NoHalfInstalledPlugin
  <1>1. Init => HalfInv
    BY DEF Init, HalfInv, NewObj
  <1>2. IInv /\ OneRequestPerPlugin /\ FlowInv /\ HalfInv /\ [Next]_vars => HalfInv'
    BY NextHalf
  <1>3. IInv /\ OneRequestPerPlugin /\ FlowInv /\ HalfInv => NoHalfInstalledPlugin
    <2> SUFFICES ASSUME IInv, OneRequestPerPlugin, FlowInv, HalfInv,
                        NEW n \in Names \ inProgress, NEW o \in Slots, plugins[n] = o
                 PROVE  obj[o].status \notin Installing /\ obj[o].pending = None
      BY DEF NoHalfInstalledPlugin, Installing, IInv, TypeOK
    <2>1. HalfOK(o) /\ req[o].name = n
      BY DEF HalfInv, IInv, WellFormed, MapOK
    <2>2. ~InstallAt(o)
      BY <2>1 DEF InstallAt, Working, OneRequestPerPlugin
    <2>3. ASSUME NEW s \in Slots, Upgrades(s, o) PROVE FALSE
      <3>1. Active(s) /\ req[s].name = n
        BY <2>1, <2>3 DEF Upgrades, Working, FlowInv, RefOK
      <3> QED BY <3>1 DEF OneRequestPerPlugin
    <2> QED BY <2>1, <2>2, <2>3 DEF HalfOK
  <1> QED BY <1>1, <1>2, <1>3, FlowHolds, PTL DEF Spec

-----------------------------------------------------------------------------
(*****************************************************************************)
(* The map of plugins is changed as PluginMap says.                          *)
(*****************************************************************************)

\* The part of the state that PluginMap is about.
mapVars == <<plugins, inProgress, Used>>

\* The phases of the requests change as PhaseAt says, and what was put in the map stays known.
LEMMA UsedAt ==
    ASSUME NEW s \in Slots, NEW p, NEW c, PhaseAt(s, p, c), phase[s] \notin {"install", "load"}
    PROVE  Used' = IF p \in {"install", "load"} THEN Used \cup {s} ELSE Used
  BY DEF Used, PhaseAt

\* Adding the object of a request that has the mark.
LEMMA AddsToMap ==
    ASSUME IInv, OneRequestPerPlugin, NEW s \in Slots, NEW c, Active(s), req[s].name \in Names,
           plugins[req[s].name] = None, phase[s] \notin {"install", "load"},
           PhaseAt(s, "install", c), plugins' = [plugins EXCEPT ![req[s].name] = s], inProgress' = inProgress
    PROVE  Map!Next
  <1> DEFINE n == req[s].name
  <1>1. n \in Names /\ n \in inProgress /\ plugins[n] = None
    BY DEF OneRequestPerPlugin
  <1>2. s \notin Used
    BY DEF Used
  <1>3. Used' = Used \cup {s}
    BY UsedAt
  <1>4. plugins' = [plugins EXCEPT ![n] = s]
    OBVIOUS
  <1> HIDE DEF n
  <1>5. Map!Add(n, s)
    BY <1>1, <1>2, <1>3, <1>4 DEF Map!Add
  <1> QED BY <1>1, <1>5 DEF Map!Next

\* Taking an object out of the map, behind the mark of its name.
LEMMA DropsFromMap ==
    ASSUME IInv, OneRequestPerPlugin, NEW s \in Slots, Active(s), req[s].name \in Names,
           plugins' = [plugins EXCEPT ![req[s].name] = None], UNCHANGED <<phase, inProgress>>
    PROVE  Map!Next \/ mapVars' = mapVars
  <1> DEFINE n == req[s].name
  <1>1. n \in Names /\ n \in inProgress
    BY DEF OneRequestPerPlugin
  <1>2. Used' = Used
    BY DEF Used
  <1>3. plugins' = [plugins EXCEPT ![n] = None] /\ plugins \in [Names -> Slots \cup {None}]
    BY DEF IInv, TypeOK
  <1> HIDE DEF n
  <1>4. CASE plugins[n] = None
    <2>1. plugins' = plugins
      BY <1>1, <1>3, <1>4
    <2> QED BY <1>2, <2>1 DEF mapVars
  <1>5. CASE plugins[n] # None
    <2>1. Map!Drop(n)
      BY <1>1, <1>2, <1>3, <1>5 DEF Map!Drop
    <2> QED BY <1>1, <2>1 DEF Map!Next
  <1> QED BY <1>4, <1>5

\* configurePlugin adds the object of an installation, or leaves the map alone.
LEMMA configurePluginMap ==
    ASSUME IInv, OneRequestPerPlugin, FlowInv, NEW s \in Slots, configurePlugin(s)
    PROVE  Map!Next \/ mapVars' = mapVars
  <1>1. /\ pc[Req(s)] = "dispatch" /\ Active(s)
        /\ Refused(s) \/ StartsUpgrade(s) \/ StartsInstall(s) \/ StartsRemove(s)
    BY configurePluginEffect
  <1>2. /\ phase[s] = None /\ req[s].name \in Names /\ plugins \in [Names -> Slots \cup {None}]
    BY <1>1, DispatchFacts
  <1>3. inProgress' = inProgress
    BY DEF configurePlugin
  <1>4. CASE Refused(s)
    <2>1. PhaseAt(s, None, None) /\ plugins' = plugins
      BY <1>4 DEF Refused
    <2>2. Used' = Used
      BY <1>2, <2>1, UsedAt
    <2> QED BY <1>3, <2>1, <2>2 DEF mapVars
  <1>5. CASE StartsUpgrade(s)
    <2>1. PhaseAt(s, "prelaunch", plugins[req[s].name]) /\ plugins' = plugins
      BY <1>5 DEF StartsUpgrade
    <2>2. Used' = Used
      BY <1>2, <2>1, UsedAt
    <2> QED BY <1>3, <2>1, <2>2 DEF mapVars
  <1>6. CASE StartsRemove(s)
    <2>1. PhaseAt(s, "remove", plugins[req[s].name]) /\ plugins' = plugins
      BY <1>6 DEF StartsRemove
    <2>2. Used' = Used
      BY <1>2, <2>1, UsedAt
    <2> QED BY <1>3, <2>1, <2>2 DEF mapVars
  <1>7. CASE StartsInstall(s)
    <2>1. PhaseAt(s, "install", None) /\ MapAt(req[s].name, s) /\ plugins[req[s].name] = None
      BY <1>7 DEF StartsInstall
    <2>2. plugins' = plugins \/ plugins' = [plugins EXCEPT ![req[s].name] = s]
      BY DEF configurePlugin, installPlugin, removePlugin
    <2>3. plugins' = [plugins EXCEPT ![req[s].name] = s]
      BY <1>2, <2>1, <2>2 DEF MapAt
    <2> QED BY <1>1, <1>2, <1>3, <2>1, <2>3, AddsToMap
  <1> QED BY <1>1, <1>4, <1>5, <1>6, <1>7

\* Every goroutine of a request changes the map as PluginMap says.
LEMMA RequestMap ==
    ASSUME IInv, OneRequestPerPlugin, FlowInv, NEW s \in Slots, Request(s)
    PROVE  Map!Next \/ mapVars' = mapVars
  <1>0. ASSUME UNCHANGED <<plugins, inProgress, phase>> PROVE mapVars' = mapVars
    BY <1>0 DEF mapVars, Used
  <1>1. ASSUME installFailed(s) \/ replaced(s) \/ removed(s) PROVE Map!Next \/ mapVars' = mapVars
    <2>1. Active(s) /\ plugins' = [plugins EXCEPT ![req[s].name] = None] /\ UNCHANGED <<phase, inProgress>>
      BY <1>1 DEF installFailed, replaced, removed, StepsDone, StepsFailed, Active
    <2>2. req[s].name \in Names
      BY <2>1, ReqFacts
    <2> QED BY <2>1, <2>2, DropsFromMap
  <1>2. ASSUME launchUpgrade(s) PROVE Map!Next
    <2>1. /\ Active(s) /\ phase[s] = "replace" /\ plugins[req[s].name] = None /\ req[s].name \in Names
          /\ PhaseAt(s, "install", curr[s])
      BY <1>2, launchUpgradeEffect
    <2>2. plugins' = [plugins EXCEPT ![req[s].name] = s] /\ inProgress' = inProgress
      BY <1>2 DEF launchUpgrade
    <2> QED BY <2>1, <2>2, AddsToMap
  <1>3. ASSUME applyConfig(s) \/ preLaunched(s) PROVE mapVars' = mapVars
    <2>1. UNCHANGED <<plugins, inProgress>>
      BY <1>3 DEF applyConfig, preLaunched, memory
    <2>2. /\ phase[s] \notin {"install", "load"}
          /\ phase' = phase \/ \E p \in {"apply", "replace"} : phase' = [phase EXCEPT ![s] = p]
      BY <1>3, DispatchFacts DEF applyConfig, preLaunched, StepsDone
    <2>3. Used' = Used
      BY <2>2 DEF Used, IInv, TypeOK
    <2> QED BY <2>1, <2>3 DEF mapVars
  <1>4. ASSUME Finish(s) PROVE Map!Next
    <2>1. PICK n : n = req[s].name
      OBVIOUS
    <2>2. n \in inProgress /\ n \in Names
      BY <1>4, <2>1 DEF Finish, Active, OneRequestPerPlugin, IInv, TypeOK
    <2>3. inProgress' = inProgress \ {n} /\ UNCHANGED <<plugins, phase>>
      BY <1>4, <2>1 DEF Finish
    <2>4. Map!Finish(n)
      BY <2>2, <2>3 DEF Map!Finish, Used
    <2> QED BY <2>2, <2>4 DEF Map!Next
  <1>5. ASSUME Step(Req(s)) PROVE mapVars' = mapVars
    BY <1>0, <1>5, StepFrame DEF OnlySteps
  <1>6. ASSUME \/ Apply(s) \/ stopMonitoring(s) \/ installed(s) \/ upgradeFailed(s)
               \/ removeFailed(s) \/ applied(s) \/ loaded(s)
        PROVE  mapVars' = mapVars
    BY <1>0, <1>6 DEF Apply, stopMonitoring, installed, upgradeFailed, removeFailed, applied, loaded, memory
  <1> QED BY <1>1, <1>2, <1>3, <1>4, <1>5, <1>6, configurePluginMap DEF Request

\* A restart holds new objects, for the plugins of the state files.
LEMMA RestartMap ==
    ASSUME IInv, FlowInv, InitPluginManager \/ InitFails
    PROVE  Map!Next
  <1>1. CASE InitPluginManager
    <2>1. PICK ld \in [FileNames -> Slots] : Loads(ld)
      BY <1>1, InitPluginManagerFacts
    <2>2. PICK found \in SUBSET Names : found = FileNames
      BY DEF FileNames
    <2>3. inProgress' = found
      BY <1>1, <2>2 DEF InitPluginManager, FileNames
    <2>4. /\ \A m, n \in found : ld[m] = ld[n] => m = n
          /\ plugins' = [n \in Names |-> IF n \in found THEN ld[n] ELSE None]
          /\ \A n \in found : pc[Req(ld[n])] = "free" /\ phase'[ld[n]] = "load" /\ ld[n] \in Slots
          /\ \A s \in Slots \ {ld[n] : n \in found} : phase'[s] = phase[s]
      BY <2>1, <2>2 DEF Loads
    <2>5. \A n \in found : ld[n] \notin Used
      BY <2>4 DEF Used, FlowInv, RefOK
    <2>6. ld \in [found -> Slots \ Used]
      BY <2>1, <2>2, <2>5
    <2>7. Used' = Used \cup {ld[n] : n \in found}
      <3>1. \A x \in Slots : x \in Used' <=> x \in Used \cup {ld[n] : n \in found}
        BY <2>4, <2>5 DEF Used
      <3> QED BY <2>4, <3>1 DEF Used
    <2>8. Map!Restart
      BY <2>3, <2>4, <2>6, <2>7 DEF Map!Restart
    <2> QED BY <2>8 DEF Map!Next
  <1>2. CASE InitFails
    <2>1. plugins' = [n \in Names |-> None] /\ inProgress' = {} /\ UNCHANGED phase
      BY <1>2 DEF InitFails
    <2> DEFINE none == [n \in {} |-> n]
    <2>2. none \in [{} -> Slots \ Used]
      OBVIOUS
    <2>3. Used' = Used \cup {none[n] : n \in {}}
      BY <2>1 DEF Used
    <2>4. plugins' = [n \in Names |-> IF n \in {} THEN none[n] ELSE None]
      BY <2>1
    <2>5. {} \in SUBSET Names
      OBVIOUS
    <2> HIDE DEF none
    <2>6. Map!Restart
      BY <2>1, <2>2, <2>3, <2>4, <2>5 DEF Map!Restart
    <2> QED BY <2>6 DEF Map!Next
  <1> QED BY <1>1, <1>2

\* Every step of the plugin manager is a step of PluginMap, or leaves the map alone.
LEMMA NextMap ==
    ASSUME IInv, OneRequestPerPlugin, FlowInv, [Next]_vars
    PROVE  Map!Next \/ mapVars' = mapVars
  <1>0. ASSUME UNCHANGED <<plugins, inProgress, phase>> PROVE mapVars' = mapVars
    BY <1>0 DEF mapVars, Used
  <1>1. CASE UNCHANGED vars
    BY <1>0, <1>1 DEF vars, memory, control
  <1>2. ASSUME NEW s \in Slots, filterPendingPluginRevisions(s) PROVE Map!Next
    <2>1. PICK n \in Names : n \notin inProgress /\ inProgress' = inProgress \cup {n}
      BY <1>2 DEF filterPendingPluginRevisions
    <2>2. UNCHANGED <<plugins, phase>>
      BY <1>2 DEF filterPendingPluginRevisions
    <2>3. Map!Accept(n)
      BY <2>1, <2>2 DEF Map!Accept, Used
    <2> QED BY <2>3 DEF Map!Next
  <1>3. ASSUME NEW s \in Slots, UnscheduleJob(s) PROVE mapVars' = mapVars
    BY <1>0, <1>3 DEF UnscheduleJob
  <1>4. ASSUME NEW s \in Slots, MonitorRun(s) \/ runOnSchedule(s) PROVE mapVars' = mapVars
    <2>1. CASE Step(Mon(s))
      BY <1>0, <2>1, StepFrame DEF OnlySteps
    <2> QED BY <1>0, <1>4, <2>1, MonitorMoves DEF MonitorRun
  <1>5. CASE scanLeftovers \/ removeLeftover \/ ProcessExits \/ CancelContext
    BY <1>0, <1>5 DEF scanLeftovers, removeLeftover, ProcessExits, CancelContext, memory, control
  <1> QED BY <1>1, <1>2, <1>3, <1>4, <1>5, RequestMap, RestartMap DEF Next, Environment

\* PluginManager.plugins is guarded by inProgressPluginRequests, through requests, monitors,
\* cleanup and restarts, for every value of the constants: the manager implements PluginMap, so
\* no goroutine replaces an object that another one holds, changes the entry of a plugin it has
\* no mark of, or brings an object back that has left the map.
THEOREM ManagerGuardsMap == Spec => MapIsGuarded
  <1>1. Init => Map!Init
    <2> SUFFICES ASSUME Init PROVE Map!Init
      OBVIOUS
    <2>1. Used = {}
      BY DEF Init, Used
    <2> QED BY <2>1 DEF Init, Map!Init
  <1>2. IInv /\ OneRequestPerPlugin /\ FlowInv /\ [Next]_vars => [Map!Next]_mapVars
    BY NextMap
  <1> QED BY <1>1, <1>2, FlowHolds, PTL DEF Spec, MapIsGuarded, Map!Spec, mapVars

-----------------------------------------------------------------------------
(*****************************************************************************)
(* Monitors: every live monitor belongs to the object that the manager       *)
(* holds, and whoever takes that object down can reach and stop it.          *)
(*****************************************************************************)

\* The object s has no monitor.
Dead(s) == pc[Mon(s)] \in {"off", "gone"}

\* A live monitor belongs to the object that the manager holds, and it can be stopped: its job is
\* scheduled and its name registered, unless it is still starting or somebody has just
\* unregistered it to stop it.
LiveOK(s) == ~Dead(s) =>
    /\ plugins[req[s].name] = s
    /\ s \in booting \/ jobs[FullName(s)] = s
    /\ \/ s \in booting \/ FullName(s) \in monitors
       \/ \E x \in Slots : pc[Req(x)] = "unschedule" /\ curr[x] = s

\* A monitor is starting exactly while it has not registered, and no other request for its plugin
\* is in progress meanwhile.
BootOK(s) ==
    /\ s \in booting => ~Dead(s) /\ (req[s].name \in inProgress => pc[Req(s)] = "finish")
    /\ pc[Mon(s)] \in {"schedule", "add", "register"} => s \in booting
    /\ pc[Mon(s)] = "idle" => s \notin booting

\* A request that has stopped the monitor of the object it takes down finds it dead from then on.
StopOK(s) ==
    /\ Active(s) /\ phase[s] \in {"replace", "remove"}
    /\ pc[Req(s)] \notin {"unmonitor", "unschedule"}
    => Dead(curr[s])

\* A scheduled job is the one of a live monitor with that full name.
JobOK(f) == jobs[f] # None => FullName(jobs[f]) = f /\ ~Dead(jobs[f])

\* The inductive invariant for monitors.
MonInv ==
    /\ \A s \in Slots : LiveOK(s) /\ BootOK(s) /\ StopOK(s)
    /\ \A f \in FullNames : JobOK(f)

\* MonInv stays when a working request moves and at most its own entry in plugins changes, from
\* an object without a monitor.
LEMMA MonFrame ==
    ASSUME IInv, OneRequestPerPlugin, FlowInv, MonInv, NEW s \in Slots, Working(s),
           \A x \in Slots : pc'[Mon(x)] = pc[Mon(x)],
           \A x \in Slots \ {s} : /\ pc'[Req(x)] = pc[Req(x)] /\ phase'[x] = phase[x]
                                  /\ curr'[x] = curr[x] /\ req'[x] = req[x],
           UNCHANGED <<monitors, jobs, booting, inProgress>>,
           pc[Req(s)] # "unschedule",
           \A n \in Names : \/ plugins'[n] = plugins[n]
                            \/ n = req[s].name /\ (plugins[n] # None => Dead(plugins[n])),
           StopOK(s)'
    PROVE  MonInv'
  <1>1. Dead(s)
    BY DEF FlowInv, RefOK, Dead, Working, Active
  <1>2. ASSUME NEW x \in Slots, ~Dead(x)
        PROVE  x # s /\ req[x].name \in Names /\ FullName(x)' = FullName(x) /\ req'[x] = req[x]
               /\ plugins'[req[x].name] = x
    <2>1. req[x].name \in Names /\ plugins[req[x].name] = x
      BY <1>2 DEF IInv, WellFormed, MonOK, Object, Dead, MonInv, LiveOK
    <2>2. x # s /\ req'[x] = req[x]
      BY <1>1, <1>2
    <2> QED BY <1>2, <2>1, <2>2 DEF FullName
  <1>3. ASSUME NEW x \in Slots PROVE LiveOK(x)' /\ BootOK(x)'
    <2>1. LiveOK(x) /\ BootOK(x)
      BY DEF MonInv
    <2>2. LiveOK(x)'
      <3> SUFFICES ASSUME ~Dead(x)
                   PROVE  /\ plugins'[req'[x].name] = x
                          /\ x \in booting' \/ jobs'[FullName(x)'] = x
                          /\ \/ x \in booting' \/ FullName(x)' \in monitors'
                             \/ \E y \in Slots : pc'[Req(y)] = "unschedule" /\ curr'[y] = x
        BY DEF LiveOK, Dead
      <3>1. \A y \in Slots : pc[Req(y)] = "unschedule" => y # s
        OBVIOUS
      <3> QED BY <1>2, <2>1, <3>1 DEF LiveOK
    <2>3. BootOK(x)'
      <3>1. x \in booting => x # s
        BY <1>1, <2>1 DEF BootOK
      <3> QED BY <2>1, <3>1 DEF BootOK, Dead
    <2> QED BY <2>2, <2>3
  <1>4. ASSUME NEW x \in Slots PROVE StopOK(x)'
    <2>1. CASE x = s
      BY <2>1
    <2>2. CASE x # s
      <3>1. StopOK(x) /\ (phase[x] \in {"replace", "remove"} => curr[x] \in Slots)
        BY ReqFacts DEF MonInv, ReqOK
      <3> QED BY <2>2, <3>1 DEF StopOK, Dead, Active
    <2> QED BY <2>1, <2>2
  <1>5. ASSUME NEW f \in FullNames PROVE JobOK(f)'
    <2>1. JobOK(f) /\ jobs[f] \in Slots \cup {None}
      BY DEF MonInv, IInv, TypeOK
    <2> QED BY <1>2, <2>1 DEF JobOK, Dead, FullName
  <1> QED BY <1>3, <1>4, <1>5 DEF MonInv

\* The object that a request takes down has no monitor that is still starting.
LEMMA NotBooting ==
    ASSUME IInv, OneRequestPerPlugin, FlowInv, MonInv, NEW s \in Slots, Active(s),
           phase[s] \in {"replace", "remove"}
    PROVE  curr[s] \in Slots /\ curr[s] \notin booting
  <1>1. curr[s] \in Slots /\ req[curr[s]].name = req[s].name
        /\ phase[curr[s]] \in {"install", "load"}
    BY ReqFacts DEF FlowInv, RefOK, ReqOK
  <1>2. ASSUME curr[s] \in booting PROVE FALSE
    <2>1. pc[Req(curr[s])] = "finish"
      BY <1>1, <1>2 DEF MonInv, BootOK, OneRequestPerPlugin
    <2>2. curr[s] = s
      BY <1>1, <2>1 DEF Active, OneRequestPerPlugin
    <2> QED BY <1>1, <2>2
  <1> QED BY <1>1, <1>2

\* configurePlugin keeps MonInv.
LEMMA configurePluginMon ==
    ASSUME IInv, OneRequestPerPlugin, FlowInv, MonInv, NEW s \in Slots, configurePlugin(s)
    PROVE  MonInv'
  <1>1. /\ pc[Req(s)] = "dispatch" /\ Working(s)
        /\ UNCHANGED <<monitors, jobs, booting, inProgress>>
    BY DEF configurePlugin, Working, Active
  <1>2. PICK l, w, p, c : ReqAt(s, l, w) /\ PhaseAt(s, p, c) /\ Revised(s)
                          /\ (p \in {"replace", "remove"} => l = "unmonitor")
    BY configurePluginEffect DEF Refused, StartsUpgrade, StartsInstall, StartsRemove
  <1>3. \A n \in Names : plugins'[n] = plugins[n] \/ (n = req[s].name /\ plugins[n] = None)
    BY configurePluginEffect DEF Refused, StartsUpgrade, StartsInstall, StartsRemove, MapAt
  <1>4. StopOK(s)'
    BY <1>2 DEF StopOK, ReqAt, PhaseAt
  <1>5. /\ \A x \in Slots : pc'[Mon(x)] = pc[Mon(x)]
        /\ \A x \in Slots \ {s} : /\ pc'[Req(x)] = pc[Req(x)] /\ phase'[x] = phase[x]
                                  /\ curr'[x] = curr[x] /\ req'[x] = req[x]
    BY <1>2 DEF ReqAt, PhaseAt, Revised
  <1> QED BY <1>1, <1>3, <1>4, <1>5, MonFrame

\* An APPLY keeps MonInv.
LEMMA applyMon ==
    ASSUME IInv, OneRequestPerPlugin, FlowInv, MonInv, NEW s \in Slots,
           applyConfig(s) \/ Apply(s)
    PROVE  MonInv'
  <1>1. /\ pc[Req(s)] \in {"dispatch", "apply"} /\ Working(s)
        /\ UNCHANGED <<plugins, req, monitors, jobs, booting, inProgress>>
    BY DEF applyConfig, Apply, Working, Active, memory
  <1>2. /\ pc \in [Threads -> ReqPc \cup MonPc]
        /\ phase \in [Slots -> PhaseType] /\ curr \in [Slots -> Slots \cup {None}]
        /\ \A x \in Slots : Req(x) \in Threads /\ Mon(x) \in Threads
        /\ \A x, y \in Slots : Mon(x) # Req(y) /\ (Req(x) = Req(y) <=> x = y)
    BY ThreadFacts DEF IInv, TypeOK
  <1>3. phase[s] \in {None, "apply"}
    BY <1>1, DispatchFacts, ReqFacts DEF ReqOK
  <1>4. /\ \A x \in Slots : pc'[Mon(x)] = pc[Mon(x)]
        /\ \A x \in Slots \ {s} : pc'[Req(x)] = pc[Req(x)]
        /\ \A x \in Slots \ {s} : phase'[x] = phase[x] /\ curr'[x] = curr[x]
        /\ phase'[s] \in {None, "apply"}
    <2>1. CASE applyConfig(s)
      BY <1>2, <1>3, <2>1 DEF applyConfig, Conclude, Goto
    <2>2. CASE Apply(s)
      BY <1>2, <1>3, <2>2 DEF Apply, Conclude, RunSteps, Goto
    <2> QED BY <2>1, <2>2
  <1>5. StopOK(s)'
    BY <1>4 DEF StopOK
  <1> QED BY <1>1, <1>4, <1>5, MonFrame

\* Handing over to a monitor keeps MonInv: the object is the one the manager holds.
LEMMA HandOverMon ==
    ASSUME IInv, OneRequestPerPlugin, FlowInv, MonInv, NEW s \in Slots,
           StepsDone(s, "install") \/ StepsDone(s, "load"),
           Leaves(s, "finish"), pc'[Mon(s)] = "schedule", booting' = booting \cup {s},
           UNCHANGED <<plugins, monitors, jobs, phase>>
    PROVE  MonInv'
  <1>1. /\ pc[Req(s)] = "run" /\ Working(s) /\ Dead(s) /\ plugins[req[s].name] = s
        /\ phase[s] \in {"install", "load"}
    BY OverFacts DEF PlaceOK, Dead, StepsDone
  <1>2. \A x \in Slots : FullName(x)' = FullName(x) /\ req'[x] = req[x]
    BY DEF Leaves, FullName
  <1>3. ASSUME NEW x \in Slots PROVE LiveOK(x)' /\ BootOK(x)'
    <2>1. LiveOK(x) /\ BootOK(x)
      BY DEF MonInv
    <2>2. CASE x = s
      BY <1>1, <1>2, <2>2 DEF LiveOK, BootOK, Leaves, Dead
    <2>3. CASE x # s
      <3>1. pc'[Req(x)] = pc[Req(x)] /\ pc'[Mon(x)] = pc[Mon(x)]
        BY <2>3 DEF Leaves
      <3>2. BootOK(x)'
        BY <1>2, <2>1, <2>3, <3>1 DEF BootOK, Leaves, Dead
      <3>3. \A y \in Slots : pc[Req(y)] = "unschedule" /\ curr[y] = x =>
                               pc'[Req(y)] = "unschedule" /\ curr'[y] = x
        BY <1>1 DEF Leaves
      <3>4. LiveOK(x)'
        BY <1>2, <2>1, <3>1, <3>3 DEF LiveOK, Dead
      <3> QED BY <3>2, <3>4
    <2> QED BY <2>2, <2>3
  <1>4. ASSUME NEW x \in Slots PROVE StopOK(x)'
    <2>1. StopOK(x) /\ ReqOK(x)
      BY ReqFacts DEF MonInv
    <2>2. CASE x = s
      BY <1>1, <2>2 DEF StopOK
    <2>3. CASE x # s
      <3> SUFFICES ASSUME Active(x), phase[x] \in {"replace", "remove"},
                          pc[Req(x)] \notin {"unmonitor", "unschedule"}
                   PROVE  pc'[Mon(curr[x])] \in {"off", "gone"}
        BY <2>3 DEF StopOK, Leaves, Active, Dead
      <3>1. curr[x] \in Slots /\ Dead(curr[x]) /\ req[curr[x]].name = req[x].name
        BY <2>1, ReqFacts DEF StopOK, ReqOK, FlowInv, RefOK
      <3>2. curr[x] # s
        BY <1>1, <2>3, <3>1 DEF Working, OneRequestPerPlugin
      <3> QED BY <3>1, <3>2 DEF Leaves, Dead
    <2> QED BY <2>2, <2>3
  <1>5. ASSUME NEW f \in FullNames PROVE JobOK(f)'
    <2>1. JobOK(f) /\ jobs[f] \in Slots \cup {None}
      BY DEF MonInv, IInv, TypeOK
    <2>2. jobs[f] # None => pc'[Mon(jobs[f])] = pc[Mon(jobs[f])]
      BY <1>1, <2>1 DEF JobOK, Leaves
    <2> QED BY <1>2, <2>1, <2>2 DEF JobOK, Dead
  <1> QED BY <1>3, <1>4, <1>5 DEF MonInv

\* What a request does after a call of runSteps keeps MonInv.
LEMMA AfterStepsMon ==
    ASSUME IInv, OneRequestPerPlugin, FlowInv, MonInv, NEW s \in Slots,
           \/ installed(s) \/ installFailed(s) \/ preLaunched(s) \/ upgradeFailed(s)
           \/ replaced(s) \/ removed(s) \/ removeFailed(s) \/ applied(s) \/ loaded(s)
    PROVE  MonInv'
  <1> DEFINE n == req[s].name
  <1>0. plugins \in [Names -> Slots \cup {None}] /\ phase \in [Slots -> PhaseType]
    BY DEF IInv, TypeOK
  <1>1. ASSUME NEW p, StepsDone(s, p) \/ StepsFailed(s, p), NEW l, Leaves(s, l),
               pc'[Mon(s)] = pc[Mon(s)], UNCHANGED <<monitors, jobs, booting>>,
               \/ plugins' = plugins
               \/ /\ plugins' = [plugins EXCEPT ![n] = None]
                  /\ p \in {"replace", "remove"} \/ plugins[n] = s,
               \/ phase' = phase
               \/ p = "prelaunch" /\ l = "unmonitor" /\ phase' = [phase EXCEPT ![s] = "replace"]
        PROVE  MonInv'
    <2>1. /\ phase[s] = p /\ n \in Names /\ Working(s) /\ Active(s)
          /\ pc[Req(s)] \in {"run", "failed"} /\ pc[Mon(s)] = "off"
          /\ p \in {"replace", "remove"} => plugins[n] = curr[s] /\ curr[s] \in Slots
      BY <1>1, OverFacts DEF PlaceOK
    <2>2. p \in {"replace", "remove"} => Dead(curr[s])
      BY <2>1 DEF MonInv, StopOK
    <2>3. \A m \in Names : \/ plugins'[m] = plugins[m]
                           \/ m = n /\ (plugins[m] # None => Dead(plugins[m]))
      BY <1>0, <1>1, <2>1, <2>2 DEF Dead
    <2>4. /\ \A x \in Slots : pc'[Mon(x)] = pc[Mon(x)]
          /\ \A x \in Slots \ {s} : /\ pc'[Req(x)] = pc[Req(x)] /\ phase'[x] = phase[x]
                                    /\ curr'[x] = curr[x] /\ req'[x] = req[x]
          /\ UNCHANGED inProgress /\ curr'[s] = curr[s]
      BY <1>0, <1>1 DEF Leaves
    <2>5. StopOK(s)'
      <3>1. CASE phase' = phase
        BY <2>1, <2>2, <2>4, <3>1 DEF StopOK, Dead
      <3>2. CASE l = "unmonitor"
        BY <1>1, <3>2 DEF StopOK, Leaves
      <3> QED BY <1>1, <3>1, <3>2
    <2> QED BY <1>1, <2>1, <2>3, <2>4, <2>5, MonFrame
  <1>2. CASE installed(s)
    <2>1. /\ Leaves(s, "finish") /\ pc'[Mon(s)] = "schedule"
          /\ StepsDone(s, "install") /\ booting' = booting \cup {s}
          /\ UNCHANGED <<plugins, monitors, jobs, phase>>
      BY <1>2, LeavesEffect DEF installed
    <2> QED BY <2>1, HandOverMon
  <1>3. CASE loaded(s)
    <2>1. CASE StepsDone(s, "load") /\ booting' = booting \cup {s}
               /\ pc' = [pc EXCEPT ![Req(s)] = "finish", ![Mon(s)] = "schedule"]
      <3>1. Leaves(s, "finish") /\ pc'[Mon(s)] = "schedule"
            /\ UNCHANGED <<plugins, monitors, jobs, phase>>
        BY <1>3, <2>1, LeavesEffect DEF loaded
      <3> QED BY <2>1, <3>1, HandOverMon
    <2>2. CASE StepsFailed(s, "load") /\ Goto(Req(s), "finish") /\ UNCHANGED booting
      <3>1. Leaves(s, "finish") /\ pc'[Mon(s)] = pc[Mon(s)]
            /\ UNCHANGED <<plugins, monitors, jobs, phase>>
        BY <1>3, <2>2, LeavesEffect DEF loaded
      <3> QED BY <1>1, <2>2, <3>1
    <2> QED BY <1>3, <2>1, <2>2 DEF loaded
  <1>4. CASE installFailed(s)
    <2>1. /\ StepsFailed(s, "install") /\ Leaves(s, "finish") /\ pc'[Mon(s)] = pc[Mon(s)]
          /\ plugins' = [plugins EXCEPT ![n] = None]
          /\ UNCHANGED <<monitors, jobs, booting, phase>>
      BY <1>4, LeavesEffect DEF installFailed, Conclude
    <2>2. plugins[n] = s
      BY <2>1, OverFacts DEF PlaceOK
    <2> QED BY <1>1, <2>1, <2>2
  <1>5. CASE preLaunched(s)
    <2>1. /\ StepsDone(s, "prelaunch") /\ Leaves(s, "unmonitor") /\ pc'[Mon(s)] = pc[Mon(s)]
          /\ phase' = [phase EXCEPT ![s] = "replace"]
          /\ UNCHANGED <<plugins, monitors, jobs, booting>>
      BY <1>5, LeavesEffect DEF preLaunched, memory
    <2> QED BY <1>1, <2>1
  <1>6. CASE upgradeFailed(s)
    <2>1. /\ \E p : StepsFailed(s, p)
          /\ Leaves(s, "finish") /\ pc'[Mon(s)] = pc[Mon(s)]
          /\ UNCHANGED <<plugins, monitors, jobs, booting, phase>>
      BY <1>6, LeavesEffect DEF upgradeFailed, Conclude
    <2> QED BY <1>1, <2>1
  <1>7. CASE replaced(s)
    <2>1. /\ StepsDone(s, "replace") /\ Leaves(s, "launch") /\ pc'[Mon(s)] = pc[Mon(s)]
          /\ plugins' = [plugins EXCEPT ![n] = None]
          /\ UNCHANGED <<monitors, jobs, booting, phase>>
      BY <1>7, LeavesEffect DEF replaced
    <2> QED BY <1>1, <2>1
  <1>8. CASE removed(s)
    <2>1. /\ StepsDone(s, "remove") /\ Leaves(s, "finish") /\ pc'[Mon(s)] = pc[Mon(s)]
          /\ plugins' = [plugins EXCEPT ![n] = None]
          /\ UNCHANGED <<monitors, jobs, booting, phase>>
      BY <1>8, LeavesEffect DEF removed, Conclude
    <2> QED BY <1>1, <2>1
  <1>9. CASE removeFailed(s) \/ applied(s)
    <2>1. /\ \E p : StepsDone(s, p) \/ StepsFailed(s, p)
          /\ Leaves(s, "finish") /\ pc'[Mon(s)] = pc[Mon(s)]
          /\ UNCHANGED <<plugins, monitors, jobs, booting, phase>>
      BY <1>9, LeavesEffect DEF removeFailed, applied, Conclude, memory
    <2> QED BY <1>1, <2>1
  <1> QED BY <1>2, <1>3, <1>4, <1>5, <1>6, <1>7, <1>8, <1>9

\* launchUpgrade keeps MonInv.
LEMMA launchUpgradeMon ==
    ASSUME IInv, OneRequestPerPlugin, FlowInv, MonInv, NEW s \in Slots, launchUpgrade(s)
    PROVE  MonInv'
  <1>1. /\ pc[Req(s)] = "launch" /\ Working(s) /\ plugins[req[s].name] = None
        /\ req[s].name \in Names /\ req' = req
        /\ ReqAt(s, "run", <<"launch">>) /\ PhaseAt(s, "install", curr[s])
        /\ MapAt(req[s].name, s) /\ UNCHANGED <<monitors, jobs, booting, inProgress>>
    BY launchUpgradeEffect DEF launchUpgrade
  <1>2. StopOK(s)'
    BY <1>1 DEF StopOK, PhaseAt
  <1> QED BY <1>1, <1>2, MonFrame DEF ReqAt, PhaseAt, MapAt

\* A step of a request keeps MonInv.
LEMMA StepReqMon ==
    ASSUME IInv, OneRequestPerPlugin, FlowInv, MonInv, NEW s \in Slots, Step(Req(s))
    PROVE  MonInv'
  <1>1. PICK l, w : Transition(Req(s), l, w)
    BY StepTransition, ThreadFacts
  <1>2. /\ ReqAt(s, l, w) /\ pc[Req(s)] \in StepPc \cup {"run", "check"}
        /\ l \in StepPc \cup {"run", "failed"}
    BY <1>1, TransitionEffect, TransitionPoint, ThreadFacts
  <1>3. UNCHANGED <<plugins, monitors, jobs, inProgress, phase, curr, req, booting>>
    BY StepFrame DEF OnlySteps
  <1>4. Working(s) /\ StopOK(s)
    BY <1>2 DEF Working, Active, StepPc, MonInv
  <1>5. StopOK(s)'
    <2>1. phase[s] \in {"replace", "remove"} => curr[s] \in Slots
      BY ReqFacts DEF ReqOK
    <2> QED BY <1>2, <1>3, <1>4, <2>1 DEF StopOK, ReqAt, Dead, Working, Active, StepPc
  <1> QED BY <1>2, <1>3, <1>4, <1>5, MonFrame DEF ReqAt, StepPc

\* A live monitor is the one of the object that the manager holds.
LEMMA LiveFacts ==
    ASSUME IInv, MonInv, NEW x \in Slots, ~Dead(x)
    PROVE  /\ Object(x) /\ FullName(x) \in FullNames /\ plugins[req[x].name] = x
           /\ x \in booting \/ jobs[FullName(x)] = x
           /\ \A y \in Slots : ~Dead(y) /\ req[y].name = req[x].name => y = x
  <1>1. Object(x) /\ plugins[req[x].name] = x /\ (x \in booting \/ jobs[FullName(x)] = x)
    BY DEF IInv, WellFormed, MonOK, Dead, MonInv, LiveOK
  <1>2. FullName(x) \in FullNames
    BY <1>1 DEF Object, FullName, FullNames
  <1>3. ASSUME NEW y \in Slots, ~Dead(y), req[y].name = req[x].name PROVE y = x
    BY <1>1, <1>3 DEF MonInv, LiveOK
  <1> QED BY <1>1, <1>2, <1>3

\* An object and its full name.
LEMMA SameName ==
    ASSUME NEW x, NEW y, FullName(x) = FullName(y)
    PROVE  req[x].name = req[y].name /\ req[x].rev = req[y].rev
  BY DEF FullName

\* stopMonitoring keeps MonInv: the job of the monitor is still there to be unscheduled.
LEMMA stopMonitoringMon ==
    ASSUME IInv, OneRequestPerPlugin, FlowInv, MonInv, NEW s \in Slots, stopMonitoring(s)
    PROVE  MonInv'
  <1> DEFINE o == curr[s]
             f == FullName(o)
  <1>1. /\ pc[Req(s)] = "unmonitor" /\ Active(s) /\ Working(s)
        /\ UNCHANGED <<plugins, jobs, booting, inProgress, phase, curr, req>>
        /\ monitors' = monitors \ {f}
    BY DEF stopMonitoring, Active, Working
  <1>2. /\ phase[s] \in {"replace", "remove"} /\ o \in Slots /\ plugins[req[s].name] = o
        /\ req[o].name = req[s].name
    BY <1>1, ReqFacts DEF ReqOK, FlowInv, PlaceOK, RefOK
  <1>3. o \notin booting
    BY <1>1, <1>2, NotBooting
  <1>4. \/ f \in monitors /\ pc'[Req(s)] = "unschedule"
        \/ f \notin monitors /\ pc'[Req(s)] = "run"
    <2>1. pc \in [Threads -> ReqPc \cup MonPc] /\ Req(s) \in Threads
      BY ThreadFacts DEF IInv, TypeOK
    <2> QED BY <2>1 DEF stopMonitoring, Goto, RunSteps
  <1>5. /\ \A x \in Slots : pc'[Mon(x)] = pc[Mon(x)]
        /\ \A x \in Slots \ {s} : pc'[Req(x)] = pc[Req(x)]
    <2>1. PICK l, w : ReqAt(s, l, w)
      BY GotoEffect DEF stopMonitoring, RunSteps
    <2> QED BY <2>1 DEF ReqAt
  <1>6. f \notin monitors => Dead(o)
    <2> SUFFICES ASSUME f \notin monitors, ~Dead(o) PROVE FALSE
      OBVIOUS
    <2>1. PICK x \in Slots : pc[Req(x)] = "unschedule" /\ curr[x] = o
      BY <1>2, <1>3 DEF MonInv, LiveOK
    <2>2. req[x].name = req[s].name /\ Active(x)
      BY <1>2, <2>1 DEF FlowInv, RefOK, Active
    <2>3. x = s
      BY <1>1, <2>2 DEF OneRequestPerPlugin
    <2> QED BY <1>1, <2>1, <2>3
  <1> HIDE DEF f
  <1>7. ASSUME NEW x \in Slots PROVE LiveOK(x)'
    <2> SUFFICES ASSUME ~Dead(x)
                 PROVE  /\ plugins[req[x].name] = x
                        /\ x \in booting \/ jobs[FullName(x)] = x
                        /\ \/ x \in booting \/ FullName(x) \in monitors \ {f}
                           \/ \E y \in Slots : pc'[Req(y)] = "unschedule" /\ curr[y] = x
      BY <1>1, <1>5 DEF LiveOK, Dead, FullName
    <2>1. LiveOK(x)
      BY DEF MonInv
    <2>2. CASE x = o
      BY <1>2, <1>4, <1>6, <2>1, <2>2 DEF LiveOK
    <2>3. CASE x # o
      <3>1. FullName(x) # f
        <4> SUFFICES ASSUME FullName(x) = FullName(o) PROVE FALSE
          BY DEF f
        <4>1. req[x].name = req[s].name
          BY <1>2, SameName
        <4> QED BY <1>2, <2>1, <2>3, <4>1 DEF LiveOK
      <3>2. \A y \in Slots : pc[Req(y)] = "unschedule" => pc'[Req(y)] = "unschedule"
        BY <1>1, <1>5
      <3> QED BY <2>1, <3>1, <3>2 DEF LiveOK
    <2> QED BY <2>2, <2>3
  <1>8. ASSUME NEW x \in Slots PROVE BootOK(x)'
    <2>1. BootOK(x)
      BY DEF MonInv
    <2> QED BY <1>1, <1>5, <2>1 DEF BootOK, Dead
  <1>9. ASSUME NEW x \in Slots PROVE StopOK(x)'
    <2>1. StopOK(x) /\ (phase[x] \in {"replace", "remove"} => curr[x] \in Slots)
      BY ReqFacts DEF MonInv, ReqOK
    <2>2. CASE x = s
      BY <1>1, <1>2, <1>4, <1>5, <1>6, <2>2 DEF StopOK, Dead
    <2>3. CASE x # s
      BY <1>1, <1>5, <2>1, <2>3 DEF StopOK, Dead, Active
    <2> QED BY <2>2, <2>3
  <1>10. ASSUME NEW g \in FullNames PROVE JobOK(g)'
    <2>1. JobOK(g) /\ jobs[g] \in Slots \cup {None}
      BY DEF MonInv, IInv, TypeOK
    <2> QED BY <1>1, <1>5, <2>1 DEF JobOK, Dead, FullName
  <1> QED BY <1>7, <1>8, <1>9, <1>10 DEF MonInv

\* UnscheduleJob keeps MonInv: the monitor it stops is the one of the object the request takes
\* down, and it is dead afterwards.
LEMMA UnscheduleJobMon ==
    ASSUME IInv, OneRequestPerPlugin, FlowInv, MonInv, NEW s \in Slots, UnscheduleJob(s)
    PROVE  MonInv'
  <1> DEFINE o == curr[s]
             f == FullName(o)
             j == jobs[f]
  <1>1. /\ pc[Req(s)] = "unschedule" /\ Active(s) /\ o \in Slots
        /\ f \in FullNames /\ j \in Slots \cup {None}
        /\ j # None => pc[Mon(j)] \in {"idle", "register"}
    BY UnscheduleEffect
  <1>2. /\ \A x \in Slots : pc'[Req(x)] = IF x = s THEN "run" ELSE pc[Req(x)]
        /\ \A x \in Slots : pc'[Mon(x)] = IF x = j /\ pc[Mon(x)] = "idle" THEN "gone"
                                          ELSE pc[Mon(x)]
        /\ \A g \in FullNames : jobs'[g] = IF g = f THEN None ELSE jobs[g]
        /\ UNCHANGED <<plugins, inProgress, monitors, phase, curr, req, booting>>
    <2>1. UNCHANGED <<plugins, inProgress, monitors, phase, curr, req, booting>>
      BY DEF UnscheduleJob
    <2>2. \A x \in Slots : pc'[Req(x)] = IF x = s THEN "run" ELSE pc[Req(x)]
      BY UnscheduleEffect
    <2>3. \A x \in Slots : pc'[Mon(x)] = IF x = j /\ pc[Mon(x)] = "idle" THEN "gone"
                                         ELSE pc[Mon(x)]
      BY UnscheduleEffect
    <2>4. \A g \in FullNames : jobs'[g] = IF g = f THEN None ELSE jobs[g]
      BY UnscheduleEffect
    <2> HIDE DEF j, f
    <2> QED BY <2>1, <2>2, <2>3, <2>4
  <1>3. /\ phase[s] \in {"replace", "remove"} /\ plugins[req[s].name] = o
        /\ req[o].name = req[s].name
    BY <1>1, ReqFacts DEF ReqOK, FlowInv, PlaceOK, RefOK, Working
  <1>4. o \notin booting
    BY <1>1, <1>3, NotBooting
  <1>5. ~Dead(o) => j = o /\ pc[Mon(o)] = "idle"
    <2>1. ~Dead(o) => j = o
      BY <1>1, <1>4, LiveFacts
    <2> HIDE DEF j
    <2> QED BY <1>1, <1>4, <2>1 DEF MonInv, BootOK
  <1>6. j # None => j = o
    <2> SUFFICES ASSUME j # None PROVE j = o
      OBVIOUS
    <2>1. j \in Slots /\ ~Dead(j) /\ FullName(j) = FullName(o)
      BY <1>1 DEF MonInv, JobOK
    <2> HIDE DEF j
    <2>2. req[j].name = req[s].name /\ plugins[req[j].name] = j
      BY <1>3, <2>1, LiveFacts, SameName
    <2> QED BY <1>3, <2>2
  <1>7. o # None
    BY <1>1
  <1> HIDE DEF j, f
  <1>8. pc'[Mon(o)] \in {"off", "gone"}
    BY <1>1, <1>2, <1>5 DEF Dead
  <1>9. \A x \in Slots \ {o} : pc'[Mon(x)] = pc[Mon(x)]
    BY <1>1, <1>2, <1>6
  <1>10. ASSUME NEW x \in Slots PROVE LiveOK(x)' /\ BootOK(x)'
    <2>1. LiveOK(x) /\ BootOK(x)
      BY DEF MonInv
    <2>2. CASE x = o
      BY <1>2, <1>4, <1>8, <2>2 DEF LiveOK, BootOK, Dead
    <2>3. CASE x # o
      <3>1. BootOK(x)'
        BY <1>1, <1>2, <1>9, <2>1, <2>3 DEF BootOK, Dead
      <3>2. LiveOK(x)'
        <4> SUFFICES ASSUME ~Dead(x)
                     PROVE  /\ plugins[req[x].name] = x
                            /\ x \in booting \/ jobs'[FullName(x)] = x
                            /\ \/ x \in booting \/ FullName(x) \in monitors
                               \/ \E y \in Slots : pc'[Req(y)] = "unschedule" /\ curr[y] = x
          BY <1>2, <1>9, <2>3 DEF LiveOK, Dead, FullName
        <4>1. FullName(x) \in FullNames /\ plugins[req[x].name] = x
          BY LiveFacts
        <4>2. FullName(x) # f
          <5> SUFFICES ASSUME FullName(x) = FullName(o) PROVE FALSE
            BY DEF f
          <5>1. req[x].name = req[s].name
            BY <1>3, SameName
          <5> QED BY <1>3, <2>3, <4>1, <5>1
        <4>3. \A y \in Slots : pc[Req(y)] = "unschedule" /\ curr[y] = x =>
                                 pc'[Req(y)] = "unschedule" /\ curr[y] = x
          BY <1>2, <2>3
        <4> QED BY <1>2, <2>1, <4>1, <4>2, <4>3 DEF LiveOK
      <3> QED BY <3>1, <3>2
    <2> QED BY <2>2, <2>3
  <1>11. ASSUME NEW x \in Slots PROVE StopOK(x)'
    <2>1. StopOK(x) /\ (phase[x] \in {"replace", "remove"} => curr[x] \in Slots)
      BY ReqFacts DEF MonInv, ReqOK
    <2>2. CASE x = s
      BY <1>1, <1>2, <1>8, <2>2 DEF StopOK, Dead
    <2>3. CASE x # s
      <3>1. phase[x] \in {"replace", "remove"} /\ Dead(curr[x]) =>
              pc'[Mon(curr[x])] \in {"off", "gone"}
        BY <1>8, <1>9, <2>1 DEF Dead
      <3> QED BY <1>2, <2>1, <2>3, <3>1 DEF StopOK, Dead, Active
    <2> QED BY <2>2, <2>3
  <1>12. ASSUME NEW g \in FullNames PROVE JobOK(g)'
    <2>1. JobOK(g) /\ jobs[g] \in Slots \cup {None}
      BY DEF MonInv, IInv, TypeOK
    <2>2. CASE g = f
      BY <1>2, <2>2 DEF JobOK
    <2>3. CASE g # f
      <3>1. jobs[g] # o
        <4> SUFFICES ASSUME jobs[g] = o PROVE FALSE
          OBVIOUS
        <4>1. FullName(o) = g
          BY <1>7, <2>1 DEF JobOK
        <4> QED BY <2>3, <4>1 DEF f
      <3> QED BY <1>2, <1>9, <2>1, <2>3, <3>1 DEF JobOK, Dead, FullName
    <2> QED BY <2>2, <2>3
  <1> QED BY <1>10, <1>11, <1>12 DEF MonInv

\* The last call of a request leaves the monitors alone.
LEMMA FinishMon ==
    ASSUME IInv, MonInv, NEW s \in Slots, Finish(s)
    PROVE  MonInv'
  <1>1. /\ pc[Req(s)] = "finish" /\ inProgress' = inProgress \ {req[s].name}
        /\ UNCHANGED <<plugins, monitors, jobs, booting, phase, curr, req, steps>>
    BY DEF Finish
  <1>2. ReqAt(s, "done", steps[Req(s)])
    BY GotoEffect DEF Finish
  <1>3. /\ \A x \in Slots : pc'[Mon(x)] = pc[Mon(x)]
        /\ \A x \in Slots : pc'[Req(x)] = IF x = s THEN "done" ELSE pc[Req(x)]
    BY <1>2 DEF ReqAt
  <1>4. ASSUME NEW x \in Slots PROVE LiveOK(x)' /\ BootOK(x)'
    <2>1. LiveOK(x) /\ BootOK(x)
      BY DEF MonInv
    <2>2. BootOK(x)'
      BY <1>1, <1>3, <2>1 DEF BootOK, Dead
    <2>3. \A y \in Slots : pc[Req(y)] = "unschedule" => pc'[Req(y)] = "unschedule"
      BY <1>1, <1>3
    <2>4. LiveOK(x)'
      BY <1>1, <1>3, <2>1, <2>3 DEF LiveOK, Dead, FullName
    <2> QED BY <2>2, <2>4
  <1>5. ASSUME NEW x \in Slots PROVE StopOK(x)'
    <2>1. StopOK(x) /\ (phase[x] \in {"replace", "remove"} => curr[x] \in Slots)
      BY ReqFacts DEF MonInv, ReqOK
    <2> QED BY <1>1, <1>3, <2>1 DEF StopOK, Dead, Active
  <1>6. ASSUME NEW f \in FullNames PROVE JobOK(f)'
    <2>1. JobOK(f) /\ jobs[f] \in Slots \cup {None}
      BY DEF MonInv, IInv, TypeOK
    <2> QED BY <1>1, <1>3, <2>1 DEF JobOK, Dead, FullName
  <1> QED BY <1>4, <1>5, <1>6 DEF MonInv

\* Accepting a request keeps MonInv when ACS spaces its requests: no monitor of that plugin is
\* starting.
LEMMA filterMon ==
    ASSUME IInv, FlowInv, MonInv, SpacedRequests, NEW s \in Slots, Accepted(s)
    PROVE  MonInv'
  <1>1. /\ pc[Req(s)] = "free" /\ phase[s] = None
        /\ \A x \in Slots \ {s} : req'[x] = req[x]
        /\ Settled(req'[s].name) /\ inProgress' = inProgress \cup {req'[s].name}
        /\ UNCHANGED <<plugins, monitors, jobs, booting, phase, curr>>
        /\ pc[Mon(s)] = "off"
    BY DEF Accepted, FlowInv, RefOK
  <1>2. /\ \A x \in Slots : pc'[Mon(x)] = pc[Mon(x)]
        /\ \A x \in Slots : pc'[Req(x)] = IF x = s THEN "dispatch" ELSE pc[Req(x)]
    BY DEF Accepted, ReqAt
  <1>3. ASSUME NEW x \in Slots PROVE LiveOK(x)' /\ BootOK(x)'
    <2>1. LiveOK(x) /\ BootOK(x)
      BY DEF MonInv
    <2>2. CASE x = s
      BY <1>1, <1>2, <2>1, <2>2 DEF LiveOK, BootOK, Dead
    <2>3. CASE x # s
      <3>1. req'[x] = req[x] /\ FullName(x)' = FullName(x)
        BY <1>1, <2>3 DEF FullName
      <3>2. x \in booting => req[x].name # req'[s].name
        BY <1>1 DEF Settled
      <3>3. BootOK(x)'
        BY <1>1, <1>2, <2>1, <2>3, <3>1, <3>2 DEF BootOK, Dead
      <3>4. \A y \in Slots : pc[Req(y)] = "unschedule" => pc'[Req(y)] = "unschedule"
        BY <1>1, <1>2
      <3>5. LiveOK(x)'
        BY <1>1, <1>2, <2>1, <3>1, <3>4 DEF LiveOK, Dead
      <3> QED BY <3>3, <3>5
    <2> QED BY <2>2, <2>3
  <1>5. ASSUME NEW x \in Slots PROVE StopOK(x)'
    <2>1. StopOK(x) /\ (phase[x] \in {"replace", "remove"} => curr[x] \in Slots)
      BY ReqFacts DEF MonInv, ReqOK
    <2> QED BY <1>1, <1>2, <2>1 DEF StopOK, Dead, Active
  <1>6. ASSUME NEW f \in FullNames PROVE JobOK(f)'
    <2>1. JobOK(f) /\ jobs[f] \in Slots \cup {None}
      BY DEF MonInv, IInv, TypeOK
    <2>2. jobs[f] # None => jobs[f] # s
      BY <1>1, <2>1 DEF JobOK, Dead
    <2> QED BY <1>1, <1>2, <2>1, <2>2 DEF JobOK, Dead, FullName
  <1> QED BY <1>3, <1>5, <1>6 DEF MonInv

\* A monitor keeps MonInv: it registers itself, runs, or ends because its plugin has none of its
\* own any more.
LEMMA MonitorMon ==
    ASSUME IInv, FlowInv, MonInv, NEW s \in Slots, MonitorRun(s) \/ runOnSchedule(s)
    PROVE  MonInv'
  <1> DEFINE f == FullName(s)
  <1>1. PICK l : /\ \A x \in Slots : pc'[Mon(x)] = IF x = s THEN l ELSE pc[Mon(x)]
                 /\ \A x \in Slots : pc'[Req(x)] = pc[Req(x)]
                 /\ UNCHANGED <<plugins, inProgress, phase, curr, req>>
                 /\ ~Dead(s)
                 /\ \/ /\ l \notin {"off", "gone", "schedule", "add", "register", "idle"}
                       /\ UNCHANGED <<monitors, jobs, booting>>
                    \/ /\ pc[Mon(s)] = "schedule" /\ l = "register"
                       /\ UNCHANGED <<monitors, jobs, booting>>
                    \/ l = AfterRun(s) /\ UNCHANGED <<monitors, jobs, booting>>
                    \/ /\ pc[Mon(s)] = "add" /\ l = "register"
                       /\ jobs' = [jobs EXCEPT ![f] = s] /\ UNCHANGED <<monitors, booting>>
                    \/ /\ pc[Mon(s)] = "register"
                       /\ l = IF jobs[f] = s THEN "idle" ELSE "gone"
                       /\ monitors' = monitors \cup {f} /\ booting' = booting \ {s}
                       /\ UNCHANGED jobs
                    \/ /\ pc[Mon(s)] = "idle" /\ l = "gone"
                       /\ jobs' = [jobs EXCEPT ![f] = None] /\ UNCHANGED <<monitors, booting>>
    <2>1. CASE Step(Mon(s))
      <3>1. UNCHANGED <<plugins, inProgress, phase, curr, req, monitors, jobs, booting>>
        BY <2>1, StepFrame DEF OnlySteps
      <3>2. PICK l, w : MonAt(s, l, w) /\ pc[Mon(s)] \in StepPc \cup {"run", "check"}
                        /\ l \in StepPc \cup {"run", "failed"}
        BY <2>1, StepMonEffect
      <3> QED BY <3>1, <3>2 DEF MonAt, StepPc, Dead
    <2>2. CASE ~Step(Mon(s))
      <3>1. UNCHANGED <<plugins, inProgress, phase, curr, req>>
        BY <2>2 DEF MonitorRun, ScheduleJob, addJob, startMonitoring, healthCheck, GetStatus,
           relaunched, runOnSchedule, OnlyMonitor
      <3>2. ~Dead(s)
        BY <2>2 DEF MonitorRun, ScheduleJob, addJob, startMonitoring, healthCheck, GetStatus,
           relaunched, runOnSchedule, Dead
      <3>3. PICK l : /\ Goto(Mon(s), l) /\ UNCHANGED steps
                     /\ \/ /\ l \notin {"off", "gone", "schedule", "add", "register", "idle"}
                           /\ UNCHANGED <<monitors, jobs, booting>>
                        \/ /\ pc[Mon(s)] = "schedule" /\ l = "register"
                           /\ UNCHANGED <<monitors, jobs, booting>>
                        \/ l = AfterRun(s) /\ UNCHANGED <<monitors, jobs, booting>>
                        \/ /\ pc[Mon(s)] = "add" /\ l = "register"
                           /\ jobs' = [jobs EXCEPT ![f] = s] /\ UNCHANGED <<monitors, booting>>
                        \/ /\ pc[Mon(s)] = "register"
                           /\ l = IF jobs[f] = s THEN "idle" ELSE "gone"
                           /\ monitors' = monitors \cup {f} /\ booting' = booting \ {s}
                           /\ UNCHANGED jobs
                        \/ /\ pc[Mon(s)] = "idle" /\ l = "gone"
                           /\ jobs' = [jobs EXCEPT ![f] = None] /\ UNCHANGED <<monitors, booting>>
        <4> HIDE DEF f
        <4>1. CASE ScheduleJob(s)
          BY <4>1 DEF ScheduleJob
        <4>2. CASE addJob(s)
          BY <4>2 DEF addJob, f
        <4>3. CASE startMonitoring(s)
          BY <4>3 DEF startMonitoring, f
        <4>4. CASE healthCheck(s)
          BY <4>4 DEF healthCheck
        <4>5. CASE GetStatus(s)
          BY <4>5 DEF GetStatus
        <4>6. CASE relaunched(s)
          BY <4>6 DEF relaunched
        <4>7. CASE runOnSchedule(s)
          BY <4>7 DEF runOnSchedule, f
        <4> QED BY <2>2, <4>1, <4>2, <4>3, <4>4, <4>5, <4>6, <4>7 DEF MonitorRun
      <3>4. MonAt(s, l, steps[Mon(s)])
        BY <3>3, GotoMonEffect
      <3> QED BY <3>1, <3>2, <3>3, <3>4 DEF MonAt
    <2> QED BY <2>1, <2>2
  <1>2. /\ Object(s) /\ f \in FullNames /\ plugins[req[s].name] = s
        /\ s \in booting \/ jobs[f] = s
        /\ \A y \in Slots : ~Dead(y) /\ req[y].name = req[s].name => y = s
    BY <1>1, LiveFacts
  <1>3. jobs \in [FullNames -> Slots \cup {None}] /\ BootOK(s) /\ LiveOK(s)
    BY DEF IInv, TypeOK, MonInv
  <1>4. \A g \in FullNames : jobs'[g] = jobs[g] \/ g = f
    BY <1>1, <1>3
  <1>5. ASSUME NEW x \in Slots \ {s}, ~Dead(x)
        PROVE  FullName(x) # f /\ FullName(x) \in FullNames
    <2>1. ASSUME FullName(x) = FullName(s) PROVE FALSE
      BY <1>2, <1>5, <2>1, SameName
    <2> QED BY <1>5, <2>1, LiveFacts
  <1>6. \A x \in Slots \ {s} : (x \in booting' <=> x \in booting)
    BY <1>1
  <1>7. monitors \subseteq monitors'
    BY <1>1
  <1>8. ASSUME NEW x \in Slots \ {s} PROVE LiveOK(x)' /\ BootOK(x)'
    <2>1. LiveOK(x) /\ BootOK(x) /\ pc'[Mon(x)] = pc[Mon(x)] /\ pc'[Req(x)] = pc[Req(x)]
      BY <1>1 DEF MonInv
    <2>2. BootOK(x)'
      BY <1>1, <1>6, <2>1 DEF BootOK, Dead
    <2>3. LiveOK(x)'
      BY <1>1, <1>4, <1>5, <1>6, <1>7, <2>1 DEF LiveOK, Dead, FullName
    <2> QED BY <2>2, <2>3
  <1>9. BootOK(s)'
    BY <1>1, <1>3 DEF BootOK, Dead, AfterRun
  <1> HIDE DEF f
  <1>10. LiveOK(s)'
    <2>1. FullName(s)' = f
      BY <1>1 DEF f, FullName
    <2>2. LiveOK(s) /\ ~Dead(s)
      BY <1>1, <1>3
    <2>3. \A y \in Slots : pc'[Req(y)] = pc[Req(y)] /\ curr'[y] = curr[y]
      BY <1>1
    <2>4. pc'[Mon(s)] = l /\ plugins'[req'[s].name] = s
      BY <1>1, <1>2
    <2>5. (s \in booting \/ f \in monitors
           \/ \E x \in Slots : pc[Req(x)] = "unschedule" /\ curr[x] = s)
      BY <2>2 DEF LiveOK, f
    <2>6. CASE UNCHANGED <<monitors, jobs, booting>>
      BY <1>2, <2>1, <2>3, <2>4, <2>5, <2>6 DEF LiveOK
    <2>7. CASE pc[Mon(s)] = "add" /\ jobs' = [jobs EXCEPT ![f] = s]
      BY <1>1, <1>2, <1>3, <2>1, <2>4, <2>7 DEF LiveOK, BootOK
    <2>8. CASE l \in {"gone"}
      BY <2>4, <2>8 DEF LiveOK, Dead
    <2>9. CASE jobs[f] = s /\ monitors' = monitors \cup {f} /\ UNCHANGED jobs
      BY <2>1, <2>4, <2>9 DEF LiveOK
    <2> QED BY <1>1, <2>6, <2>7, <2>8, <2>9
  <1>11. ASSUME NEW x \in Slots PROVE StopOK(x)'
    <2>1. StopOK(x) /\ (phase[x] \in {"replace", "remove"} => curr[x] \in Slots)
      BY ReqFacts DEF MonInv, ReqOK
    <2>2. \A y \in Slots : Dead(y) => y # s /\ pc'[Mon(y)] = pc[Mon(y)]
      BY <1>1
    <2> QED BY <1>1, <2>1, <2>2 DEF StopOK, Dead, Active
  <1>12. ASSUME NEW g \in FullNames PROVE JobOK(g)'
    <2>1. JobOK(g) /\ jobs[g] \in Slots \cup {None}
      BY DEF MonInv, IInv, TypeOK
    <2>2. \A x \in Slots : FullName(x)' = FullName(x)
      BY <1>1 DEF FullName
    <2>3. CASE g # f
      <3>1. jobs'[g] = jobs[g]
        BY <1>4, <2>3
      <3>2. jobs[g] # None => jobs[g] # s
        BY <2>1, <2>3 DEF JobOK, f
      <3> QED BY <1>1, <2>1, <2>2, <3>1, <3>2 DEF JobOK, Dead
    <2>4. CASE g = f
      <3>1. jobs[f] # None => jobs[f] = s
        <4> SUFFICES ASSUME jobs[f] # None PROVE jobs[f] = s
          OBVIOUS
        <4>1. jobs[f] \in Slots /\ ~Dead(jobs[f]) /\ FullName(jobs[f]) = FullName(s)
          BY <2>1, <2>4 DEF JobOK, f
        <4> QED BY <1>2, <4>1, SameName
      <3>2. jobs'[f] # None => jobs'[f] = s /\ l \notin {"off", "gone"}
        BY <1>1, <1>2, <1>3, <3>1 DEF AfterRun
      <3>3. FullName(s)' = f
        BY <1>1 DEF f, FullName
      <3> QED BY <1>1, <2>4, <3>2, <3>3 DEF JobOK, Dead
    <2> QED BY <2>3, <2>4
  <1> QED BY <1>8, <1>9, <1>10, <1>11, <1>12 DEF MonInv

\* Every step of the specification keeps MonInv when ACS spaces its requests.
LEMMA NextMon ==
    ASSUME IInv, OneRequestPerPlugin, FlowInv, MonInv, SpacedRequests, [Next]_vars
    PROVE  MonInv'
  <1>0. ASSUME UNCHANGED <<plugins, inProgress, monitors, jobs, pc, phase, curr, req, booting>>
        PROVE  MonInv'
    BY <1>0 DEF MonInv, LiveOK, BootOK, StopOK, JobOK, Dead, FullName, Active
  <1>1. CASE UNCHANGED vars
    BY <1>0, <1>1 DEF vars, memory, control
  <1>2. ASSUME NEW s \in Slots, filterPendingPluginRevisions(s) PROVE MonInv'
    BY <1>2, filterEffect, filterMon
  <1>3. ASSUME NEW s \in Slots, Request(s) PROVE MonInv'
    BY <1>3, configurePluginMon, applyMon, stopMonitoringMon, AfterStepsMon, launchUpgradeMon,
       FinishMon, StepReqMon DEF Request
  <1>4. ASSUME NEW s \in Slots, UnscheduleJob(s) PROVE MonInv'
    BY <1>4, UnscheduleJobMon
  <1>5. ASSUME NEW s \in Slots, MonitorRun(s) \/ runOnSchedule(s) PROVE MonInv'
    BY <1>5, MonitorMon
  <1>6. CASE scanLeftovers \/ removeLeftover \/ ProcessExits \/ CancelContext
    BY <1>0, <1>6 DEF scanLeftovers, removeLeftover, ProcessExits, CancelContext,
       memory, control
  <1>7. ASSUME \A s \in Slots : pc'[Mon(s)] \in {"off", "gone"}, booting' = {},
               jobs' = [f \in FullNames |-> None],
               \A s \in Slots : pc'[Req(s)] \notin {"free", "done"} => phase'[s] = "load"
        PROVE  MonInv'
    BY <1>7 DEF MonInv, LiveOK, BootOK, StopOK, JobOK, Dead, Active
  <1>8. CASE InitPluginManager
    <2>1. PICK ld \in [FileNames -> Slots] : Loads(ld)
      BY <1>8, InitPluginManagerFacts
    <2> DEFINE loading == {ld[n] : n \in FileNames}
    <2>2. /\ \A n \in FileNames : phase'[ld[n]] = "load"
          /\ pc' = RestartedPc(loading) /\ loading \in SUBSET Slots
      BY <2>1 DEF Loads
    <2>3. \A s \in Slots : /\ pc'[Req(s)] = IF s \in loading THEN "check"
                                    ELSE IF pc[Req(s)] = "free" THEN "free" ELSE "done"
                           /\ pc'[Mon(s)] = IF pc[Mon(s)] = "off" THEN "off" ELSE "gone"
      BY <2>2, RestartedPcFacts, ThreadFacts DEF RestartedPc
    <2>4. \A s \in loading : phase'[s] = "load"
      BY <2>2
    <2> QED BY <1>7, <1>8, <2>3, <2>4 DEF InitPluginManager
  <1>9. CASE InitFails
    BY <1>7, <1>9, ThreadFacts DEF InitFails
  <1> QED BY <1>1, <1>2, <1>3, <1>4, <1>5, <1>6, <1>8, <1>9 DEF Next, Environment

\* OnlyManagedIsMonitored holds for every value of the constants when ACS spaces its requests: a
\* monitor that is alive watches the object that the manager holds under its name, so a removed
\* or replaced plugin is never relaunched (stopMonitoring, UnscheduleJob, startPluginSchedulers).
\* Without the hypothesis a removal may come between ScheduleJob and the registration of the
\* monitor.
THEOREM MonitorsAreStopped == SpacedRequests => (Spec => []OnlyManagedIsMonitored)
  <1> SUFFICES ASSUME SpacedRequests PROVE Spec => []OnlyManagedIsMonitored
    OBVIOUS
  <1>1. Init => MonInv
    <2> SUFFICES ASSUME Init PROVE MonInv
      OBVIOUS
    <2>1. \A s \in Slots : pc[Req(s)] = "free" /\ pc[Mon(s)] = "off"
      BY ThreadFacts DEF Init
    <2> QED BY <2>1 DEF Init, MonInv, LiveOK, BootOK, StopOK, JobOK, Dead, Active
  <1>2. IInv /\ OneRequestPerPlugin /\ FlowInv /\ MonInv /\ [Next]_vars => MonInv'
    BY NextMon
  <1>3. MonInv => OnlyManagedIsMonitored
    BY DEF MonInv, LiveOK, Dead, OnlyManagedIsMonitored
  <1> QED BY <1>1, <1>2, <1>3, FlowHolds, PTL DEF Spec

-----------------------------------------------------------------------------
(*****************************************************************************)
(* Upgrades: the revision that replaces a running one is unpacked before     *)
(* the running one is taken down.                                            *)
(*****************************************************************************)

\* A request that has run its prelaunch workflow has unpacked its revision.
UnpackedOK(s) ==
    /\ Working(s) /\ phase[s] = "prelaunch" /\ ~req[s].local
    /\ pc[Req(s)] = "run" /\ steps[Req(s)] = <<>>
    => FullName(s) \in dirs

\* A request that has begun to take the old revision down has its own still unpacked.
ReadyOK(s) ==
    /\ Active(s) /\ ~req[s].local /\ curr[s] # None /\ phase[s] \in {"replace", "install"}
    => FullName(s) \in dirs

\* The inductive invariant for upgrades.
ReadyInv == doomed = {} /\ \A s \in Slots : UnpackedOK(s) /\ ReadyOK(s)

\* What a step does to the install directories: only a removal, or an unpacking that fails, takes
\* one away, and only its own; an unpacking that succeeds makes its own.
LEMMA StepDirs ==
    ASSUME IInv, NEW t \in Threads, Step(t)
    PROVE  /\ dirs \ {FullName(Target(t))} \subseteq dirs'
           /\ \/ dirs \subseteq dirs'
              \/ pc[t] = "clean"
              \/ pc[t] = "exec" /\ Head(steps[t]) = "unpack" /\ pc'[t] = "failed"
           /\ pc[t] = "exec" /\ Head(steps[t]) = "unpack" /\ pc'[t] # "failed"
                => FullName(Target(t)) \in dirs'
  <1>1. pc \in [Threads -> ReqPc \cup MonPc]
    BY DEF IInv, TypeOK
  <1>2. CASE unpackStep(t)
    BY <1>1, <1>2 DEF unpackStep, Executes, StepFails, StepDone, Goto
  <1>3. CASE cleanup(t)
    BY <1>3 DEF cleanup
  <1>4. CASE ~unpackStep(t) /\ ~cleanup(t)
    <2>1. dirs' = dirs
      BY <1>4 DEF Step, runSteps, downloadStep, stopPlugin, markStopped,
         launchStep, awaitSocket, startPlugin, openStateFile, writeStateFile, connectOrReLaunch,
         host
    <2>2. ~(pc[t] = "exec" /\ Head(steps[t]) = "unpack")
      BY <1>4 DEF Step, runSteps, downloadStep, stopPlugin, markStopped,
         launchStep, awaitSocket, startPlugin, openStateFile, writeStateFile, connectOrReLaunch,
         Executes
    <2> QED BY <2>1, <2>2
  <1> QED BY <1>2, <1>3, <1>4

\* A step keeps ReadyInv: whoever takes an install directory away works on that very revision.
LEMMA StepReady ==
    ASSUME IInv, OneRequestPerPlugin, FlowInv, ReadyInv, NEW t \in Threads, Step(t)
    PROVE  ReadyInv'
  <1>1. PICK l, w : Transition(t, l, w)
    BY StepTransition
  <1>2. /\ pc[t] \in StepPc \cup {"run", "check"}
        /\ l \in StepPc \cup {"run", "failed"}
        /\ \A u \in Threads : pc'[u] = IF u = t THEN l ELSE pc[u]
        /\ \A u \in Threads : steps'[u] = IF u = t THEN w ELSE steps[u]
        /\ UNCHANGED <<plugins, phase, curr, req, doomed>>
    BY <1>1, TransitionPoint, StepFrame DEF Transition, OnlySteps, chores
  <1>3. PICK x \in Slots : t = Req(x) \/ t = Mon(x)
    BY DEF Threads, Req, Mon
  <1>4. ASSUME NEW s \in Slots, Active(s), FullName(s) \in dirs, FullName(s) \notin dirs',
               phase[s] \in {"prelaunch", "replace", "install"},
               phase[s] \in {"replace", "install"} => curr[s] # None
        PROVE  t = Req(s) /\ phase[s] = "prelaunch" /\ l = "failed"
    <2>1. /\ FullName(s) = FullName(Target(t))
          /\ \/ pc[t] = "clean"
             \/ pc[t] = "exec" /\ Head(steps[t]) = "unpack" /\ pc'[t] = "failed"
      BY <1>4, StepDirs
    <2>2. steps[t] # <<>>
      BY <2>1 DEF IInv, WellFormed, StepOK, StepPc
    <2>3. Head(steps[t]) \in {"remove", "unpack"}
      BY <1>3, <2>1 DEF FlowInv, PointOK
    <2>4. t = Req(x)
      BY <1>3, <2>2, <2>3, Workflows DEF FlowInv, FitOK, Relaunches
    <2>5. /\ Active(x)
          /\ Target(t) = IF phase[x] \in {"replace", "remove", "apply"} THEN curr[x] ELSE x
      BY <1>2, <2>4, ThreadFacts DEF Active, Target, StepPc
    <2>6. req[Target(t)].name = req[x].name
      <3>1. phase[x] \in {"replace", "remove", "apply"} => curr[x] # None
        BY ReqFacts DEF ReqOK
      <3> QED BY <2>5, <3>1 DEF FlowInv, RefOK
    <2>7. x = s
      BY <1>4, <2>1, <2>5, <2>6, SameName DEF OneRequestPerPlugin
    <2>8. phase[s] = "prelaunch"
      <3>1. CASE phase[s] = "replace"
        <4>1. Target(t) = curr[s] /\ req[curr[s]].rev # req[s].rev
          BY <1>4, <2>5, <2>7, <3>1 DEF FlowInv, RefOK
        <4> QED BY <2>1, <4>1, SameName
      <3>2. CASE phase[s] = "install"
        <4>1. steps[t] \in {<<"launch">>, <<>>}
          BY <1>4, <2>4, <2>7, <3>2 DEF FlowInv, FitOK
        <4> QED BY <2>2, <2>3, <4>1, Workflows
      <3> QED BY <1>4, <3>1, <3>2
    <2>9. Head(steps[t]) # "remove"
      BY <2>2, <2>4, <2>7, <2>8, Workflows DEF FlowInv, FitOK, Prelaunches
    <2>10. l = "failed"
      BY <1>2, <2>1, <2>3, <2>4, <2>7, <2>9 DEF FlowInv, PointOK
    <2> QED BY <2>4, <2>7, <2>8, <2>10
  <1>5. ASSUME NEW s \in Slots PROVE UnpackedOK(s)' /\ ReadyOK(s)'
    <2>1. UnpackedOK(s) /\ ReadyOK(s) /\ FullName(s)' = FullName(s) /\ Req(s) \in Threads
      BY <1>2, ThreadFacts DEF ReadyInv, FullName
    <2>2. Active(s)' => Active(s)
      BY <1>2, <2>1 DEF Active, StepPc
    <2>3. ReadyOK(s)'
      BY <1>2, <1>4, <2>1, <2>2 DEF ReadyOK
    <2>4. UnpackedOK(s)'
      <3> SUFFICES ASSUME Working(s)', phase[s] = "prelaunch", ~req[s].local,
                          pc'[Req(s)] = "run", steps'[Req(s)] = <<>>,
                          FullName(s) \notin dirs'
                   PROVE  FALSE
        BY <1>2, <2>1 DEF UnpackedOK
      <3>1. CASE t = Req(s)
        <4>1. l = "run" /\ w = <<>>
          BY <1>2, <2>1, <3>1
        <4>2. phase[s] # "load"
          OBVIOUS
        <4>3. pc[t] # "check"
          BY <3>1, <4>2 DEF FlowInv, RefOK
        <4>4. steps[t] # <<>> /\ w = Tail(steps[t])
          BY <1>1, <4>1, <4>3 DEF Transition
        <4>5. steps[t] = <<"unpack">>
          BY <3>1, <4>1, <4>4, Workflows DEF FlowInv, FitOK, Prelaunches
        <4>6. pc[t] = "exec" /\ Head(steps[t]) = "unpack"
          <5>1. Head(steps[t]) = "unpack"
            BY <4>5, Workflows
          <5> QED BY <1>1, <3>1, <4>1, <4>3, <4>4, <5>1 DEF Transition, FlowInv, PointOK
        <4>7. Target(t) = s
          BY <3>1, ThreadFacts DEF Target
        <4> QED BY <1>2, <2>1, <3>1, <4>1, <4>6, <4>7, StepDirs
      <3>2. CASE t # Req(s)
        <4>1. pc[Req(s)] = "run" /\ steps[Req(s)] = <<>>
          BY <1>2, <2>1, <3>2
        <4>2. Active(s) /\ Working(s)
          BY <4>1 DEF Active, Working
        <4>3. FullName(s) \in dirs
          BY <2>1, <4>1, <4>2 DEF UnpackedOK
        <4> QED BY <1>4, <3>2, <4>2, <4>3
      <3> QED BY <3>1, <3>2
    <2> QED BY <2>3, <2>4
  <1> QED BY <1>2, <1>5 DEF ReadyInv

\* ReadyInv stays when one request moves, no directory changes and that request is in order
\* afterwards.
LEMMA ReadyFrame ==
    ASSUME ReadyInv, NEW s \in Slots, UNCHANGED <<dirs, doomed>>,
           \A x \in Slots \ {s} : /\ pc'[Req(x)] = pc[Req(x)] /\ steps'[Req(x)] = steps[Req(x)]
                                  /\ phase'[x] = phase[x] /\ curr'[x] = curr[x]
                                  /\ req'[x] = req[x],
           UnpackedOK(s)', ReadyOK(s)'
    PROVE  ReadyInv'
  <1>1. ASSUME NEW x \in Slots \ {s} PROVE UnpackedOK(x)' /\ ReadyOK(x)'
    <2>1. UnpackedOK(x) /\ ReadyOK(x)
      BY DEF ReadyInv
    <2> QED BY <2>1 DEF UnpackedOK, ReadyOK, Working, Active, FullName
  <1> QED BY <1>1 DEF ReadyInv

\* configurePlugin keeps ReadyInv.
LEMMA configurePluginReady ==
    ASSUME IInv, FlowInv, ReadyInv, NEW s \in Slots, configurePlugin(s)
    PROVE  ReadyInv'
  <1>1. UNCHANGED <<dirs, doomed>>
    BY DEF configurePlugin, host, chores
  <1>2. PICK l, w, p, c : /\ ReqAt(s, l, w) /\ PhaseAt(s, p, c) /\ Revised(s)
                          /\ p \in {"replace", "install"} => c = None
                          /\ p = "prelaunch" => w = preLaunchWorkflow(req'[s].local)
    BY configurePluginEffect DEF Refused, StartsUpgrade, StartsInstall, StartsRemove
  <1>3. \A x \in Slots \ {s} : /\ pc'[Req(x)] = pc[Req(x)] /\ steps'[Req(x)] = steps[Req(x)]
                               /\ phase'[x] = phase[x] /\ curr'[x] = curr[x]
                               /\ req'[x] = req[x]
    BY <1>2 DEF ReqAt, PhaseAt, Revised
  <1>4. ReadyOK(s)'
    BY <1>2 DEF ReadyOK, PhaseAt
  <1>5. UnpackedOK(s)'
    <2>1. ASSUME ~req'[s].local PROVE preLaunchWorkflow(req'[s].local) # <<>>
      BY <2>1, Workflows DEF preLaunchWorkflow
    <2> QED BY <1>2, <2>1 DEF UnpackedOK, ReqAt, PhaseAt
  <1> QED BY <1>1, <1>3, <1>4, <1>5, ReadyFrame

\* The handlers that touch no directory keep ReadyInv.
LEMMA RequestMovesReady ==
    ASSUME IInv, FlowInv, ReadyInv, NEW s \in Slots,
           applyConfig(s) \/ Apply(s) \/ stopMonitoring(s) \/ UnscheduleJob(s) \/ Finish(s)
    PROVE  ReadyInv'
  <1>1. /\ pc[Req(s)] \in {"dispatch", "apply", "unmonitor", "unschedule", "finish"}
        /\ UNCHANGED <<dirs, doomed, req>> /\ Active(s)
    BY DEF applyConfig, Apply, stopMonitoring, UnscheduleJob, Finish, host, chores, Active
  <1>2. /\ pc \in [Threads -> ReqPc \cup MonPc] /\ steps \in [Threads -> Seq(StepKind)]
        /\ phase \in [Slots -> PhaseType] /\ curr \in [Slots -> Slots \cup {None}]
        /\ \A x \in Slots : Req(x) \in Threads /\ Mon(x) \in Threads
        /\ \A x, y \in Slots : Mon(x) # Req(y) /\ (Req(x) = Req(y) <=> x = y)
    BY ThreadFacts DEF IInv, TypeOK
  <1>3. /\ \A x \in Slots \ {s} : pc'[Req(x)] = pc[Req(x)] /\ steps'[Req(x)] = steps[Req(x)]
        /\ \A x \in Slots \ {s} : phase'[x] = phase[x] /\ curr'[x] = curr[x]
        /\ \/ phase'[s] = phase[s] /\ curr'[s] = curr[s]
           \/ phase'[s] = "apply"
    <2>1. CASE UnscheduleJob(s)
      <3>1. UNCHANGED <<phase, curr>>
        BY <2>1 DEF UnscheduleJob
      <3>2. \A x \in Slots : pc'[Req(x)] = IF x = s THEN "run" ELSE pc[Req(x)]
        BY <2>1, UnscheduleEffect
      <3>3. \A x \in Slots : steps'[Req(x)] = IF x = s THEN <<"remove">> ELSE steps[Req(x)]
        BY <2>1, UnscheduleEffect
      <3> QED BY <3>1, <3>2, <3>3
    <2>2. CASE applyConfig(s)
      BY <1>2, <2>2 DEF applyConfig, Conclude, Goto
    <2>3. CASE Apply(s) \/ stopMonitoring(s) \/ Finish(s)
      BY <1>2, <2>3 DEF Apply, stopMonitoring, Finish, Conclude, RunSteps, Goto
    <2> QED BY <2>1, <2>2, <2>3
  <1>4. ReadyOK(s)'
    BY <1>1, <1>3 DEF ReadyInv, ReadyOK, FullName
  <1>5. phase[s] # "prelaunch" \/ pc[Req(s)] = "finish"
    BY <1>1, DispatchFacts, ReqFacts DEF ReqOK
  <1>6. UnpackedOK(s)'
    <2>1. CASE pc[Req(s)] = "finish"
      <3>1. pc'[Req(s)] = "done"
        BY <1>2, <2>1 DEF applyConfig, Apply, stopMonitoring, UnscheduleJob, Finish, Goto
      <3> QED BY <3>1 DEF UnpackedOK
    <2>2. CASE phase[s] # "prelaunch"
      BY <1>3, <2>2 DEF UnpackedOK
    <2> QED BY <1>5, <2>1, <2>2
  <1> QED BY <1>1, <1>3, <1>4, <1>6, ReadyFrame

\* What a request does after a call of runSteps keeps ReadyInv: it goes on to take the old
\* revision down only after its prelaunch workflow has succeeded.
LEMMA AfterStepsReady ==
    ASSUME IInv, FlowInv, ReadyInv, NEW s \in Slots,
           \/ installed(s) \/ installFailed(s) \/ preLaunched(s) \/ upgradeFailed(s)
           \/ replaced(s) \/ removed(s) \/ removeFailed(s) \/ applied(s) \/ loaded(s)
    PROVE  ReadyInv'
  <1>1. /\ UNCHANGED <<dirs, doomed, steps, curr, req, inProgress>>
        /\ \E p : StepsDone(s, p) \/ StepsFailed(s, p)
        /\ \/ UNCHANGED phase
           \/ phase' = [phase EXCEPT ![s] = "replace"] /\ StepsDone(s, "prelaunch")
    BY DEF installed, installFailed, preLaunched, upgradeFailed, replaced, removed, removeFailed,
       applied, loaded, host, chores, memory
  <1>2. PICK l \in {"finish", "unmonitor", "launch"} : Leaves(s, l)
    <2>1. \/ \E l \in {"finish", "unmonitor", "launch"} : Goto(Req(s), l)
          \/ pc' = [pc EXCEPT ![Req(s)] = "finish", ![Mon(s)] = "schedule"]
      BY DEF installed, installFailed, preLaunched, upgradeFailed, replaced, removed,
         removeFailed, applied, loaded, Conclude
    <2> QED BY <1>1, <2>1, LeavesEffect
  <1>3. phase \in [Slots -> PhaseType] /\ Active(s) /\ Working(s)
    BY <1>1, OverFacts
  <1>4. \A x \in Slots \ {s} : /\ pc'[Req(x)] = pc[Req(x)] /\ steps'[Req(x)] = steps[Req(x)]
                               /\ phase'[x] = phase[x] /\ curr'[x] = curr[x]
                               /\ req'[x] = req[x]
    BY <1>1, <1>2, <1>3 DEF Leaves
  <1>5. UnpackedOK(s)'
    BY <1>2 DEF UnpackedOK, Leaves
  <1>6. ReadyOK(s)'
    BY <1>1, <1>3 DEF ReadyInv, ReadyOK, UnpackedOK, FullName, StepsDone
  <1> QED BY <1>1, <1>4, <1>5, <1>6, ReadyFrame

\* Every step of the specification keeps ReadyInv when the cleanup job does not run.
LEMMA NextReady ==
    ASSUME IInv, OneRequestPerPlugin, FlowInv, ReadyInv, MaxScans = 0, [Next]_vars
    PROVE  ReadyInv'
  <1>0. ASSUME UNCHANGED <<pc, steps, phase, curr, req, dirs, doomed>> PROVE ReadyInv'
    BY <1>0 DEF ReadyInv, ReadyOK, UnpackedOK, Working, Active, FullName
  <1>1. CASE UNCHANGED vars
    BY <1>0, <1>1 DEF vars, control, host, chores
  <1>2. ASSUME NEW s \in Slots, filterPendingPluginRevisions(s) PROVE ReadyInv'
    <2>1. Accepted(s)
      BY <1>2, filterEffect
    <2>2. phase'[s] = None /\ curr'[s] = None
      BY <2>1 DEF Accepted, FlowInv, RefOK
    <2>3. UnpackedOK(s)' /\ ReadyOK(s)'
      BY <2>2 DEF UnpackedOK, ReadyOK
    <2> QED BY <2>1, <2>3, ReadyFrame DEF Accepted, ReqAt, host, chores
  <1>3. ASSUME NEW s \in Slots, launchUpgrade(s) PROVE ReadyInv'
    <2>1. /\ ReqAt(s, "run", <<"launch">>) /\ PhaseAt(s, "install", curr[s]) /\ req' = req
          /\ UNCHANGED <<dirs, doomed>> /\ Active(s) /\ phase[s] = "replace"
      BY <1>3, launchUpgradeEffect DEF launchUpgrade, host, chores
    <2>2. UnpackedOK(s)' /\ ReadyOK(s)'
      BY <2>1 DEF UnpackedOK, ReadyOK, ReadyInv, PhaseAt, FullName
    <2> QED BY <2>1, <2>2, ReadyFrame DEF ReqAt, PhaseAt
  <1>4. ASSUME NEW s \in Slots, Request(s) PROVE ReadyInv'
    BY <1>3, <1>4, configurePluginReady, RequestMovesReady, AfterStepsReady, StepReady,
       ThreadFacts DEF Request
  <1>5. ASSUME NEW s \in Slots, UnscheduleJob(s) PROVE ReadyInv'
    BY <1>5, RequestMovesReady
  <1>6. ASSUME NEW s \in Slots, MonitorRun(s) \/ runOnSchedule(s) PROVE ReadyInv'
    <2>1. CASE Step(Mon(s))
      BY <2>1, StepReady, ThreadFacts
    <2>2. CASE \/ ScheduleJob(s) \/ addJob(s) \/ startMonitoring(s) \/ healthCheck(s)
               \/ GetStatus(s) \/ relaunched(s) \/ runOnSchedule(s)
      <3>1. PICK l : MonAt(s, l, <<>>) /\ UNCHANGED <<phase, curr, req, dirs, doomed>>
        BY <2>2, MonitorMoves DEF host, chores
      <3>2. UnpackedOK(s)' /\ ReadyOK(s)'
        BY <3>1 DEF ReadyInv, UnpackedOK, ReadyOK, MonAt, Working, Active, FullName
      <3> QED BY <3>1, <3>2, ReadyFrame DEF MonAt
    <2> QED BY <1>6, <2>1, <2>2 DEF MonitorRun
  <1>7. CASE ProcessExits \/ CancelContext
    BY <1>0, <1>7 DEF ProcessExits, CancelContext, control, chores, host
  <1>8. CASE scanLeftovers \/ removeLeftover
    <2>1. scans \in Nat /\ doomed = {}
      BY DEF IInv, TypeOK, ReadyInv
    <2> QED BY <1>8, <2>1 DEF scanLeftovers, removeLeftover
  <1>9. ASSUME doomed' = {},
               \A s \in Slots : pc'[Req(s)] \notin {"free", "done"} => phase'[s] = "load"
        PROVE  ReadyInv'
    BY <1>9 DEF ReadyInv, UnpackedOK, ReadyOK, Working, Active
  <1>10. CASE InitPluginManager
    <2>1. PICK ld \in [FileNames -> Slots] : Loads(ld)
      BY <1>10, InitPluginManagerFacts
    <2> DEFINE loading == {ld[n] : n \in FileNames}
    <2>2. /\ \A n \in FileNames : phase'[ld[n]] = "load"
          /\ pc' = RestartedPc(loading) /\ loading \in SUBSET Slots
      BY <2>1 DEF Loads
    <2>3. \A s \in Slots : pc'[Req(s)] = IF s \in loading THEN "check"
                                    ELSE IF pc[Req(s)] = "free" THEN "free" ELSE "done"
      BY <2>2, RestartedPcFacts, ThreadFacts DEF RestartedPc
    <2>4. \A s \in loading : phase'[s] = "load"
      BY <2>2
    <2>5. doomed' = {}
      BY <1>10 DEF InitPluginManager, IInv, TypeOK
    <2> QED BY <1>9, <2>3, <2>4, <2>5
  <1>11. CASE InitFails
    BY <1>9, <1>11, ThreadFacts DEF InitFails
  <1> QED BY <1>1, <1>2, <1>4, <1>5, <1>6, <1>7, <1>8, <1>10, <1>11 DEF Next, Environment

\* ReadyBeforeReplacing holds for every value of the constants when the cleanup job does not run:
\* from the moment an upgrade takes the running revision down, the revision it launches next is
\* in its install directory (upgradePlugin runs download and unpack before stop and remove).  The
\* cleanup job lists the plugins before it deletes, and may delete the directory in between.
THEOREM UpgradesAreReady == MaxScans = 0 => (Spec => []ReadyBeforeReplacing)
  <1> SUFFICES ASSUME MaxScans = 0 PROVE Spec => []ReadyBeforeReplacing
    OBVIOUS
  <1>1. Init => ReadyInv
    BY DEF Init, ReadyInv, UnpackedOK, ReadyOK
  <1>2. IInv /\ OneRequestPerPlugin /\ FlowInv /\ ReadyInv /\ [Next]_vars => ReadyInv'
    BY NextReady
  <1>3. ReadyInv => ReadyBeforeReplacing
    BY DEF ReadyInv, ReadyOK, ReadyBeforeReplacing
  <1> QED BY <1>1, <1>2, <1>3, FlowHolds, PTL DEF Spec

-----------------------------------------------------------------------------
(*****************************************************************************)
(* Processes: the one goroutine that works on a plugin at a time knows the   *)
(* pid of its process, so that no process is started beside another or       *)
(* forgotten.                                                                *)
(*****************************************************************************)

\* The thread t may start or stop the process of its object: a live monitor, or a request that
\* installs the plugin or has stopped the monitor in order to take it down.
Handles(t) ==
    \E s \in Slots :
        \/ t = Mon(s) /\ ~Dead(s)
        \/ /\ t = Req(s) /\ Working(s) /\ phase[s] \in {"install", "replace", "remove"}
           /\ pc[Req(s)] \notin {"unmonitor", "unschedule", "launch"}

\* The process p is the one that the object the manager holds has recorded.
ProcOK(p) == procs[p] # None =>
    /\ plugins[procs[p][1]] # None
    /\ obj[plugins[procs[p][1]]].pid = p
    /\ FullName(plugins[procs[p][1]]) = procs[p]

\* Which objects have recorded no process yet, or no longer: one that has not been launched, one
\* that is about to be launched or relaunched, and one that has been stopped.
PidOK(s) ==
    /\ phase[s] \notin {"install", "load"} => obj[s].pid = None
    /\ phase[s] = "install" /\ pc[Req(s)] \in {"run", "exec"} /\ steps[Req(s)] # <<>>
         => obj[s].pid = None
    /\ steps[Mon(s)] = <<"launch">> /\ pc[Mon(s)] \in {"run", "exec"} => obj[s].pid = None
    /\ /\ Working(s) /\ phase[s] \in {"replace", "remove"}
       /\ pc[Req(s)] = "clean" \/ (pc[Req(s)] = "run" /\ steps[Req(s)] = <<>>)
       => obj[curr[s]].pid = None

\* No request of this agent applies a configuration or loads a plugin.
PlainOK(s) ==
    /\ phase[s] \notin {"apply", "load"}
    /\ pc[Req(s)] = "dispatch" => req[s].action # "APPLY"

\* The process of a plugin that is marked as stopped has been killed.
MarkOK(t) == pc[t] = "mark" => ~Alive(Target(t))

\* The inductive invariant for processes, in an agent that has not been restarted.
ProcInv ==
    /\ restarts = 0
    /\ \A p \in Pids : ProcOK(p)
    /\ \A s \in Slots : PidOK(s) /\ PlainOK(s)
    /\ \A s \in Slots : MarkOK(Req(s)) /\ MarkOK(Mon(s))

\* The thread that works on the process of a plugin works on the object that the manager holds.
LEMMA HandlerTarget ==
    ASSUME IInv, FlowInv, MonInv, NEW t, Handles(t)
    PROVE  LET o == Target(t) IN
           /\ o \in Slots /\ Object(o) /\ plugins[req[o].name] = o /\ req[o].name \in Names
           /\ \A s \in Slots : t = Req(s) => req[o].name = req[s].name
  <1> DEFINE o == Target(t)
  <1>1. CASE \E s \in Slots : t = Mon(s) /\ ~Dead(s)
    <2>1. PICK s \in Slots : t = Mon(s) /\ ~Dead(s)
      BY <1>1
    <2>2. o = s /\ \A x \in Slots : t # Req(x)
      BY <2>1 DEF Target, Mon, Req
    <2> QED BY <2>1, <2>2, LiveFacts DEF Object
  <1>2. CASE \E s \in Slots : /\ t = Req(s) /\ Working(s)
                              /\ phase[s] \in {"install", "replace", "remove"}
                              /\ pc[Req(s)] \notin {"unmonitor", "unschedule", "launch"}
    <2>1. PICK s \in Slots : /\ t = Req(s) /\ Working(s)
                             /\ phase[s] \in {"install", "replace", "remove"}
                             /\ pc[Req(s)] \notin {"unmonitor", "unschedule", "launch"}
      BY <1>2
    <2>2. o = IF phase[s] \in {"replace", "remove"} THEN curr[s] ELSE s
      BY <2>1 DEF Target, Req
    <2>3. \A x \in Slots : t = Req(x) => x = s
      BY <2>1 DEF Req
    <2>4. /\ ReqOK(s) /\ RefOK(s) /\ PlaceOK(s) /\ curr[s] \in Slots \cup {None}
          /\ req[s].name \in Names
      BY <2>1 DEF IInv, TypeOK, WellFormed, ReqOK, FlowInv, Working
    <2>5. o \in Slots /\ Object(o) /\ req[o].name = req[s].name
      BY <2>1, <2>2, <2>4 DEF ReqOK, RefOK
    <2>6. plugins[req[s].name] = o
      BY <2>1, <2>2, <2>4 DEF PlaceOK
    <2> QED BY <2>3, <2>4, <2>5, <2>6
  <1> QED BY <1>1, <1>2 DEF Handles

\* At most one thread works on the process of a plugin.
LEMMA OneHandler ==
    ASSUME IInv, OneRequestPerPlugin, FlowInv, MonInv, NEW t, NEW u, Handles(t), Handles(u),
           req[Target(t)].name = req[Target(u)].name
    PROVE  t = u
  <1> DEFINE n == req[Target(t)].name
  <1>1. ASSUME NEW a, NEW b, Handles(a), Handles(b), req[Target(a)].name = n,
               req[Target(b)].name = n, NEW s \in Slots, NEW x \in Slots,
               a = Req(s), b = Mon(x)
        PROVE  FALSE
    <2>1. /\ Working(s) /\ phase[s] \in {"install", "replace", "remove"}
          /\ pc[Req(s)] \notin {"unmonitor", "unschedule", "launch"}
      BY <1>1 DEF Handles, Req, Mon
    <2>2. ~Dead(x)
      BY <1>1 DEF Handles, Req, Mon
    <2>3. /\ Target(b) = x
          /\ Target(a) = IF phase[s] \in {"replace", "remove"} THEN curr[s] ELSE s
      BY <1>1, <2>1 DEF Target, Req, Mon
    <2>4. Target(a) = x
      BY <1>1, <2>3, HandlerTarget
    <2>5. CASE phase[s] = "install"
      <3>1. x = s
        BY <2>3, <2>4, <2>5
      <3>2. RefOK(s) /\ pc[Req(s)] \notin {"finish", "done"}
        BY <2>1 DEF FlowInv, Working, Active
      <3> QED BY <2>2, <3>1, <3>2 DEF RefOK, Dead
    <2>6. CASE phase[s] \in {"replace", "remove"}
      <3>1. x = curr[s]
        BY <2>3, <2>4, <2>6
      <3>2. StopOK(s)
        BY DEF MonInv
      <3> QED BY <2>1, <2>2, <2>6, <3>1, <3>2 DEF StopOK, Working
    <2> QED BY <2>1, <2>5, <2>6
  <1>2. PICK s \in Slots, x \in Slots : (t = Req(s) \/ t = Mon(s)) /\ (u = Req(x) \/ u = Mon(x))
    BY DEF Handles
  <1>3. CASE t = Req(s) /\ u = Req(x)
    <2>1. Active(s) /\ Active(x)
      BY <1>3 DEF Handles, Req, Mon, Working
    <2>2. req[s].name = req[x].name
      BY <1>3, HandlerTarget
    <2> QED BY <1>3, <2>1, <2>2 DEF OneRequestPerPlugin
  <1>4. CASE t = Mon(s) /\ u = Mon(x)
    <2>1. Target(t) = s /\ Target(u) = x
      BY <1>4 DEF Target, Mon
    <2> QED BY <1>4, <2>1, HandlerTarget
  <1> QED BY <1>1, <1>2, <1>3, <1>4

\* A process of the plugin o is started under the pid p, and o records it.
SpawnsAt(o, p) ==
    /\ procs' = [procs EXCEPT ![p] = FullName(o)] /\ procs[p] = None /\ obj'[o].pid = p

\* The processes once that of o is killed, if o has recorded one.
Killed(o) == IF obj[o].pid = None THEN procs ELSE [procs EXCEPT ![obj[o].pid] = None]

\* What a step on the object o does to the processes, and where it does it: stopPlugin kills,
\* markStopped forgets the pid, launchStep starts, awaitSocket starts again or gives up.
ProcStep(t, o) ==
    \/ /\ pc[t] \notin {"mark", "socket"} /\ pc'[t] \notin {"mark", "socket", "clean"}
       /\ procs' = procs /\ obj'[o].pid = obj[o].pid
    \/ /\ pc[t] = "exec" /\ Head(steps[t]) \in {"stop", "remove"} /\ pc'[t] = "mark"
       /\ procs' = IF Alive(o) THEN [procs EXCEPT ![obj[o].pid] = None] ELSE procs
       /\ obj' = obj
    \/ pc[t] = "mark" /\ procs' = procs /\ obj'[o].pid = None
    \/ /\ pc[t] = "exec" /\ Head(steps[t]) = "launch" /\ pc'[t] \in {"socket", "connect"}
       /\ \E p \in Pids : SpawnsAt(o, p)
    \/ /\ pc[t] = "socket" /\ pc'[t] = "connect"
       /\ procs' = procs /\ obj'[o].pid = obj[o].pid
    \/ /\ pc[t] = "socket" /\ pc'[t] = "connect"
       /\ \E q \in Pids : /\ procs' = [Killed(o) EXCEPT ![q] = FullName(o)]
                          /\ obj'[o].pid = q
    \/ /\ pc[t] = "socket" /\ pc'[t] = "failed"
       /\ procs' = Killed(o) /\ obj'[o].pid = obj[o].pid

\* Every step does one of these to the processes: the Run methods of the steps.
LEMMA StepProc ==
    ASSUME IInv, NEW t \in Threads, Step(t)
    PROVE  ProcStep(t, Target(t))
  <1> DEFINE o == Target(t)
  <1>1. /\ o \in Slots /\ obj \in [Slots -> ObjType] /\ obj[o] \in ObjType
        /\ pc \in [Threads -> ReqPc \cup MonPc] /\ pc[t] \in StepPc \cup {"run", "check"}
    <2>1. pc[t] \in StepPc \cup {"run", "check"}
      BY DEF Step, runSteps, downloadStep, unpackStep, stopPlugin, markStopped, cleanup,
         launchStep, awaitSocket, startPlugin, openStateFile, writeStateFile,
         connectOrReLaunch, Executes, StepPc
    <2>2. StepData(t)
      BY <2>1, StepFacts
    <2> QED BY <2>1, <2>2 DEF StepData
  <1> HIDE DEF o
  <1>2. ASSUME NEW v, obj' = [obj EXCEPT ![o].status = v]
        PROVE  obj'[o].pid = obj[o].pid
    BY <1>1, <1>2 DEF ObjType
  <1>3. ASSUME NEW l, Goto(t, l)
        PROVE  pc'[t] = l
    BY <1>1, <1>3 DEF Goto
  <1>4. ASSUME StepDone(t)
        PROVE  pc'[t] = "run"
    BY <1>3, <1>4 DEF StepDone
  <1>5. ASSUME StepFails(t)
        PROVE  pc'[t] = "failed"
    BY <1>3, <1>5 DEF StepFails
  <1>6. ASSUME obj' = [obj EXCEPT ![o] = FailedObj(t)] 
        PROVE  obj'[o].pid = obj[o].pid
    BY <1>1, <1>6 DEF FailedObj, o, ObjType
  <1>a. CASE runSteps(t)
    BY <1>a, <1>2, <1>3, <1>5 DEF runSteps, setState, host, o, ProcStep
  <1>b. CASE downloadStep(t)
    BY <1>b, <1>4, <1>5, <1>6 DEF downloadStep, host, o, ProcStep, Executes
  <1>c. CASE unpackStep(t)
    BY <1>c, <1>4, <1>5, <1>6 DEF unpackStep, host, o, ProcStep, Executes
  <1>d. CASE stopPlugin(t)
    BY <1>d, <1>3 DEF stopPlugin, o, ProcStep, Executes
  <1>e. CASE markStopped(t)
    <2>1. obj'[o].pid = None
      BY <1>e, <1>1 DEF markStopped, ObjType, o
    <2> QED BY <1>e, <2>1 DEF markStopped, host, o, ProcStep
  <1>f. CASE cleanup(t)
    BY <1>f, <1>4 DEF cleanup, o, ProcStep
  <1>g. CASE launchStep(t)
    <2>1. CASE StepFails(t)
      BY <1>g, <2>1, <1>5, <1>6, <1>3 DEF launchStep, o, ProcStep, Executes, Spawn, setPid
    <2>2. CASE ~StepFails(t)
      <3>1. PICK p \in Pids : Spawn(o, p)
        BY <1>g, <2>2 DEF launchStep, o
      <3>2. obj'[o].pid = p
        BY <3>1, <1>1 DEF Spawn, setPid, ObjType
      <3>3. pc'[t] \in {"socket", "connect"}
        BY <1>g, <2>2, <1>3 DEF launchStep, o
      <3> QED BY <1>g, <3>1, <3>2, <3>3 DEF launchStep, Executes, Spawn, SpawnsAt, ProcStep, o
    <2> QED BY <2>1, <2>2
  <1>h. CASE awaitSocket(t)
    <2>1. CASE Goto(t, "connect") /\ UNCHANGED <<obj, steps, procs>>
      BY <1>h, <2>1, <1>3 DEF awaitSocket, ProcStep, o
    <2>2. CASE \E q \in Pids : /\ procs' = [Killed(o) EXCEPT ![q] = FullName(o)]
                               /\ obj' = [obj EXCEPT ![o].pid = q, ![o].uds = FALSE]
                               /\ Goto(t, "connect")
      <3>1. PICK q \in Pids : /\ procs' = [Killed(o) EXCEPT ![q] = FullName(o)]
                              /\ obj' = [obj EXCEPT ![o].pid = q, ![o].uds = FALSE]
                              /\ Goto(t, "connect")
        BY <2>2
      <3>2. obj'[o].pid = q
        BY <3>1, <1>1 DEF ObjType
      <3> QED BY <1>h, <3>1, <3>2, <1>3 DEF awaitSocket, ProcStep, o
    <2>3. CASE /\ procs' = Killed(o) /\ StepFails(t)
               /\ \E v \in BOOLEAN :
                     obj' = [obj EXCEPT ![o].uds = v, ![o].status = "CRASHED"]
      <3>1. obj'[o].pid = obj[o].pid
        BY <2>3, <1>1 DEF ObjType
      <3> QED BY <1>h, <2>3, <3>1, <1>5 DEF awaitSocket, ProcStep, o
    <2> QED BY <1>h, <2>1, <2>2, <2>3 DEF awaitSocket, Killed, o
  <1>i. CASE startPlugin(t)
    <2>1. obj'[o].pid = obj[o].pid
      <3>1. CASE obj' = [obj EXCEPT ![o].client = TRUE, ![o].status = "RUNNING"]
        BY <3>1, <1>1 DEF ObjType
      <3>2. CASE \E c \in {obj[o].client, TRUE} :
                obj' = [obj EXCEPT ![o].client = c, ![o].status = "CRASHED"]
        BY <3>2, <1>1 DEF ObjType
      <3> QED BY <1>i, <3>1, <3>2 DEF startPlugin, o
    <2> QED BY <1>i, <2>1, <1>3, <1>5 DEF startPlugin, host, ProcStep, o
  <1>j. CASE openStateFile(t)
    BY <1>j, <1>2, <1>3, <1>4, <1>5 DEF openStateFile, setState, ProcStep, o
  <1>k. CASE writeStateFile(t)
    BY <1>k, <1>2, <1>3, <1>4, <1>5 DEF writeStateFile, setState, ProcStep, o
  <1>l. CASE connectOrReLaunch(t)
    <2>1. obj'[o].pid = obj[o].pid
      <3>1. CASE obj' = [obj EXCEPT ![o].client = TRUE, ![o].status = "RUNNING"]
        BY <3>1, <1>1 DEF ObjType
      <3>2. CASE obj' = [obj EXCEPT ![o].client = TRUE]
        BY <3>2, <1>1 DEF ObjType
      <3> QED BY <1>l, <3>1, <3>2 DEF connectOrReLaunch, o
    <2> QED BY <1>l, <2>1, <1>3 DEF connectOrReLaunch, RunSteps, host, ProcStep, o
  <1> QED BY <1>a, <1>b, <1>c, <1>d, <1>e, <1>f, <1>g, <1>h, <1>i, <1>j, <1>k, <1>l DEF Step, o

\* A thread that has to stop or launch a plugin may do so.
LEMMA WorkerHandles ==
    ASSUME IInv, FlowInv, ProcInv, NEW t \in Threads,
           pc[t] \in StepPc \cup {"run"}, steps[t] # <<>>,
           Head(steps[t]) \in {"stop", "remove", "launch"}
    PROVE  Handles(t)
  <1>1. PICK x \in Slots : t = Req(x) \/ t = Mon(x)
    BY DEF Threads, Req, Mon
  <1>2. CASE t = Mon(x)
    BY <1>1, <1>2 DEF Handles, Dead, StepPc
  <1>3. CASE t = Req(x)
    <2>1. FitOK(x) /\ ReqOK(x) /\ PlainOK(x) /\ phase[x] \in PhaseType
      BY DEF FlowInv, IInv, WellFormed, TypeOK, ProcInv
    <2>2. Working(x) /\ pc[Req(x)] \notin {"unmonitor", "unschedule", "launch"}
      BY <1>3 DEF Working, Active, StepPc
    <2>3. phase[x] # None
      BY <1>3, <2>1 DEF FitOK
    <2>4. phase[x] # "prelaunch"
      BY <1>3, <2>1, Workflows DEF FitOK, Prelaunches
    <2> QED BY <1>3, <2>1, <2>2, <2>3, <2>4 DEF Handles, PhaseType, PlainOK
  <1> QED BY <1>1, <1>2, <1>3

\* A request inside runSteps may stop or launch its plugin.
LEMMA RemoverHandles ==
    ASSUME NEW s \in Slots, Working(s), phase[s] \in {"install", "replace", "remove"},
           pc[Req(s)] \in {"run", "clean", "exec"}
    PROVE  Handles(Req(s))
  BY DEF Handles

\* A plugin that is launched was installed by this agent.
LEMMA LauncherPhase ==
    ASSUME IInv, FlowInv, MonInv, ProcInv, NEW t \in Threads,
           pc[t] \in {"exec", "socket"}, steps[t] # <<>>, Head(steps[t]) = "launch"
    PROVE  phase[Target(t)] = "install"
  <1>0. Handles(t)
    BY WorkerHandles DEF StepPc
  <1>1. PICK x \in Slots : t = Req(x) \/ t = Mon(x)
    BY DEF Threads, Req, Mon
  <1>2. CASE t = Mon(x)
    <2>1. Target(t) = x
      BY <1>2 DEF Target, Mon
    <2>2. plugins[req[x].name] = x /\ req[x].name \in Names
      BY <1>0, <2>1, HandlerTarget
    <2> QED BY <2>1, <2>2 DEF FlowInv, RefOK, ProcInv, PlainOK
  <1>3. CASE t = Req(x)
    <2>1. FitOK(x) /\ phase[x] \in {"install", "replace", "remove"}
      BY <1>0, <1>3 DEF FlowInv, Handles, Req, Mon
    <2>2. phase[x] = "install"
      BY <1>3, <2>1, Workflows DEF FitOK, Removals
    <2> QED BY <1>3, <2>2 DEF Target, Req
  <1> QED BY <1>1, <1>2, <1>3

\* A step leaves every process recorded by the object that the manager holds.
LEMMA StepKeepsProcOK ==
    ASSUME IInv, OneRequestPerPlugin, FlowInv, MonInv, ProcInv, NEW t \in Threads, Step(t),
           NEW p \in Pids
    PROVE  ProcOK(p)'
  <1> DEFINE o == Target(t)
  <1>1. ProcStep(t, o)
    BY StepProc
  <1>2. /\ o \in Slots /\ obj[o].pid \in Pids \cup {None}
        /\ \A x \in Slots \ {o} : obj'[x] = obj[x]
        /\ UNCHANGED <<plugins, req>>
        /\ procs \in [Pids -> FullNames \cup {None}] /\ plugins \in [Names -> Slots \cup {None}]
        /\ pc[t] \in StepPc => steps[t] # <<>>
    <2>1. o \in Slots /\ \A x \in Slots \ {o} : obj'[x] = obj[x]
      BY StepObj
    <2>2. UNCHANGED <<plugins, req>>
      BY StepFrame DEF OnlySteps
    <2> QED BY <2>1, <2>2 DEF IInv, TypeOK, ObjType, WellFormed, StepOK
  <1>3. ASSUME pc[t] \in StepPc, Head(steps[t]) \in {"stop", "remove", "launch"}
        PROVE  /\ Handles(t) /\ Object(o) /\ plugins[req[o].name] = o
               /\ FullName(o) \in FullNames /\ FullName(o)[1] = req[o].name
    <2>1. Handles(t)
      BY <1>2, <1>3, WorkerHandles
    <2>2. Object(o) /\ plugins[req[o].name] = o
      BY <2>1, HandlerTarget
    <2> QED BY <2>1, <2>2 DEF Object, FullName, FullNames
  <1>4. PointOK(t) /\ ProcOK(p) /\ MarkOK(t)
    <2>1. PICK x \in Slots : t = Req(x) \/ t = Mon(x)
      BY DEF Threads, Req, Mon
    <2> QED BY <2>1 DEF FlowInv, ProcInv
  <1> HIDE DEF o
  <1> SUFFICES ASSUME procs'[p] # None
               PROVE  /\ plugins[procs'[p][1]] # None
                      /\ obj'[plugins[procs'[p][1]]].pid = p
                      /\ FullName(plugins[procs'[p][1]]) = procs'[p]
    BY <1>2 DEF ProcOK, FullName
  <1> DEFINE h == plugins[procs[p][1]]
  <1>5. ASSUME procs'[p] = procs[p], h = o => obj'[o].pid = obj[o].pid
        PROVE  /\ plugins[procs'[p][1]] # None
               /\ obj'[plugins[procs'[p][1]]].pid = p
               /\ FullName(plugins[procs'[p][1]]) = procs'[p]
    <2>1. h # None /\ obj[h].pid = p /\ FullName(h) = procs[p]
      BY <1>4, <1>5 DEF ProcOK
    <2>2. procs[p] \in FullNames /\ procs[p][1] \in Names /\ h \in Slots
      BY <1>2, <1>5, <2>1 DEF FullNames
    <2>3. obj'[h].pid = obj[h].pid
      BY <1>2, <1>5, <2>2
    <2> QED BY <1>5, <2>1, <2>3
  <1>6. ASSUME procs'[p] = FullName(o), obj'[o].pid = p, plugins[req[o].name] = o,
               FullName(o)[1] = req[o].name
        PROVE  /\ plugins[procs'[p][1]] # None
               /\ obj'[plugins[procs'[p][1]]].pid = p
               /\ FullName(plugins[procs'[p][1]]) = procs'[p]
    BY <1>2, <1>6
  <1>7. CASE procs' = procs /\ obj'[o].pid = obj[o].pid
    BY <1>5, <1>7
  <1>8. CASE /\ pc[t] = "exec" /\ Head(steps[t]) \in {"stop", "remove"}
             /\ procs' = IF Alive(o) THEN [procs EXCEPT ![obj[o].pid] = None] ELSE procs
             /\ obj' = obj
    <2>1. procs'[p] = procs[p]
      BY <1>2, <1>8
    <2> QED BY <1>5, <1>8, <2>1
  <1>9. CASE pc[t] = "mark" /\ procs' = procs /\ obj'[o].pid = None
    <2>1. h # o
      <3>1. SUFFICES ASSUME h = o PROVE FALSE
        OBVIOUS
      <3>2. obj[o].pid = p /\ FullName(o) = procs[p]
        BY <1>4, <1>9, <3>1 DEF ProcOK
      <3>3. Alive(o)
        BY <3>2 DEF Alive
      <3> QED BY <1>4, <1>9, <3>3 DEF MarkOK, o
    <2> QED BY <1>5, <1>9, <2>1
  <1>10. CASE /\ pc[t] = "exec" /\ Head(steps[t]) = "launch"
              /\ \E q \in Pids : SpawnsAt(o, q)
    <2>1. PICK q \in Pids : SpawnsAt(o, q)
      BY <1>10
    <2>2. CASE p = q
      <3>1. procs'[p] = FullName(o) /\ obj'[o].pid = p
        BY <1>2, <2>1, <2>2 DEF SpawnsAt
      <3> QED BY <1>3, <1>6, <1>10, <3>1 DEF StepPc
    <2>3. CASE p # q
      <3>1. procs'[p] = procs[p]
        BY <1>2, <2>1, <2>3 DEF SpawnsAt
      <3>2. obj[o].pid = None
        <4>1. PICK x \in Slots : t = Req(x) \/ t = Mon(x)
          BY DEF Threads, Req, Mon
        <4>2. phase[o] = "install"
          BY <1>2, <1>10, LauncherPhase DEF StepPc, o
        <4>3. CASE t = Req(x)
          <5>1. Handles(t) /\ FitOK(x)
            BY <1>3, <1>10 DEF StepPc, FlowInv
          <5>2. phase[x] \in {"install", "replace", "remove"}
            BY <4>3, <5>1 DEF Handles, Req, Mon
          <5>3. phase[x] = "install"
            BY <1>2, <1>10, <4>3, <5>1, <5>2, Workflows DEF FitOK, Removals, StepPc
          <5>4. o = x
            BY <4>3, <5>3 DEF o, Target, Req
          <5> QED BY <1>2, <1>10, <4>3, <5>3, <5>4 DEF ProcInv, PidOK, StepPc
        <4>4. CASE t = Mon(x)
          <5>1. o = x
            BY <4>4 DEF o, Target, Mon
          <5>2. steps[t] = <<"launch">>
            BY <1>2, <1>10, <4>4, Workflows DEF FlowInv, FitOK, Relaunches, StepPc
          <5> QED BY <1>10, <4>4, <5>1, <5>2 DEF ProcInv, PidOK
        <4> QED BY <4>1, <4>3, <4>4
      <3>3. h # o
        BY <1>4, <3>1, <3>2 DEF ProcOK
      <3> QED BY <1>5, <3>1, <3>3
    <2> QED BY <2>2, <2>3
  <1>11. ASSUME pc[t] = "socket", p # obj[o].pid
         PROVE  procs[p] # None => h # o
    BY <1>4, <1>11 DEF ProcOK
  <1>12. /\ Killed(o)[p] = IF p = obj[o].pid THEN None ELSE procs[p]
         /\ Killed(o) \in [Pids -> FullNames \cup {None}]
    BY <1>2 DEF Killed
  <1>13. CASE /\ pc[t] = "socket"
              /\ \E q \in Pids : /\ procs' = [Killed(o) EXCEPT ![q] = FullName(o)]
                                 /\ obj'[o].pid = q
    <2>1. PICK q \in Pids : /\ procs' = [Killed(o) EXCEPT ![q] = FullName(o)]
                            /\ obj'[o].pid = q
      BY <1>13
    <2>2. CASE p = q
      <3>1. procs'[p] = FullName(o) /\ obj'[o].pid = p
        BY <1>12, <2>1, <2>2
      <3> QED BY <1>3, <1>4, <1>6, <1>13, <3>1 DEF StepPc, PointOK
    <2>3. CASE p # q
      <3>1. procs'[p] = Killed(o)[p]
        BY <1>12, <2>1, <2>3
      <3> QED BY <1>5, <1>11, <1>12, <1>13, <3>1
    <2> QED BY <2>2, <2>3
  <1>14. CASE pc[t] = "socket" /\ procs' = Killed(o) /\ obj'[o].pid = obj[o].pid
    BY <1>5, <1>12, <1>14
  <1> QED BY <1>1, <1>7, <1>8, <1>9, <1>10, <1>13, <1>14 DEF ProcStep

\* Only a launch records a process.
LEMMA PidChange ==
    ASSUME IInv, FlowInv, ProcInv, NEW t \in Threads, Step(t), NEW x \in Slots,
           obj'[x].pid # obj[x].pid, obj'[x].pid # None
    PROVE  /\ x = Target(t) /\ Handles(t) /\ steps[t] # <<>> /\ Head(steps[t]) = "launch"
           /\ pc[t] \in {"exec", "socket"} /\ pc'[t] = IF pc[t] = "exec" THEN pc'[t] ELSE "connect"
           /\ pc'[t] \in {"socket", "connect"}
  <1>1. x = Target(t)
    BY StepObj
  <1>2. ProcStep(t, x)
    BY <1>1, StepProc
  <1>3. \/ /\ pc[t] = "exec" /\ Head(steps[t]) = "launch"
           /\ pc'[t] \in {"socket", "connect"}
        \/ pc[t] = "socket" /\ pc'[t] = "connect"
    BY <1>2 DEF ProcStep
  <1>4. PointOK(t) /\ StepOK(t)
    <2>1. PICK y \in Slots : t = Req(y) \/ t = Mon(y)
      BY DEF Threads, Req, Mon
    <2> QED BY <2>1 DEF FlowInv, IInv, WellFormed
  <1>5. Head(steps[t]) = "launch" /\ steps[t] # <<>> /\ pc[t] \in StepPc
    BY <1>3, <1>4 DEF PointOK, StepOK, StepPc
  <1>6. Handles(t)
    BY <1>5, WorkerHandles
  <1> QED BY <1>1, <1>3, <1>5, <1>6

\* A step keeps PidOK: a plugin is launched only when no process of it is recorded.
LEMMA StepKeepsPid ==
    ASSUME IInv, OneRequestPerPlugin, FlowInv, MonInv, ProcInv, NEW t \in Threads, Step(t),
           NEW s \in Slots
    PROVE  PidOK(s)'
  <1>1. PICK l, w : Transition(t, l, w)
    BY StepTransition
  <1>2. /\ pc[t] \in StepPc \cup {"run", "check"}
        /\ l \in StepPc \cup {"run", "failed"}
        /\ \A u \in Threads : pc'[u] = IF u = t THEN l ELSE pc[u]
        /\ \A u \in Threads : steps'[u] = IF u = t THEN w ELSE steps[u]
        /\ UNCHANGED <<plugins, phase, curr, req>>
    BY <1>1, TransitionPoint, StepFrame DEF Transition, OnlySteps
  <1>3. /\ Req(s) \in Threads /\ Mon(s) \in Threads /\ PidOK(s) /\ FitOK(s) /\ PlainOK(s)
        /\ ReqOK(s) /\ PointOK(Req(s)) /\ PointOK(Mon(s)) /\ RefOK(s)
    BY ThreadFacts DEF ProcInv, FlowInv, IInv, WellFormed
  <1>4. ASSUME phase'[s] \notin {"install", "load"} PROVE obj'[s].pid = None
    <2>1. phase[s] \notin {"install", "load"} /\ obj[s].pid = None
      BY <1>2, <1>3, <1>4 DEF PidOK
    <2>2. SUFFICES ASSUME obj'[s].pid # None PROVE FALSE
      OBVIOUS
    <2>3. /\ s = Target(t) /\ steps[t] # <<>> /\ Head(steps[t]) = "launch"
          /\ pc[t] \in {"exec", "socket"}
      BY <2>1, <2>2, PidChange
    <2> QED BY <2>1, <2>3, LauncherPhase
  <1>5. ASSUME NEW u \in Threads, u # t, Handles(u), obj[Target(u)].pid = None,
               Target(u) \in Slots
        PROVE  obj'[Target(u)].pid = None
    <2>1. SUFFICES ASSUME obj'[Target(u)].pid # None PROVE FALSE
      OBVIOUS
    <2>2. Target(u) = Target(t) /\ Handles(t)
      BY <1>5, <2>1, PidChange
    <2> QED BY <1>5, <2>2, OneHandler
  <1>6. ASSUME phase'[s] = "install", pc'[Req(s)] \in {"run", "exec"}, steps'[Req(s)] # <<>>
        PROVE  obj'[s].pid = None
    <2>1. phase[s] = "install"
      BY <1>2, <1>6
    <2>2. Target(Req(s)) = s
      BY <2>1 DEF Target, Req
    <2>3. CASE t = Req(s)
      <3>1. l \in {"run", "exec"} /\ w # <<>> /\ steps[t] \in Installs
        BY <1>2, <1>3, <1>6, <2>1, <2>3 DEF FitOK
      <3>2. pc[t] # "check"
        BY <1>3, <2>1, <2>3 DEF RefOK
      <3>3. pc[t] \notin {"store", "write", "clean", "mark", "socket", "connect"}
        BY <1>1, <1>3, <2>3, <3>1, Workflows DEF Transition, PointOK, Installs
      <3>4. pc[t] \in {"run", "exec"} /\ steps[t] # <<>> /\ l # "mark"
        BY <1>1, <3>1, <3>2, <3>3 DEF Transition, StepPc
      <3>5. obj[s].pid = None
        BY <1>3, <2>1, <2>3, <3>4 DEF PidOK
      <3>6. l \notin {"socket", "connect"}
        BY <3>1
      <3> QED BY <1>2, <1>3, <2>3, <3>5, <3>6, PidChange
    <2>4. CASE t # Req(s)
      <3>1. pc[Req(s)] \in {"run", "exec"} /\ steps[Req(s)] # <<>>
        BY <1>2, <1>3, <1>6, <2>4
      <3>2. obj[s].pid = None /\ Handles(Req(s))
        BY <1>3, <2>1, <3>1, RemoverHandles DEF PidOK, Working, Active
      <3> QED BY <1>3, <1>5, <2>2, <2>4, <3>2
    <2> QED BY <2>3, <2>4
  <1>7. ASSUME steps'[Mon(s)] = <<"launch">>, pc'[Mon(s)] \in {"run", "exec"}
        PROVE  obj'[s].pid = None
    <2>2. Target(Mon(s)) = s
      BY DEF Target, Mon
    <2>3. CASE t = Mon(s)
      <3>1. l \in {"run", "exec"} /\ w = <<"launch">> /\ steps[t] \in Relaunches
        BY <1>2, <1>3, <1>7, <2>3 DEF FitOK
      <3>2. CASE l = "exec"
        <4>1. pc[t] = "run" /\ steps[t] = <<"launch">>
          BY <1>1, <3>1, <3>2 DEF Transition
        <4>2. obj[s].pid = None
          BY <1>3, <2>3, <4>1 DEF PidOK
        <4> QED BY <4>1, <4>2, PidChange
      <3>3. CASE l = "run"
        <4>1. w # <<>> /\ w # <<"stop", "launch">>
          BY <3>1, Workflows
        <4>2. /\ w = Tail(steps[t]) /\ steps[t] # <<>>
              /\ \/ pc[t] = "exec" /\ Head(steps[t]) \in {"download", "unpack"}
                 \/ pc[t] = "mark" /\ Head(steps[t]) # "remove"
                 \/ pc[t] \in {"clean", "store", "write"}
          BY <1>1, <3>3, <4>1 DEF Transition
        <4>3. Head(steps[t]) = "stop"
          BY <3>1, <4>1, <4>2, Workflows DEF Relaunches
        <4>4. pc[t] = "mark"
          BY <1>3, <2>3, <4>2, <4>3 DEF PointOK
        <4>5. ProcStep(t, s)
          BY <2>2, <2>3, StepProc
        <4> QED BY <4>4, <4>5 DEF ProcStep
      <3> QED BY <3>1, <3>2, <3>3
    <2>4. CASE t # Mon(s)
      <3>1. pc[Mon(s)] \in {"run", "exec"} /\ steps[Mon(s)] = <<"launch">>
        BY <1>2, <1>3, <1>7, <2>4
      <3>2. obj[s].pid = None /\ Handles(Mon(s))
        BY <1>3, <3>1 DEF PidOK, Handles, Dead
      <3> QED BY <1>3, <1>5, <2>2, <2>4, <3>2
    <2> QED BY <2>3, <2>4
  <1>8. ASSUME Working(s)', phase'[s] \in {"replace", "remove"},
               pc'[Req(s)] = "clean" \/ (pc'[Req(s)] = "run" /\ steps'[Req(s)] = <<>>)
        PROVE  obj'[curr[s]].pid = None
    <2>1. phase[s] \in {"replace", "remove"} /\ curr[s] \in Slots
      BY <1>2, <1>3, <1>8 DEF IInv, TypeOK, ReqOK
    <2>2. Target(Req(s)) = curr[s]
      BY <2>1 DEF Target, Req
    <2>3. CASE t = Req(s)
      <3>1. /\ l = "clean" \/ (l = "run" /\ w = <<>>)
            /\ steps[t] \in Removals /\ pc[t] # "check"
        BY <1>2, <1>3, <1>8, <2>1, <2>3 DEF FitOK, RefOK
      <3>2. CASE pc[t] = "mark"
        BY <2>2, <2>3, <3>2, StepProc DEF ProcStep
      <3>3. CASE pc[t] # "mark"
        <4>1. l = "run" /\ w = <<>> /\ steps[t] # <<>>
          BY <1>1, <3>1, <3>3 DEF Transition
        <4>2. Head(steps[t]) = "remove"
          BY <3>1, <4>1, Workflows DEF Removals
        <4>3. pc[t] = "clean"
          BY <1>1, <1>3, <2>3, <3>1, <3>3, <4>1, <4>2 DEF Transition, PointOK
        <4>4. Working(s)
          BY <2>3, <4>3 DEF Working, Active
        <4>5. obj[curr[s]].pid = None
          BY <1>3, <2>1, <2>3, <4>3, <4>4 DEF PidOK
        <4> QED BY <2>1, <4>3, <4>5, PidChange
      <3> QED BY <3>2, <3>3
    <2>4. CASE t # Req(s)
      <3>1. pc[Req(s)] = "clean" \/ (pc[Req(s)] = "run" /\ steps[Req(s)] = <<>>)
        BY <1>2, <1>3, <1>8, <2>4
      <3>2. Working(s)
        BY <3>1 DEF Working, Active
      <3>3. obj[curr[s]].pid = None /\ Handles(Req(s))
        BY <1>3, <2>1, <3>1, <3>2, RemoverHandles DEF PidOK
      <3> QED BY <1>3, <1>5, <2>1, <2>2, <2>4, <3>3
    <2> QED BY <2>3, <2>4
  <1>9. obj'[curr'[s]].pid = obj'[curr[s]].pid
    BY <1>2
  <1> QED BY <1>4, <1>6, <1>7, <1>8, <1>9 DEF PidOK

\* A step keeps MarkOK: nobody else starts the process of a plugin that is being stopped.
LEMMA StepKeepsMark ==
    ASSUME IInv, OneRequestPerPlugin, FlowInv, MonInv, ProcInv, NEW t \in Threads, Step(t),
           NEW u \in Threads, MarkOK(u)
    PROVE  MarkOK(u)'
  <1> DEFINE o == Target(t)
             v == Target(u)
  <1>1. PICK l, w : Transition(t, l, w)
    BY StepTransition
  <1>2. /\ \A x \in Threads : pc'[x] = IF x = t THEN l ELSE pc[x]
        /\ UNCHANGED <<plugins, phase, curr, req>>
    BY <1>1, StepFrame DEF Transition, OnlySteps
  <1>3. Target(u)' = v
    BY <1>2 DEF Target
  <1>3a. FullName(v)' = FullName(v)
    <2>1. req' = req
      BY <1>2
    <2> QED BY <1>3, <2>1, Zenon DEF FullName
  <1>4. SUFFICES ASSUME pc'[u] = "mark"
                 PROVE  ~(obj'[v].pid # None /\ procs'[obj'[v].pid] = FullName(v))
    BY <1>3, <1>3a DEF MarkOK, Alive, FullName, Target
  <1>5. ProcStep(t, o)
    BY StepProc
  <1>6. /\ o \in Slots /\ \A x \in Slots \ {o} : obj'[x] = obj[x]
        /\ procs \in [Pids -> FullNames \cup {None}]
        /\ obj \in [Slots -> ObjType]
    BY StepObj DEF IInv, TypeOK
  <1>7. CASE u = t
    <2>1. pc'[t] = "mark"
      BY <1>4, <1>7
    <2>2. /\ pc[t] = "exec" /\ obj' = obj
          /\ procs' = IF Alive(o) THEN [procs EXCEPT ![obj[o].pid] = None] ELSE procs
      BY <1>1, <1>2, <1>5, <2>1 DEF ProcStep, Transition
    <2>3. CASE Alive(o)
      <3>1. obj[o].pid \in Pids
        BY <1>6, <2>3 DEF Alive, ObjType
      <3>2. procs'[obj[o].pid] = None
        BY <1>6, <2>2, <2>3, <3>1
      <3>3. FullName(o) # None
        <4>1. StepData(t)
          BY <1>6, <2>2, StepFacts DEF StepPc
        <4> QED BY <4>1, NoneAssumption DEF StepData, FullNames
      <3> QED BY <1>7, <2>2, <3>2, <3>3
    <2>4. CASE ~Alive(o)
      BY <1>7, <2>2, <2>4 DEF Alive
    <2> QED BY <2>3, <2>4
  <1>8. CASE u # t
    <2>1. pc[u] = "mark" /\ ~Alive(v)
      BY <1>2, <1>4, <1>8 DEF MarkOK
    <2>2. PointOK(u) /\ StepOK(u)
      <3>1. PICK y \in Slots : u = Req(y) \/ u = Mon(y)
        BY DEF Threads, Req, Mon
      <3> QED BY <3>1 DEF FlowInv, IInv, WellFormed
    <2>3. Handles(u)
      BY <2>1, <2>2, WorkerHandles DEF PointOK, StepOK, StepPc
    <2>4. v \in Slots
      BY <2>3, HandlerTarget
    <2>5. ASSUME obj'[v].pid # obj[v].pid PROVE obj'[v].pid = None
      <3>1. SUFFICES ASSUME obj'[v].pid # None PROVE FALSE
        OBVIOUS
      <3>2. v = o /\ Handles(t)
        BY <2>4, <2>5, <3>1, PidChange
      <3> QED BY <1>8, <2>3, <3>2, OneHandler
    <2>6. ASSUME NEW p \in Pids, procs'[p] = FullName(v), procs[p] # FullName(v)
          PROVE  procs'[p] = None
      <3>1. SUFFICES ASSUME procs'[p] # None PROVE FALSE
        OBVIOUS
      <3>2. /\ pc[t] \in StepPc /\ steps[t] # <<>>
            /\ Head(steps[t]) = "launch" /\ procs'[p] = FullName(o)
        <4>1. PointOK(t) /\ StepOK(t)
          <5>1. PICK y \in Slots : t = Req(y) \/ t = Mon(y)
            BY DEF Threads, Req, Mon
          <5> QED BY <5>1 DEF FlowInv, IInv, WellFormed
        <4>2. procs'[p] # procs[p]
          BY <2>6
        <4>3. /\ Killed(o) \in [Pids -> FullNames \cup {None}]
              /\ Killed(o)[p] \in {procs[p], None}
          BY <1>6 DEF Killed
        <4>4. \/ /\ pc[t] = "exec" /\ Head(steps[t]) = "launch"
                 /\ \E q \in Pids : SpawnsAt(o, q)
              \/ /\ pc[t] = "socket"
                 /\ \E q \in Pids : procs' = [Killed(o) EXCEPT ![q] = FullName(o)]
          BY <1>5, <1>6, <3>1, <4>2, <4>3 DEF ProcStep
        <4>5. procs'[p] = FullName(o)
          BY <1>6, <3>1, <4>2, <4>3, <4>4 DEF SpawnsAt
        <4> QED BY <4>1, <4>4, <4>5 DEF PointOK, StepOK, StepPc
      <3>3. Handles(t)
        BY <3>2, WorkerHandles
      <3>4. req[o].name = req[v].name
        BY <2>6, <3>2 DEF FullName
      <3> QED BY <1>8, <2>3, <3>3, <3>4, OneHandler
    <2>7. CASE obj'[v].pid = obj[v].pid
      <3>1. SUFFICES ASSUME obj[v].pid # None, procs'[obj[v].pid] = FullName(v)
                     PROVE  FALSE
        BY <2>7
      <3>2. obj[v].pid \in Pids /\ procs[obj[v].pid] # FullName(v)
        BY <1>6, <2>1, <2>4, <3>1 DEF Alive, ObjType
      <3>3. procs'[obj[v].pid] = None /\ FullName(v) = None
        BY <2>6, <3>1, <3>2
      <3>4. FullName(v) \in Names \X Revs
        BY <2>3, HandlerTarget DEF FullName, Object
      <3> QED BY <3>3, <3>4, NoneAssumption
    <2> QED BY <2>5, <2>7
  <1> QED BY <1>7, <1>8

\* ProcInv stays when one request moves, no process is started, no pid is recorded, and a name
\* whose entry in plugins changes has no process.
LEMMA ProcFrame ==
    ASSUME IInv, FlowInv, MonInv, ProcInv, NEW s \in Slots, restarts' = restarts,
           \A x \in Slots : obj'[x].pid = obj[x].pid,
           \A x \in Slots \ {s} : /\ pc'[Req(x)] = pc[Req(x)] /\ steps'[Req(x)] = steps[Req(x)]
                                  /\ phase'[x] = phase[x] /\ curr'[x] = curr[x]
                                  /\ req'[x] = req[x],
           \A x \in Slots : /\ steps'[Mon(x)] = steps[Mon(x)]
                            /\ \/ pc'[Mon(x)] = pc[Mon(x)]
                               \/ pc'[Mon(x)] \notin {"run", "exec", "mark"},
           \A p \in Pids : procs'[p] \in {procs[p], None},
           \A n \in Names : \/ plugins'[n] = plugins[n]
                            \/ \A p \in Pids : procs'[p] # None => procs'[p][1] # n,
           req'[s] = req[s] \/ phase[s] = None,
           \/ pc'[Req(s)] # "mark"
           \/ /\ pc'[Req(s)] = pc[Req(s)] /\ phase'[s] = phase[s] /\ curr'[s] = curr[s]
              /\ req'[s] = req[s],
           PidOK(s)', PlainOK(s)'
    PROVE  ProcInv'
  <1>1. ASSUME NEW x \in Slots, phase[x] # None \/ x # s
        PROVE  FullName(x)' = FullName(x)
    BY <1>1 DEF FullName
  <1>2. ASSUME NEW p \in Pids PROVE ProcOK(p)'
    <2> SUFFICES ASSUME procs'[p] # None
                 PROVE  /\ plugins'[procs'[p][1]] # None
                        /\ obj'[plugins'[procs'[p][1]]].pid = p
                        /\ FullName(plugins[procs[p][1]])' = procs'[p]
                        /\ plugins'[procs'[p][1]] = plugins[procs[p][1]]
      BY DEF ProcOK, FullName
    <2> DEFINE n == procs[p][1]
               h == plugins[n]
    <2>1. procs'[p] = procs[p] /\ ProcOK(p)
      BY DEF ProcInv
    <2>2. n \in Names
      BY <2>1 DEF IInv, TypeOK, FullNames
    <2>3. plugins'[n] = h
      BY <2>1, <2>2
    <2>4. h \in Slots /\ obj[h].pid = p /\ FullName(h) = procs[p]
      BY <2>1, <2>2 DEF ProcOK, IInv, TypeOK
    <2>5. phase[h] # None
      BY <2>2, <2>4 DEF FlowInv, RefOK
    <2>6. FullName(h)' = FullName(h)
      <3> HIDE DEF h
      <3>1. FullName(h)' = <<req'[h].name, req'[h].rev>>
        BY <2>3 DEF FullName, h
      <3> QED BY <2>4, <2>5, <3>1 DEF FullName
    <2> QED BY <2>1, <2>3, <2>4, <2>6
  <1>3. ASSUME NEW x \in Slots PROVE PidOK(x)' /\ PlainOK(x)'
    <2>1. CASE x = s
      BY <2>1
    <2>2. CASE x # s
      <3>1. PidOK(x) /\ PlainOK(x) /\ ReqOK(x) /\ curr[x] \in Slots \cup {None}
        BY DEF ProcInv, IInv, WellFormed, TypeOK
      <3>2. /\ pc'[Req(x)] = pc[Req(x)] /\ steps'[Req(x)] = steps[Req(x)]
            /\ phase'[x] = phase[x] /\ curr'[x] = curr[x] /\ req'[x] = req[x]
            /\ obj'[x].pid = obj[x].pid
            /\ curr[x] \in Slots => obj'[curr'[x]].pid = obj[curr[x]].pid
            /\ steps'[Mon(x)] = steps[Mon(x)]
            /\ pc'[Mon(x)] \in {"run", "exec"} => pc[Mon(x)] = pc'[Mon(x)]
        BY <2>2
      <3>3. PlainOK(x)'
        BY <3>1, <3>2 DEF PlainOK
      <3>4. PidOK(x)'
        BY <3>1, <3>2 DEF PidOK, ReqOK, Working, Active
      <3> QED BY <3>3, <3>4
    <2> QED BY <2>1, <2>2
  <1>4. ASSUME NEW t \in Threads, pc[t] = "mark", NEW v \in Slots, Target(t) = v,
               FullName(v)' = FullName(v), MarkOK(t)
        PROVE  ~(obj'[v].pid # None /\ procs'[obj'[v].pid] = FullName(v))
    <2>1. FullName(v) \in FullNames /\ obj[v].pid \in Pids \cup {None}
      BY <1>4, StepFacts DEF StepData, StepPc
    <2>2. FullName(v) # None
      BY <2>1, NoneAssumption DEF FullNames
    <2>3. ~(obj[v].pid # None /\ procs[obj[v].pid] = FullName(v))
      BY <1>4 DEF MarkOK, Alive
    <2> QED BY <2>1, <2>2, <2>3
  <1>5. ASSUME NEW x \in Slots PROVE MarkOK(Mon(x))'
    <2> SUFFICES ASSUME pc'[Mon(x)] = "mark"
                 PROVE  ~(obj'[x].pid # None /\ procs'[obj'[x].pid] = FullName(x)')
      BY DEF MarkOK, Alive, Target, Mon, FullName
    <2>1. pc[Mon(x)] = "mark" /\ Target(Mon(x)) = x /\ Mon(x) \in Threads /\ MarkOK(Mon(x))
      BY ThreadFacts DEF Target, Mon, ProcInv
    <2>2. plugins[req[x].name] = x /\ req[x].name \in Names
      BY <2>1, LiveFacts DEF Dead, Object
    <2>3. phase[x] # None
      BY <2>2 DEF FlowInv, RefOK
    <2>4. FullName(x)' = FullName(x)
      BY <1>1, <2>3
    <2> QED BY <1>4, <2>1, <2>4
  <1>6. ASSUME NEW x \in Slots PROVE MarkOK(Req(x))'
    <2> SUFFICES ASSUME pc'[Req(x)] = "mark" PROVE MarkOK(Req(x))'
      BY DEF MarkOK
    <2>1. /\ pc[Req(x)] = "mark" /\ MarkOK(Req(x)) /\ Req(x) \in Threads
          /\ phase'[x] = phase[x] /\ curr'[x] = curr[x]
          /\ x # s \/ req'[s] = req[s]
      BY ThreadFacts DEF ProcInv
    <2>2. PICK v : v = Target(Req(x))
      OBVIOUS
    <2>3. v \in Slots
      BY <2>1, <2>2, StepFacts DEF StepData, StepPc
    <2>4. Target(Req(x))' = v
      BY <2>1, <2>2 DEF Target, Req
    <2>5. v = x \/ phase[v] # None
      <3>1. v = x \/ v = curr[x]
        BY <2>2 DEF Target, Req
      <3> QED BY <2>3, <3>1 DEF FlowInv, RefOK
    <2>6. FullName(v)' = FullName(v)
      <3>1. v # s \/ req'[s] = req[s]
        BY <2>1, <2>3, <2>5
      <3>2. req'[v] = req[v]
        BY <2>3, <3>1
      <3> QED BY <3>2 DEF FullName
    <2>7. ~(obj'[v].pid # None /\ procs'[obj'[v].pid] = FullName(v)')
      BY <1>4, <2>1, <2>2, <2>3, <2>6
    <2> QED BY <2>4, <2>7 DEF MarkOK, Alive, FullName
  <1> QED BY <1>2, <1>3, <1>5, <1>6 DEF ProcInv

\* A step keeps ProcInv.
LEMMA StepKeepsProc ==
    ASSUME IInv, OneRequestPerPlugin, FlowInv, MonInv, ProcInv, NEW t \in Threads, Step(t)
    PROVE  ProcInv'
  <1>1. UNCHANGED <<phase, req, restarts>>
    BY StepFrame DEF OnlySteps, chores
  <1>2. \A s \in Slots : PlainOK(s)'
    <2>1. PICK l, w : Transition(t, l, w)
      BY StepTransition
    <2>2. l # "dispatch" /\ \A u \in Threads : pc'[u] = IF u = t THEN l ELSE pc[u]
      BY <2>1, TransitionPoint DEF Transition
    <2> QED BY <1>1, <2>2, ThreadFacts DEF ProcInv, PlainOK
  <1>3. \A p \in Pids : ProcOK(p)'
    BY StepKeepsProcOK
  <1>4. \A s \in Slots : PidOK(s)'
    BY StepKeepsPid
  <1>5. ASSUME NEW u \in Threads, MarkOK(u) PROVE MarkOK(u)'
    BY <1>5, StepKeepsMark
  <1>6. \A s \in Slots : MarkOK(Req(s))' /\ MarkOK(Mon(s))'
    BY <1>5, ThreadFacts DEF ProcInv
  <1> QED BY <1>1, <1>2, <1>3, <1>4, <1>6 DEF ProcInv

\* A process of a plugin belongs to the object that the manager holds under its name.
LEMMA NoProcess ==
    ASSUME IInv, ProcInv, NEW n \in Names, NEW p \in Pids, procs[p] # None, procs[p][1] = n
    PROVE  /\ plugins[n] \in Slots /\ obj[plugins[n]].pid = p
           /\ FullName(plugins[n]) = procs[p]
  BY DEF ProcInv, ProcOK, IInv, TypeOK

\* configurePlugin keeps ProcInv: it adds an object to plugins only when the plugin has none, and
\* then no process.
LEMMA configurePluginProc ==
    ASSUME IInv, FlowInv, MonInv, ProcInv, NEW s \in Slots, configurePlugin(s)
    PROVE  ProcInv'
  <1>1. /\ pc[Req(s)] = "dispatch" /\ phase[s] = None /\ req[s].name \in Names /\ RefOK(s)
    BY configurePluginEffect, DispatchFacts DEF FlowInv
  <1>2. UNCHANGED <<procs, restarts>>
    BY DEF configurePlugin, host, chores
  <1>3. PICK l, w, p, c : /\ ReqAt(s, l, w) /\ PhaseAt(s, p, c) /\ Revised(s)
                          /\ p \in {None, "prelaunch", "install", "remove"}
                          /\ l \in {"finish", "run", "unmonitor"}
                          /\ p = "remove" => l = "unmonitor"
    BY configurePluginEffect DEF Refused, StartsUpgrade, StartsInstall, StartsRemove
  <1>4. \A x \in Slots : obj'[x].pid = obj[x].pid
    BY configurePluginEffect DEF Refused, StartsUpgrade, StartsInstall, StartsRemove, PendingAt
  <1>5. \A n \in Names : \/ plugins'[n] = plugins[n]
                         \/ \A q \in Pids : procs'[q] # None => procs'[q][1] # n
    <2>1. CASE StartsInstall(s)
      <3>1. plugins[req[s].name] = None /\ \A n \in Names \ {req[s].name} : plugins'[n] = plugins[n]
        BY <2>1 DEF StartsInstall, MapAt
      <3>2. \A q \in Pids : procs[q] # None => procs[q][1] # req[s].name
        BY <1>1, <3>1, NoProcess
      <3> QED BY <1>2, <3>1, <3>2
    <2>2. CASE ~StartsInstall(s)
      BY <2>2, configurePluginEffect DEF Refused, StartsUpgrade, StartsRemove
    <2> QED BY <2>1, <2>2
  <1>6. obj[s].pid = None /\ pc[Mon(s)] = "off" /\ PlainOK(s)
    BY <1>1 DEF ProcInv, PidOK, RefOK
  <1>7. PidOK(s)'
    BY <1>3, <1>4, <1>6 DEF PidOK, ReqAt, PhaseAt
  <1>8. PlainOK(s)'
    BY <1>3, <1>6 DEF PlainOK, PhaseAt, ReqAt
  <1>9. \A x \in Slots \ {s} : /\ pc'[Req(x)] = pc[Req(x)] /\ steps'[Req(x)] = steps[Req(x)]
                               /\ phase'[x] = phase[x] /\ curr'[x] = curr[x]
                               /\ req'[x] = req[x]
    BY <1>3 DEF ReqAt, PhaseAt, Revised
  <1>10. \A x \in Slots : steps'[Mon(x)] = steps[Mon(x)] /\ pc'[Mon(x)] = pc[Mon(x)]
    BY <1>3 DEF ReqAt
  <1>11. pc'[Req(s)] # "mark"
    BY <1>3 DEF ReqAt
  <1> QED BY <1>1, <1>2, <1>4, <1>5, <1>7, <1>8, <1>9, <1>10, <1>11, ProcFrame

\* stopMonitoring, UnscheduleJob and Finish keep ProcInv.
LEMMA RequestMovesProc ==
    ASSUME IInv, FlowInv, MonInv, ProcInv, NEW s \in Slots,
           stopMonitoring(s) \/ UnscheduleJob(s) \/ Finish(s)
    PROVE  ProcInv'
  <1>1. UNCHANGED <<plugins, obj, phase, curr, req, procs, restarts>>
    BY DEF stopMonitoring, UnscheduleJob, Finish, host, chores
  <1>2. /\ pc \in [Threads -> ReqPc \cup MonPc] /\ steps \in [Threads -> Seq(StepKind)]
        /\ \A x \in Slots : Req(x) \in Threads /\ Mon(x) \in Threads
        /\ \A x, y \in Slots : Mon(x) # Req(y) /\ (Req(x) = Req(y) <=> x = y)
    BY ThreadFacts DEF IInv, TypeOK
  <1>3. /\ \A x \in Slots \ {s} : pc'[Req(x)] = pc[Req(x)] /\ steps'[Req(x)] = steps[Req(x)]
        /\ \A x \in Slots : /\ steps'[Mon(x)] = steps[Mon(x)]
                            /\ pc'[Mon(x)] = pc[Mon(x)] \/ pc'[Mon(x)] = "gone"
        /\ \/ pc'[Req(s)] \in {"unschedule", "done"}
           \/ pc'[Req(s)] = "run" /\ steps'[Req(s)] = <<"remove">> /\ phase[s] # "install"
    <2>1. CASE UnscheduleJob(s)
      <3>1. pc[Req(s)] = "unschedule"
        BY <2>1 DEF UnscheduleJob
      <3>2. phase[s] # "install"
        BY <3>1, ReqFacts DEF ReqOK
      <3>3. \A x \in Slots : pc'[Req(x)] = IF x = s THEN "run" ELSE pc[Req(x)]
        BY <2>1, UnscheduleEffect
      <3>4. \A x \in Slots : steps'[Req(x)] = IF x = s THEN <<"remove">> ELSE steps[Req(x)]
        BY <2>1, UnscheduleEffect
      <3>5. \A x \in Slots : steps'[Mon(x)] = steps[Mon(x)]
        BY <2>1, UnscheduleEffect
      <3>6. \A x \in Slots : pc'[Mon(x)] = pc[Mon(x)] \/ pc'[Mon(x)] = "gone"
        BY <2>1, UnscheduleEffect
      <3> QED BY <3>2, <3>3, <3>4, <3>5, <3>6
    <2>2. CASE stopMonitoring(s)
      <3>1. pc[Req(s)] = "unmonitor"
        BY <2>2 DEF stopMonitoring
      <3>2. phase[s] # "install"
        BY <3>1, ReqFacts DEF ReqOK
      <3> QED BY <1>2, <2>2, <3>2 DEF stopMonitoring, RunSteps, Goto
    <2>3. CASE Finish(s)
      BY <1>2, <2>3 DEF Finish, Goto
    <2> QED BY <2>1, <2>2, <2>3
  <1>4. PidOK(s) /\ PlainOK(s)
    BY DEF ProcInv
  <1>5. PidOK(s)'
    BY <1>1, <1>3, <1>4, Workflows DEF PidOK, Working, Active
  <1>6. PlainOK(s)'
    BY <1>1, <1>3, <1>4 DEF PlainOK
  <1> QED BY <1>1, <1>3, <1>5, <1>6, ProcFrame

\* What a request does after a call of runSteps keeps ProcInv: it takes an object out of plugins
\* only when its process has been killed or stopped.
LEMMA AfterStepsProc ==
    ASSUME IInv, FlowInv, MonInv, ProcInv, NEW s \in Slots,
           \/ installed(s) \/ installFailed(s) \/ preLaunched(s) \/ upgradeFailed(s)
           \/ replaced(s) \/ removed(s) \/ removeFailed(s) \/ applied(s) \/ loaded(s)
    PROVE  ProcInv'
  <1> DEFINE n == req[s].name
  <1>0. /\ plugins \in [Names -> Slots \cup {None}] /\ phase \in [Slots -> PhaseType]
        /\ procs \in [Pids -> FullNames \cup {None}]
    BY DEF IInv, TypeOK
  <1>1. ASSUME NEW p, StepsDone(s, p) \/ StepsFailed(s, p), NEW l, Leaves(s, l),
               l \in {"finish", "unmonitor", "launch"},
               pc'[Mon(s)] \in {pc[Mon(s)], "schedule"}, restarts' = restarts,
               \A x \in Slots : obj'[x].pid = obj[x].pid,
               \A q \in Pids : procs'[q] \in {procs[q], None},
               \/ plugins' = plugins
               \/ /\ plugins' = [plugins EXCEPT ![n] = None]
                  /\ \A q \in Pids : procs'[q] # None => procs'[q][1] # n,
               \/ phase' = phase
               \/ p = "prelaunch" /\ phase' = [phase EXCEPT ![s] = "replace"]
        PROVE  ProcInv'
    <2>1. /\ phase[s] = p /\ n \in Names /\ pc[Mon(s)] = "off"
      BY <1>1, OverFacts
    <2>2. \A m \in Names : \/ plugins'[m] = plugins[m]
                           \/ \A q \in Pids : procs'[q] # None => procs'[q][1] # m
      BY <1>0, <1>1
    <2>3. /\ \A x \in Slots \ {s} : /\ pc'[Req(x)] = pc[Req(x)] /\ steps'[Req(x)] = steps[Req(x)]
                                    /\ phase'[x] = phase[x] /\ curr'[x] = curr[x]
                                    /\ req'[x] = req[x]
          /\ \A x \in Slots : /\ steps'[Mon(x)] = steps[Mon(x)]
                              /\ \/ pc'[Mon(x)] = pc[Mon(x)]
                                 \/ pc'[Mon(x)] \notin {"run", "exec", "mark"}
          /\ req'[s] = req[s] /\ pc'[Req(s)] = l
      BY <1>0, <1>1 DEF Leaves
    <2>4. PidOK(s) /\ PlainOK(s)
      BY DEF ProcInv
    <2>5. PlainOK(s)'
      BY <1>0, <1>1, <2>3, <2>4 DEF PlainOK
    <2>6. /\ pc'[Mon(s)] \notin {"run", "exec"}
          /\ phase'[s] \in {"install", "load"} <=> p \in {"install", "load"}
      BY <1>0, <1>1, <2>1
    <2>7. PidOK(s)'
      BY <1>1, <2>1, <2>3, <2>4, <2>6 DEF PidOK
    <2> QED BY <1>1, <2>2, <2>3, <2>5, <2>7, ProcFrame
  <1>2. CASE installed(s)
    <2>1. /\ Leaves(s, "finish") /\ pc'[Mon(s)] = "schedule" /\ StepsDone(s, "install")
          /\ UNCHANGED <<plugins, phase, procs, restarts>> /\ resetPendingStatus(s)
      BY <1>2, LeavesEffect DEF installed, host, chores
    <2>2. \A x \in Slots : obj'[x].pid = obj[x].pid
      BY <2>1, ResetEffect DEF ObjCalm
    <2> QED BY <1>1, <2>1, <2>2
  <1>3. CASE loaded(s)
    BY <1>3 DEF loaded, StepsDone, StepsFailed, ProcInv, PlainOK
  <1>4. CASE installFailed(s)
    <2>1. /\ StepsFailed(s, "install") /\ Leaves(s, "finish") /\ pc'[Mon(s)] = pc[Mon(s)]
          /\ plugins' = [plugins EXCEPT ![n] = None] /\ resetPendingStatus(s)
          /\ UNCHANGED <<phase, restarts>>
          /\ procs' = IF obj[s].pid = None THEN procs ELSE [procs EXCEPT ![obj[s].pid] = None]
      BY <1>4, LeavesEffect DEF installFailed, Conclude, chores
    <2>2. plugins[n] = s /\ n \in Names
      BY <2>1, OverFacts DEF PlaceOK
    <2>3. \A x \in Slots : obj'[x].pid = obj[x].pid
      BY <2>1, ResetEffect DEF ObjCalm
    <2>4. ASSUME NEW q \in Pids PROVE procs'[q] = IF q = obj[s].pid THEN None ELSE procs[q]
      BY <1>0, <2>1
    <2>5. ASSUME NEW q \in Pids, procs'[q] # None, procs'[q][1] = n PROVE FALSE
      <3>1. procs[q] # None /\ procs[q][1] = n /\ q # obj[s].pid
        BY <2>4, <2>5
      <3> QED BY <2>2, <3>1, NoProcess
    <2>6. \A q \in Pids : procs'[q] \in {procs[q], None}
      BY <2>4
    <2> QED BY <1>1, <2>1, <2>3, <2>5, <2>6
  <1>5. CASE preLaunched(s)
    <2>1. /\ StepsDone(s, "prelaunch") /\ Leaves(s, "unmonitor") /\ pc'[Mon(s)] = pc[Mon(s)]
          /\ phase' = [phase EXCEPT ![s] = "replace"]
          /\ UNCHANGED <<plugins, obj, procs, restarts>>
      BY <1>5, LeavesEffect DEF preLaunched, memory, host, chores
    <2> QED BY <1>1, <2>1
  <1>6. CASE upgradeFailed(s)
    <2>1. /\ \E p : StepsFailed(s, p)
          /\ Leaves(s, "finish") /\ pc'[Mon(s)] = pc[Mon(s)] /\ resetPendingStatus(s)
          /\ UNCHANGED <<plugins, phase, procs, restarts>>
      BY <1>6, LeavesEffect DEF upgradeFailed, Conclude, host, chores
    <2>2. \A x \in Slots : obj'[x].pid = obj[x].pid
      BY <2>1, ResetEffect DEF ObjCalm
    <2> QED BY <1>1, <2>1, <2>2
  <1>7. ASSUME StepsDone(s, "replace") \/ StepsDone(s, "remove"), procs' = procs
        PROVE  \A q \in Pids : procs'[q] # None => procs'[q][1] # n
    <2>1. /\ Working(s) /\ plugins[n] = curr[s] /\ n \in Names
          /\ phase[s] \in {"replace", "remove"} /\ pc[Req(s)] = "run" /\ steps[Req(s)] = <<>>
      BY <1>7, OverFacts DEF PlaceOK, StepsDone
    <2>2. obj[curr[s]].pid = None
      BY <2>1 DEF ProcInv, PidOK
    <2> QED BY <1>7, <2>1, <2>2, NoProcess
  <1>8. CASE replaced(s)
    <2>1. /\ StepsDone(s, "replace") /\ Leaves(s, "launch") /\ pc'[Mon(s)] = pc[Mon(s)]
          /\ plugins' = [plugins EXCEPT ![n] = None]
          /\ UNCHANGED <<phase, obj, procs, restarts>>
      BY <1>8, LeavesEffect DEF replaced, host, chores
    <2> QED BY <1>1, <1>7, <2>1
  <1>9. CASE removed(s)
    <2>1. /\ StepsDone(s, "remove") /\ Leaves(s, "finish") /\ pc'[Mon(s)] = pc[Mon(s)]
          /\ plugins' = [plugins EXCEPT ![n] = None]
          /\ UNCHANGED <<phase, obj, procs, restarts>>
      BY <1>9, LeavesEffect DEF removed, Conclude, chores
    <2> QED BY <1>1, <1>7, <2>1
  <1>10. CASE removeFailed(s)
    <2>1. /\ StepsFailed(s, "remove") /\ Leaves(s, "finish") /\ pc'[Mon(s)] = pc[Mon(s)]
          /\ UNCHANGED <<plugins, phase, obj, procs, restarts>>
      BY <1>10, LeavesEffect DEF removeFailed, Conclude, memory, host, chores
    <2> QED BY <1>1, <2>1
  <1>11. CASE applied(s)
    BY <1>11 DEF applied, StepsDone, StepsFailed, ProcInv, PlainOK
  <1> QED BY <1>2, <1>3, <1>4, <1>5, <1>6, <1>8, <1>9, <1>10, <1>11

\* launchUpgrade keeps ProcInv.
LEMMA launchUpgradeProc ==
    ASSUME IInv, FlowInv, MonInv, ProcInv, NEW s \in Slots, launchUpgrade(s)
    PROVE  ProcInv'
  <1>1. /\ phase[s] = "replace" /\ req[s].name \in Names /\ pc[Mon(s)] = "off"
        /\ ReqAt(s, "run", <<"launch">>) /\ PhaseAt(s, "install", curr[s])
        /\ MapAt(req[s].name, s) /\ plugins[req[s].name] = None /\ req' = req
        /\ UNCHANGED <<obj, procs, restarts>>
    BY launchUpgradeEffect DEF launchUpgrade, host, chores
  <1>2. \A q \in Pids : procs'[q] # None => procs'[q][1] # req[s].name
    BY <1>1, NoProcess
  <1>3. obj[s].pid = None /\ PlainOK(s)
    BY <1>1 DEF ProcInv, PidOK
  <1>4. PidOK(s)' /\ PlainOK(s)'
    BY <1>1, <1>3 DEF PidOK, PlainOK, ReqAt, PhaseAt
  <1> QED BY <1>1, <1>2, <1>4, ProcFrame DEF ReqAt, PhaseAt, MapAt

\* The monitors keep ProcInv.
LEMMA MonitorProc ==
    ASSUME IInv, OneRequestPerPlugin, FlowInv, MonInv, ProcInv, NEW s \in Slots,
           MonitorRun(s) \/ runOnSchedule(s)
    PROVE  ProcInv'
  <1>1. CASE Step(Mon(s))
    BY <1>1, StepKeepsProc, ThreadFacts
  <1>2. CASE \/ ScheduleJob(s) \/ addJob(s) \/ startMonitoring(s) \/ healthCheck(s)
             \/ GetStatus(s) \/ relaunched(s) \/ runOnSchedule(s)
    <2>1. PICK l : /\ MonAt(s, l, <<>>) /\ l \notin StepPc \cup {"run", "off"}
                   /\ steps[Mon(s)] = <<>>
                   /\ UNCHANGED <<plugins, phase, curr, req, procs, restarts>>
      BY <1>2, MonitorMoves DEF host, chores
    <2>2. ObjCalm
      <3>1. obj' = obj \/ setState(s, "CRASHED")
        BY <1>2 DEF ScheduleJob, addJob, startMonitoring, healthCheck, GetStatus, relaunched,
           runOnSchedule
      <3> QED BY <3>1, CrashedEffect DEF ObjCalm
    <2>3. \A x \in Slots : obj'[x].pid = obj[x].pid
      BY <2>2 DEF ObjCalm
    <2>4. PidOK(s) /\ PlainOK(s) /\ MarkOK(Req(s)) /\ ReqOK(s) /\ curr[s] \in Slots \cup {None}
      BY DEF ProcInv, IInv, WellFormed, TypeOK
    <2>5. PidOK(s)' /\ PlainOK(s)'
      <3>1. curr[s] \in Slots => obj'[curr'[s]].pid = obj[curr[s]].pid
        BY <2>1, <2>3
      <3> QED BY <2>1, <2>3, <2>4, <3>1
             DEF MonAt, PidOK, PlainOK, ReqOK, Working, Active, StepPc
    <2>6. pc[Req(s)] # "mark"
      <3>1. RefOK(s) /\ pc[Mon(s)] # "off"
        BY <1>2, MonitorMoves DEF FlowInv
      <3> QED BY <3>1 DEF RefOK
    <2> QED BY <2>1, <2>3, <2>5, <2>6, ProcFrame DEF MonAt, StepPc
  <1> QED BY <1>1, <1>2 DEF MonitorRun

\* Every step of the specification keeps ProcInv, in an agent that is not restarted and applies
\* no configuration.
LEMMA NextProc ==
    ASSUME IInv, OneRequestPerPlugin, FlowInv, MonInv, ProcInv, MaxRestarts = 0,
           "APPLY" \notin Actions, [Next]_vars
    PROVE  ProcInv'
  <1>0. ASSUME UNCHANGED <<plugins, obj, pc, steps, phase, curr, req, restarts>>,
               \A p \in Pids : procs'[p] \in {procs[p], None}
        PROVE  ProcInv'
    <2>1. CASE Slots = {}
      BY <1>0, <2>1, NoProcess DEF ProcInv, ProcOK, FullName
    <2>2. ASSUME NEW s \in Slots PROVE ProcInv'
      <3>1. PidOK(s)' /\ PlainOK(s)'
        BY <1>0 DEF ProcInv, PidOK, PlainOK, Working, Active
      <3> QED BY <1>0, <3>1, ProcFrame
    <2> QED BY <2>1, <2>2
  <1>1. CASE UNCHANGED vars
    BY <1>0, <1>1 DEF vars, memory, control, host, chores
  <1>2. ASSUME NEW s \in Slots, filterPendingPluginRevisions(s) PROVE ProcInv'
    <2>1. Accepted(s)
      BY <1>2, filterEffect
    <2>2. phase[s] = None /\ pc[Mon(s)] = "off" /\ obj[s].pid = None
      BY <2>1 DEF Accepted, FlowInv, RefOK, ProcInv, PidOK
    <2>3. /\ pc'[Req(s)] = "dispatch" /\ pc'[Mon(s)] = "off" /\ phase'[s] = None
          /\ obj' = obj /\ req'[s].action \in Actions
      BY <2>1, <2>2 DEF Accepted, ReqAt
    <2>4. PidOK(s)'
      BY <2>2, <2>3 DEF PidOK
    <2>5. PlainOK(s)'
      BY <2>3 DEF PlainOK, ActionKind
    <2> QED BY <2>1, <2>2, <2>3, <2>4, <2>5, ProcFrame DEF Accepted, ReqAt, host, chores
  <1>3. ASSUME NEW s \in Slots, applyConfig(s) \/ Apply(s) PROVE FALSE
    <2>1. PlainOK(s) /\ ReqOK(s)
      BY DEF ProcInv, IInv, WellFormed
    <2> QED BY <1>3, <2>1 DEF applyConfig, Apply, PlainOK, ReqOK
  <1>4. ASSUME NEW s \in Slots, Request(s) PROVE ProcInv'
    BY <1>3, <1>4, configurePluginProc, RequestMovesProc, AfterStepsProc, launchUpgradeProc,
       StepKeepsProc, ThreadFacts DEF Request
  <1>5. ASSUME NEW s \in Slots, UnscheduleJob(s) PROVE ProcInv'
    BY <1>5, RequestMovesProc
  <1>6. ASSUME NEW s \in Slots, MonitorRun(s) \/ runOnSchedule(s) PROVE ProcInv'
    BY <1>6, MonitorProc
  <1>7. CASE scanLeftovers \/ removeLeftover \/ CancelContext
    BY <1>0, <1>7 DEF scanLeftovers, removeLeftover, CancelContext, memory, control, host, chores
  <1>8. CASE ProcessExits
    BY <1>0, <1>8 DEF ProcessExits, memory, control, chores, IInv, TypeOK
  <1>9. ~InitPluginManager /\ ~InitFails
    BY DEF InitPluginManager, InitFails, ProcInv
  <1> QED BY <1>1, <1>2, <1>4, <1>5, <1>6, <1>7, <1>8, <1>9 DEF Next, Environment

\* Nothing is monitored and no process runs at the start.
LEMMA InitProc == Init => MonInv /\ ProcInv
  <1> SUFFICES ASSUME Init PROVE MonInv /\ ProcInv
    OBVIOUS
  <1>1. \A s \in Slots : pc[Req(s)] = "free" /\ pc[Mon(s)] = "off"
    BY ThreadFacts DEF Init
  <1>2. MonInv
    BY <1>1 DEF Init, MonInv, LiveOK, BootOK, StopOK, JobOK, Dead, Active
  <1>3. \A s \in Slots : PidOK(s) /\ PlainOK(s)
    BY <1>1 DEF Init, PidOK, PlainOK, NewObj
  <1>4. \A s \in Slots : MarkOK(Req(s)) /\ MarkOK(Mon(s))
    BY <1>1 DEF MarkOK
  <1> QED BY <1>2, <1>3, <1>4 DEF Init, ProcInv, ProcOK

\* One run of the agent: ACS waits for a monitor to start before it asks for more, the agent is
\* not restarted, and no configuration is applied.
OneAgent == SpacedRequests /\ MaxRestarts = 0 /\ "APPLY" \notin Actions

\* The invariants for control flow, monitors and processes hold in every run of one agent.
LEMMA ProcHolds ==
    OneAgent => (Spec => [](IInv /\ OneRequestPerPlugin /\ FlowInv /\ MonInv /\ ProcInv))
  <1> SUFFICES ASSUME OneAgent
               PROVE  Spec => [](IInv /\ OneRequestPerPlugin /\ FlowInv /\ MonInv /\ ProcInv)
    OBVIOUS
  <1>1. IInv /\ OneRequestPerPlugin /\ FlowInv /\ MonInv /\ [Next]_vars => MonInv'
    BY NextMon DEF OneAgent
  <1>2. IInv /\ OneRequestPerPlugin /\ FlowInv /\ MonInv /\ ProcInv /\ [Next]_vars => ProcInv'
    BY NextProc DEF OneAgent
  <1> QED BY <1>1, <1>2, InitProc, FlowHolds, PTL DEF Spec

\* AtMostOneProcess holds for every value of the other constants in one run of the agent: no
\* plugin ever has two processes, whoever launches it (launchStep, the relaunch of a health
\* check, and the second launch of awaitSocket).  Each hypothesis is needed: a restart may come
\* between the launch of a process and the write of its pid, APPLY relaunches a plugin beside its
\* monitor, and a monitor that is not registered yet is not stopped.
THEOREM OneProcessPerPlugin == OneAgent => (Spec => []AtMostOneProcess)
  <1>1. IInv /\ ProcInv => AtMostOneProcess
    <2> SUFFICES ASSUME IInv, ProcInv, NEW p \in Pids, NEW q \in Pids,
                        procs[p] # None, procs[q] # None, procs[p][1] = procs[q][1]
                 PROVE  p = q
      BY DEF AtMostOneProcess
    <2>1. procs[p][1] \in Names
      BY DEF IInv, TypeOK, FullNames
    <2> QED BY <2>1, NoProcess
  <1> QED BY <1>1, ProcHolds, PTL

\* NoOrphanProcess holds for every value of the other constants in one run of the agent: every
\* process of a plugin is the one whose pid is recorded in the object that the manager holds, so
\* that the agent can stop it (stopStep, installFailed of runlaunchPluginSteps).
THEOREM NoProcessIsOrphaned == OneAgent => (Spec => []NoOrphanProcess)
  <1>1. IInv /\ ProcInv => NoOrphanProcess
    <2> SUFFICES ASSUME IInv, ProcInv, NEW p \in Pids, procs[p] # None
                 PROVE  /\ plugins[procs[p][1]] # None
                        /\ obj[plugins[procs[p][1]]].pid = p
                        /\ FullName(plugins[procs[p][1]]) = procs[p]
      BY DEF NoOrphanProcess
    <2> QED BY DEF ProcInv, ProcOK
  <1> QED BY <1>1, ProcHolds, PTL

-----------------------------------------------------------------------------
(*****************************************************************************)
(* Reports: what a request says it has done is what it leaves behind.        *)
(*****************************************************************************)

\* The state file of n is deleted, or cleanup could not delete it.
FileGone(n) == stateFile[n] = None \/ n \in keptFiles

\* It stays so.
StaysGone(n) == FileGone(n) => stateFile'[n] = None \/ n \in keptFiles'

\* What the request s has reported is true until it is over, and a removal that is through has
\* done what it could to delete the state file.
RepOK(s) ==
    /\ pc[Req(s)] = "finish" /\ report[s].event = "INSTALLED" => plugins[req[s].name] = s
    /\ pc[Req(s)] = "finish" /\ report[s].event = "INSTALL_FAILED" =>
         /\ plugins[req[s].name] # s
         /\ plugins[req[s].name] = None => Object(s)
    /\ pc[Req(s)] = "finish" /\ report[s].event = "REMOVED" =>
         plugins[req[s].name] = None /\ FileGone(req[s].name)
    /\ Working(s) /\ phase[s] = "remove" /\ pc[Req(s)] = "run" /\ steps[Req(s)] = <<>> =>
         FileGone(req[s].name)

\* The inductive invariant for reports.
RepInv == \A s \in Slots : RepOK(s)

\* The reports of a request stay true when nobody writes its state file or changes its entry in
\* plugins.
LEMMA RepOther ==
    ASSUME NEW x \in Slots, RepOK(x),
           pc'[Req(x)] = pc[Req(x)], steps'[Req(x)] = steps[Req(x)],
           phase'[x] = phase[x], req'[x] = req[x], report'[x] = report[x],
           Active(x) => /\ plugins'[req[x].name] = plugins[req[x].name]
                        /\ FileGone(req[x].name) => \/ stateFile'[req[x].name] = None
                                                    \/ req[x].name \in keptFiles'
    PROVE  RepOK(x)'
  <1>1. pc[Req(x)] = "finish" \/ Working(x) => Active(x)
    BY DEF Working, Active
  <1> QED BY <1>1 DEF RepOK, Working, Active, Object, FileGone

\* RepInv stays when one request moves, changes what belongs to its own plugin, and is itself in
\* order afterwards.
LEMMA RepFrame ==
    ASSUME OneRequestPerPlugin, RepInv, IInv, NEW s \in Slots, Active(s),
           \A x \in Slots \ {s} : /\ pc'[Req(x)] = pc[Req(x)] /\ steps'[Req(x)] = steps[Req(x)]
                                  /\ phase'[x] = phase[x] /\ req'[x] = req[x]
                                  /\ report'[x] = report[x],
           \A n \in Names \ {req[s].name} : /\ plugins'[n] = plugins[n]
                                            /\ StaysGone(n),
           RepOK(s)'
    PROVE  RepInv'
  <1>1. ASSUME NEW x \in Slots \ {s} PROVE RepOK(x)'
    <2>1. Active(x) => req[x].name \in Names \ {req[s].name}
      BY DEF OneRequestPerPlugin, IInv, WellFormed, ReqOK
    <2> QED BY <2>1, RepOther DEF RepInv, StaysGone
  <1> QED BY <1>1 DEF RepInv

\* What a step does to the state files: it touches the one of its plugin only, and a cleanup
\* deletes it if it can.
LEMMA StepFile ==
    ASSUME IInv, NEW t \in Threads, Step(t)
    PROVE  /\ \A n \in Names \ {req[Target(t)].name} : StaysGone(n)
           /\ pc[t] = "clean" => \/ stateFile'[req[Target(t)].name] = None
                                \/ req[Target(t)].name \in keptFiles'
  <1>1. /\ stateFile \in [Names -> FileType] /\ req[Target(t)].name \in Names
        /\ pc[t] \in StepPc \cup {"run", "check"}
    <2>1. pc[t] \in StepPc \cup {"run", "check"}
      BY DEF Step, runSteps, downloadStep, unpackStep, stopPlugin, markStopped, cleanup,
         launchStep, awaitSocket, startPlugin, openStateFile, writeStateFile,
         connectOrReLaunch, Executes, StepPc
    <2> QED BY <2>1, StepFacts DEF StepData, IInv, TypeOK
  <1>2. CASE cleanup(t)
    BY <1>1, <1>2 DEF cleanup, StaysGone, FileGone
  <1>3. CASE openStateFile(t) \/ writeStateFile(t)
    BY <1>1, <1>3 DEF openStateFile, writeStateFile, StaysGone, FileGone
  <1>4. CASE \/ runSteps(t) \/ downloadStep(t) \/ unpackStep(t)
             \/ stopPlugin(t) \/ markStopped(t)
             \/ launchStep(t) \/ awaitSocket(t) \/ startPlugin(t) \/ connectOrReLaunch(t)
    BY <1>4 DEF runSteps, downloadStep, unpackStep, stopPlugin, markStopped,
         launchStep, awaitSocket, startPlugin, connectOrReLaunch, Executes, host,
         StaysGone, FileGone
  <1> QED BY <1>2, <1>3, <1>4 DEF Step

\* A step of a request keeps RepInv.
LEMMA StepReqRep ==
    ASSUME IInv, OneRequestPerPlugin, FlowInv, RepInv, NEW s \in Slots, Step(Req(s))
    PROVE  RepInv'
  <1>1. PICK l, w : Transition(Req(s), l, w)
    BY StepTransition, ThreadFacts
  <1>2. /\ ReqAt(s, l, w) /\ pc[Req(s)] \in StepPc \cup {"run", "check"}
        /\ l \in StepPc \cup {"run", "failed"}
    BY <1>1, TransitionEffect, TransitionPoint, ThreadFacts
  <1>3. UNCHANGED <<plugins, phase, curr, req, report>>
    BY StepFrame DEF OnlySteps
  <1>4. Active(s) /\ RefOK(s) /\ FitOK(s) /\ PointOK(Req(s)) /\ ReqOK(s)
    BY <1>2 DEF Active, StepPc, FlowInv, IInv, WellFormed
  <1>5. req[Target(Req(s))].name = req[s].name
    BY <1>4 DEF Target, Req, RefOK, ReqOK
  <1>6. RepOK(s)'
    <2> SUFFICES ASSUME phase[s] = "remove", l = "run", w = <<>>
                 PROVE  stateFile'[req[s].name] = None \/ req[s].name \in keptFiles'
      BY <1>2, <1>3 DEF RepOK, ReqAt, StepPc, FileGone
    <2>1. steps[Req(s)] \in Removals /\ pc[Req(s)] # "check"
      BY <1>4 DEF FitOK, RefOK
    <2>2. steps[Req(s)] # <<>>
      BY <1>1, <2>1 DEF Transition
    <2>3. Head(steps[Req(s)]) = "remove"
      BY <2>1, <2>2, Workflows DEF Removals
    <2>4. pc[Req(s)] = "clean"
      BY <1>1, <1>4, <2>1, <2>2, <2>3 DEF Transition, PointOK
    <2> QED BY <1>5, <2>4, StepFile, ThreadFacts
  <1>7. \A n \in Names \ {req[s].name} : StaysGone(n)
    BY <1>5, StepFile, ThreadFacts
  <1> QED BY <1>2, <1>3, <1>4, <1>6, <1>7, RepFrame DEF ReqAt

\* The monitors keep RepInv: none is alive for a plugin whose removal is under way.
LEMMA MonitorRep ==
    ASSUME IInv, OneRequestPerPlugin, FlowInv, MonInv, RepInv, NEW s \in Slots,
           MonitorRun(s) \/ runOnSchedule(s)
    PROVE  RepInv'
  <1>1. CASE Step(Mon(s))
    <2>1. PICK l, w : MonAt(s, l, w) /\ pc[Mon(s)] \in StepPc \cup {"run", "check"}
      BY <1>1, StepMonEffect
    <2>2. UNCHANGED <<plugins, phase, curr, req, report>>
      BY <1>1, StepFrame DEF OnlySteps
    <2>3. Target(Mon(s)) = s /\ plugins[req[s].name] = s /\ ~Dead(s)
      BY <2>1, LiveFacts DEF Target, Mon, Dead, StepPc
    <2>4. \A n \in Names \ {req[s].name} : StaysGone(n)
      BY <1>1, <2>3, StepFile, ThreadFacts
    <2>5. ASSUME NEW x \in Slots PROVE RepOK(x)'
      <3>1. /\ RepOK(x) /\ pc'[Req(x)] = pc[Req(x)] /\ steps'[Req(x)] = steps[Req(x)]
            /\ Active(x) => req[x].name \in Names
        BY <2>1 DEF RepInv, MonAt, IInv, WellFormed, ReqOK
      <3>2. CASE Active(x) => req[x].name # req[s].name
        BY <2>2, <2>4, <3>1, <3>2, RepOther DEF StaysGone
      <3>3. CASE Active(x) /\ req[x].name = req[s].name
        <4>1. plugins[req[x].name] # None
          BY <2>3, <3>3
        <4>2. ~(Working(x) /\ phase[x] = "remove" /\ pc[Req(x)] = "run")
          <5> SUFFICES ASSUME Working(x), phase[x] = "remove", pc[Req(x)] = "run" PROVE FALSE
            OBVIOUS
          <5>1. curr[x] = s
            BY <2>3, <3>3 DEF FlowInv, PlaceOK
          <5> QED BY <2>3, <3>3, <5>1 DEF MonInv, StopOK
        <4>3. /\ UNCHANGED plugins /\ phase'[x] = phase[x]
              /\ req'[x] = req[x] /\ report'[x] = report[x]
          BY <2>2
        <4> QED BY <3>1, <4>1, <4>2, <4>3 DEF RepOK, Working, Active, Object
      <3> QED BY <3>2, <3>3
    <2> QED BY <2>5 DEF RepInv
  <1>2. CASE \/ ScheduleJob(s) \/ addJob(s) \/ startMonitoring(s) \/ healthCheck(s)
             \/ GetStatus(s) \/ relaunched(s) \/ runOnSchedule(s)
    <2>1. PICK l : /\ MonAt(s, l, <<>>)
                   /\ UNCHANGED <<plugins, phase, curr, req, report, stateFile, keptFiles>>
      BY <1>2, MonitorMoves DEF host
    <2>2. ASSUME NEW x \in Slots PROVE RepOK(x)'
      BY <2>1, RepOther DEF RepInv, MonAt, FileGone
    <2> QED BY <2>2 DEF RepInv
  <1> QED BY <1>1, <1>2 DEF MonitorRun

\* configurePlugin keeps RepInv.
LEMMA configurePluginRep ==
    ASSUME IInv, OneRequestPerPlugin, FlowInv, RepInv, NEW s \in Slots, configurePlugin(s)
    PROVE  RepInv'
  <1>1. /\ pc[Req(s)] = "dispatch" /\ phase[s] = None /\ req[s].name \in Names /\ RefOK(s)
        /\ Active(s) /\ report \in [Slots -> [event : EventType,
                                              verdict : {"success", "failure", None}]]
    BY configurePluginEffect, DispatchFacts DEF FlowInv
  <1>2. \A n \in Names : StaysGone(n)
    BY DEF configurePlugin, host, StaysGone, FileGone
  <1>3. plugins[req[s].name] # s
    BY <1>1 DEF RefOK
  <1>4. CASE Refused(s)
    <2>1. /\ pc'[Req(s)] = "finish" /\ req'[s].name = req[s].name /\ UNCHANGED plugins
          /\ \/ report'[s].event \in {None, "REMOVE_FAILED"}
             \/ report'[s].event = "INSTALL_FAILED" /\ plugins[req[s].name] # None
      BY <1>4 DEF Refused, ReqAt, Revised
    <2>2. report'[s].event \notin {"INSTALLED", "REMOVED"}
      BY <2>1, NoneAssumption
    <2>3. report'[s].event = "INSTALL_FAILED" => plugins[req[s].name] # None
      BY <2>1, NoneAssumption
    <2>4. RepOK(s)'
      BY <1>3, <2>1, <2>2, <2>3 DEF RepOK, Working
    <2>5. \A x \in Slots \ {s} : /\ pc'[Req(x)] = pc[Req(x)] /\ steps'[Req(x)] = steps[Req(x)]
                                 /\ phase'[x] = phase[x] /\ req'[x] = req[x]
                                 /\ report'[x] = report[x]
      BY <1>1, <1>4 DEF Refused, ReqAt, PhaseAt, Revised
    <2> QED BY <1>1, <1>2, <2>1, <2>4, <2>5, RepFrame
  <1>5. CASE StartsUpgrade(s) \/ StartsInstall(s) \/ StartsRemove(s)
    <2>1. PICK l, w, p, c : /\ ReqAt(s, l, w) /\ PhaseAt(s, p, c) /\ Revised(s)
                            /\ l \in {"run", "unmonitor"} /\ report' = report
                            /\ p = "remove" => l = "unmonitor"
      BY <1>5 DEF StartsUpgrade, StartsInstall, StartsRemove
    <2>2. \A n \in Names \ {req[s].name} : plugins'[n] = plugins[n]
      BY <1>5 DEF StartsUpgrade, StartsInstall, StartsRemove, MapAt
    <2>3. RepOK(s)'
      BY <2>1 DEF RepOK, ReqAt, PhaseAt
    <2> QED BY <1>1, <1>2, <2>1, <2>2, <2>3, RepFrame DEF ReqAt, PhaseAt, Revised
  <1> QED BY <1>4, <1>5, configurePluginEffect

\* stopMonitoring, UnscheduleJob and Finish keep RepInv.
LEMMA RequestMovesRep ==
    ASSUME IInv, OneRequestPerPlugin, FlowInv, RepInv, NEW s \in Slots,
           stopMonitoring(s) \/ UnscheduleJob(s) \/ Finish(s)
    PROVE  RepInv'
  <1>1. UNCHANGED <<plugins, phase, req, report>> /\ \A n \in Names : StaysGone(n)
    BY DEF stopMonitoring, UnscheduleJob, Finish, host, StaysGone, FileGone
  <1>2. /\ pc \in [Threads -> ReqPc \cup MonPc] /\ steps \in [Threads -> Seq(StepKind)]
        /\ \A x \in Slots : Req(x) \in Threads /\ Mon(x) \in Threads
        /\ \A x, y \in Slots : Mon(x) # Req(y) /\ (Req(x) = Req(y) <=> x = y)
    BY ThreadFacts DEF IInv, TypeOK
  <1>3. /\ \A x \in Slots \ {s} : pc'[Req(x)] = pc[Req(x)] /\ steps'[Req(x)] = steps[Req(x)]
        /\ \/ pc'[Req(s)] \in {"unschedule", "done"}
           \/ pc'[Req(s)] = "run" /\ steps'[Req(s)] = <<"remove">>
    <2>1. CASE UnscheduleJob(s)
      <3>1. \A x \in Slots : pc'[Req(x)] = IF x = s THEN "run" ELSE pc[Req(x)]
        BY <2>1, UnscheduleEffect
      <3>2. \A x \in Slots : steps'[Req(x)] = IF x = s THEN <<"remove">> ELSE steps[Req(x)]
        BY <2>1, UnscheduleEffect
      <3> QED BY <3>1, <3>2
    <2>2. CASE stopMonitoring(s)
      BY <1>2, <2>2 DEF stopMonitoring, RunSteps, Goto
    <2>3. CASE Finish(s)
      BY <1>2, <2>3 DEF Finish, Goto
    <2> QED BY <2>1, <2>2, <2>3
  <1>4. Active(s)
    BY DEF stopMonitoring, UnscheduleJob, Finish, Active
  <1>5. RepOK(s)'
    BY <1>3 DEF RepOK
  <1> QED BY <1>1, <1>3, <1>4, <1>5, RepFrame

\* What a request does after a call of runSteps keeps RepInv: this is where it reports.
LEMMA AfterStepsRep ==
    ASSUME IInv, OneRequestPerPlugin, FlowInv, ProcInv, RepInv, NEW s \in Slots,
           \/ installed(s) \/ installFailed(s) \/ preLaunched(s) \/ upgradeFailed(s)
           \/ replaced(s) \/ removed(s) \/ removeFailed(s) \/ applied(s) \/ loaded(s)
    PROVE  RepInv'
  <1> DEFINE n == req[s].name
  <1>0. /\ plugins \in [Names -> Slots \cup {None}] /\ phase \in [Slots -> PhaseType]
        /\ report \in [Slots -> [event : EventType, verdict : {"success", "failure", None}]]
    BY DEF IInv, TypeOK
  <1>1. ASSUME NEW p, StepsDone(s, p) \/ StepsFailed(s, p), NEW l, Leaves(s, l),
               UNCHANGED <<stateFile, keptFiles>>,
               \A x \in Slots \ {s} : phase'[x] = phase[x] /\ report'[x] = report[x],
               \A m \in Names \ {n} : plugins'[m] = plugins[m],
               RepOK(s)'
        PROVE  RepInv'
    <2>1. Active(s)
      BY <1>1, OverFacts
    <2>2. \A m \in Names : StaysGone(m)
      BY <1>1 DEF StaysGone, FileGone
    <2> QED BY <1>1, <2>1, <2>2, RepFrame DEF Leaves
  <1>2. ASSUME NEW e, Report(s, e, "success") \/ Report(s, e, "failure")
        PROVE  /\ report'[s].event = e
               /\ \A x \in Slots \ {s} : report'[x] = report[x]
    BY <1>0, <1>2 DEF Report
  <1>3. CASE installed(s)
    <2>1. /\ Leaves(s, "finish") /\ StepsDone(s, "install")
          /\ UNCHANGED <<plugins, phase, stateFile, keptFiles, req>>
          /\ \E e \in {"INSTALLED"} : Report(s, e, "success") \/ Report(s, e, "failure")
      BY <1>3, LeavesEffect DEF installed, host
    <2>2. plugins[n] = s
      BY <2>1, OverFacts DEF PlaceOK
    <2>3. RepOK(s)'
      BY <1>2, <2>1, <2>2 DEF RepOK, Leaves, Working
    <2> QED BY <1>1, <1>2, <2>1, <2>3
  <1>4. CASE installFailed(s)
    <2>1. /\ StepsFailed(s, "install") /\ Leaves(s, "finish")
          /\ plugins' = [plugins EXCEPT ![n] = None]
          /\ UNCHANGED <<phase, stateFile, keptFiles, req>>
          /\ Report(s, "INSTALL_FAILED", "failure")
      BY <1>4, LeavesEffect DEF installFailed, Conclude
    <2>2. n \in Names /\ Object(s)
      BY <2>1, OverFacts DEF ReqOK
    <2>3. plugins'[n] = None /\ \A m \in Names \ {n} : plugins'[m] = plugins[m]
      BY <1>0, <2>1, <2>2
    <2>4. RepOK(s)'
      BY <1>2, <2>1, <2>2, <2>3 DEF RepOK, Leaves, Working, Object
    <2> QED BY <1>1, <1>2, <2>1, <2>3, <2>4
  <1>5. CASE preLaunched(s)
    <2>1. /\ StepsDone(s, "prelaunch") /\ Leaves(s, "unmonitor")
          /\ phase' = [phase EXCEPT ![s] = "replace"]
          /\ UNCHANGED <<plugins, report, stateFile, keptFiles>>
      BY <1>5, LeavesEffect DEF preLaunched, memory, host
    <2>2. RepOK(s)'
      BY <2>1 DEF RepOK, Leaves
    <2> QED BY <1>0, <1>1, <2>1, <2>2
  <1>6. CASE upgradeFailed(s)
    <2>1. PICK p : /\ StepsFailed(s, p) /\ p \in {"prelaunch", "replace"}
                   /\ Leaves(s, "finish") /\ UNCHANGED <<plugins, phase, stateFile, keptFiles, req>>
                   /\ Report(s, "INSTALL_FAILED", "failure")
      BY <1>6, LeavesEffect DEF upgradeFailed, Conclude, host
    <2>2. /\ plugins[n] = curr[s] /\ curr[s] \in Slots /\ req[curr[s]].rev # req[s].rev
      BY <2>1, OverFacts DEF PlaceOK, RefOK, StepsFailed
    <2>3. plugins[n] # s /\ plugins[n] # None
      BY <2>2
    <2>4. RepOK(s)'
      BY <1>2, <2>1, <2>3 DEF RepOK, Leaves, Working
    <2> QED BY <1>1, <1>2, <2>1, <2>4
  <1>7. CASE replaced(s)
    <2>1. /\ StepsDone(s, "replace") /\ Leaves(s, "launch")
          /\ plugins' = [plugins EXCEPT ![n] = None]
          /\ UNCHANGED <<phase, report, stateFile, keptFiles>>
      BY <1>7, LeavesEffect DEF replaced, host
    <2>2. RepOK(s)'
      BY <2>1 DEF RepOK, Leaves
    <2> QED BY <1>0, <1>1, <2>1, <2>2
  <1>8. CASE removed(s)
    <2>1. /\ StepsDone(s, "remove") /\ Leaves(s, "finish")
          /\ plugins' = [plugins EXCEPT ![n] = None]
          /\ UNCHANGED <<phase, stateFile, keptFiles, req>>
          /\ Report(s, "REMOVED", "success") \/ Report(s, "REMOVED", "failure")
      BY <1>8, LeavesEffect DEF removed, Conclude
    <2>2. n \in Names /\ FileGone(n)
      BY <2>1, OverFacts DEF RepInv, RepOK, StepsDone
    <2>3. plugins'[n] = None /\ \A m \in Names \ {n} : plugins'[m] = plugins[m]
      BY <1>0, <2>1, <2>2
    <2>4. RepOK(s)'
      BY <1>2, <2>1, <2>2, <2>3 DEF RepOK, Leaves, Working, FileGone
    <2> QED BY <1>1, <1>2, <2>1, <2>3, <2>4
  <1>9. CASE removeFailed(s)
    <2>1. /\ StepsFailed(s, "remove") /\ Leaves(s, "finish")
          /\ UNCHANGED <<plugins, phase, stateFile, keptFiles>>
          /\ Report(s, "REMOVE_FAILED", "failure")
      BY <1>9, LeavesEffect DEF removeFailed, Conclude, memory, host
    <2>2. RepOK(s)'
      BY <1>2, <2>1 DEF RepOK, Leaves, Working
    <2> QED BY <1>1, <1>2, <2>1, <2>2
  <1>10. CASE applied(s) \/ loaded(s)
    BY <1>10 DEF applied, loaded, StepsDone, StepsFailed, ProcInv, PlainOK
  <1> QED BY <1>3, <1>4, <1>5, <1>6, <1>7, <1>8, <1>9, <1>10

\* launchUpgrade keeps RepInv.
LEMMA launchUpgradeRep ==
    ASSUME IInv, OneRequestPerPlugin, FlowInv, RepInv, NEW s \in Slots, launchUpgrade(s)
    PROVE  RepInv'
  <1>1. /\ Active(s) /\ ReqAt(s, "run", <<"launch">>) /\ PhaseAt(s, "install", curr[s])
        /\ MapAt(req[s].name, s) /\ req' = req /\ UNCHANGED report
        /\ \A n \in Names : StaysGone(n)
    BY launchUpgradeEffect DEF launchUpgrade, host, StaysGone, FileGone
  <1>2. RepOK(s)'
    BY <1>1 DEF RepOK, ReqAt, PhaseAt
  <1> QED BY <1>1, <1>2, RepFrame DEF ReqAt, PhaseAt, MapAt

\* Every step of the specification keeps RepInv, in an agent that is not restarted.
LEMMA NextRep ==
    ASSUME IInv, OneRequestPerPlugin, FlowInv, MonInv, ProcInv, RepInv, MaxRestarts = 0,
           [Next]_vars
    PROVE  RepInv'
  <1>0. ASSUME UNCHANGED <<plugins, pc, steps, phase, req, report>>,
               \A n \in Names : StaysGone(n)
        PROVE  RepInv'
    <2>1. ASSUME NEW x \in Slots PROVE RepOK(x)'
      <3>1. Active(x) => req[x].name \in Names
        BY DEF IInv, WellFormed, ReqOK
      <3> QED BY <1>0, <3>1, RepOther DEF RepInv, StaysGone
    <2> QED BY <2>1 DEF RepInv
  <1>1. CASE UNCHANGED vars
    BY <1>0, <1>1 DEF vars, memory, control, host, StaysGone, FileGone
  <1>2. ASSUME NEW s \in Slots, filterPendingPluginRevisions(s) PROVE RepInv'
    <2>1. Accepted(s)
      BY <1>2, filterEffect
    <2>2. RepOK(s)'
      BY <2>1 DEF RepOK, Accepted, ReqAt
    <2>3. ASSUME NEW x \in Slots \ {s} PROVE RepOK(x)'
      BY <2>1, RepOther DEF RepInv, Accepted, ReqAt, host, FileGone
    <2> QED BY <2>2, <2>3 DEF RepInv
  <1>3. ASSUME NEW s \in Slots, applyConfig(s) \/ Apply(s) PROVE FALSE
    <2>1. PlainOK(s) /\ ReqOK(s)
      BY DEF ProcInv, IInv, WellFormed
    <2> QED BY <1>3, <2>1 DEF applyConfig, Apply, PlainOK, ReqOK
  <1>4. ASSUME NEW s \in Slots, Request(s) PROVE RepInv'
    BY <1>3, <1>4, configurePluginRep, RequestMovesRep, AfterStepsRep, launchUpgradeRep,
       StepReqRep DEF Request
  <1>5. ASSUME NEW s \in Slots, UnscheduleJob(s) PROVE RepInv'
    BY <1>5, RequestMovesRep
  <1>6. ASSUME NEW s \in Slots, MonitorRun(s) \/ runOnSchedule(s) PROVE RepInv'
    BY <1>6, MonitorRep
  <1>7. CASE scanLeftovers \/ CancelContext \/ ProcessExits
    BY <1>0, <1>7 DEF scanLeftovers, CancelContext, ProcessExits, memory, control, host,
       StaysGone, FileGone
  <1>8. CASE removeLeftover
    <2>1. stateFile \in [Names -> FileType]
      BY DEF IInv, TypeOK
    <2>2. ASSUME NEW n \in Names PROVE StaysGone(n)
      BY <1>8, <2>1 DEF removeLeftover, StaysGone, FileGone
    <2> QED BY <1>0, <1>8, <2>2 DEF removeLeftover, memory, control
  <1>9. ~InitPluginManager /\ ~InitFails
    BY DEF InitPluginManager, InitFails, ProcInv
  <1> QED BY <1>1, <1>2, <1>4, <1>5, <1>6, <1>7, <1>8, <1>9 DEF Next, Environment

\* Nothing has been reported at the start.
LEMMA InitRep == Init => RepInv
  <1> SUFFICES ASSUME Init, NEW s \in Slots PROVE RepOK(s)
    BY DEF RepInv
  <1>1. pc[Req(s)] = "free"
    BY ThreadFacts DEF Init
  <1> QED BY <1>1 DEF RepOK

\* ReportsAreTrue holds for every value of the other constants in one run of the agent: until the
\* deferred delete of the mark, an INSTALLED plugin is the one that the manager holds, an
\* INSTALL_FAILED one is not and has left no process if nothing else took its place, and a
\* REMOVED one has left no process, no entry and, unless cleanup could not delete it, no state
\* file (sendEvent in installPlugin, upgradePlugin and removePlugin).
THEOREM RequestsReportTruly == OneAgent => (Spec => []ReportsAreTrue)
  <1> SUFFICES ASSUME OneAgent PROVE Spec => []ReportsAreTrue
    OBVIOUS
  <1>1. IInv /\ OneRequestPerPlugin /\ FlowInv /\ MonInv /\ ProcInv /\ RepInv /\ [Next]_vars
          => RepInv'
    BY NextRep DEF OneAgent
  <1>2. IInv /\ ProcInv /\ RepInv => ReportsAreTrue
    <2> SUFFICES ASSUME IInv, ProcInv, RepInv, NEW s \in Slots, pc[Req(s)] = "finish"
                 PROVE  LET n == req[s].name
                            e == report[s].event IN
                        /\ e = "INSTALLED" => plugins[n] = s
                        /\ e = "INSTALL_FAILED" =>
                              /\ plugins[n] # s
                              /\ plugins[n] = None => \A p \in Pids : procs[p] # FullName(s)
                        /\ e = "REMOVED" => /\ plugins[n] = None
                                            /\ stateFile[n] = None \/ n \in keptFiles
                                            /\ \A p \in Pids : procs[p] # None => procs[p][1] # n
      BY DEF ReportsAreTrue
    <2>1. RepOK(s) /\ req[s].name \in Names
      BY DEF RepInv, IInv, WellFormed, ReqOK, Active
    <2>2. ASSUME plugins[req[s].name] = None, NEW p \in Pids, procs[p] # None
          PROVE  procs[p][1] # req[s].name
      BY <2>1, <2>2, NoProcess
    <2>3. ASSUME plugins[req[s].name] = None, Object(s), NEW p \in Pids
          PROVE  procs[p] # FullName(s)
      <3>1. FullName(s) # None /\ FullName(s)[1] = req[s].name
        BY <2>3, NoneAssumption DEF FullName, Object
      <3> QED BY <2>2, <2>3, <3>1
    <2> QED BY <2>1, <2>2, <2>3 DEF RepOK, FileGone
  <1> QED BY <1>1, <1>2, InitRep, ProcHolds, PTL DEF Spec

-----------------------------------------------------------------------------
(*****************************************************************************)
(* Durable plugins: what the state file of a plugin records is on disk,      *)
(* and a plugin that runs is recorded, across any number of restarts.        *)
(*****************************************************************************)

\* The revision r of n is on disk: it is linked, unpacked, and n has a state directory.
Whole(n, r) == link[n] = r /\ <<n, r>> \in dirs /\ n \in stateDir

\* The state file of n has been written to its end, and is not one that a removal left behind.
Recorded(n) == stateFile[n] \notin {None, Corrupt} /\ n \notin keptFiles

\* No goroutine is left: a restart that could not load the plugins.
AllStopped == \A s \in Slots : pc[Req(s)] = "done" /\ Dead(s)

\* The request s has cleaned its plugin up and has still to take it out of plugins.
Wipes(s) ==
    /\ Working(s) /\ phase[s] \in {"replace", "remove"}
    /\ pc[Req(s)] = "run" /\ steps[Req(s)] = <<>>

\* The plugin n has been cleaned up by such a request.
Wiped(n) == \E s \in Slots : Wipes(s) /\ req[s].name = n

\* The plugin was downloaded; a local one is never recorded.
Dynamic(o) == ~req[o].local

\* The object o was loaded from its state file, or its launch has succeeded.
Launched(o) == phase[o] = "load" \/ (steps[Req(o)] = <<>> /\ pc[Req(o)] # "failed")

\* What the state file of n says: the revision it records is on disk, and the manager holds n,
\* unless it failed to start; a plugin that has been cleaned up has no record.
FileOK(n) ==
    /\ Recorded(n) => Whole(n, stateFile[n].rev)
    /\ Recorded(n) /\ plugins[n] = None => AllStopped
    /\ Wiped(n) => ~Recorded(n)

\* What it says of the object o that the manager holds: the revision recorded is that of o, whose
\* installation is through; once launched, o is recorded and on disk, unless it has been cleaned
\* up or was loaded from a file that a removal left behind; from its launch to its store it is on
\* disk; and its first write finds an empty file of its own.
OwnOK(n, o) ==
    /\ Recorded(n) => Dynamic(o) /\ stateFile[n].rev = req[o].rev
    /\ Recorded(n) /\ phase[o] = "install" /\ Working(o)
         => pc[Req(o)] = "run" /\ steps[Req(o)] = <<>>
    /\ Dynamic(o) /\ Launched(o) /\ ~Wiped(n) =>
         \/ n \in keptFiles /\ phase[o] = "load"
         \/ n \notin keptFiles /\ stateFile[n] # None /\ Whole(n, req[o].rev)
    /\ Dynamic(o) /\ pc[Req(o)] \in {"socket", "connect", "store", "write"}
         => Whole(n, req[o].rev)
    /\ phase[o] = "install" /\ pc[Req(o)] = "write" => stateFile[n] = Corrupt /\ n \notin keptFiles

\* What DurInv says of the plugin n.
NameOK(n) == FileOK(n) /\ \A o \in Slots : plugins[n] = o => OwnOK(n, o)

\* Only the state file of a dynamic plugin is written.
WriteOK(t) == pc[t] = "write" => Dynamic(Target(t))

\* The inductive invariant for durable plugins; it survives restarts.
DurInv ==
    /\ doomed = {}
    /\ \A n \in Names : NameOK(n)
    /\ \A s \in Slots : WriteOK(Req(s)) /\ WriteOK(Mon(s))

\* What a step of t on the object o does to the disk, and where: only unpack and cleanup take the
\* install directory of o away, a launch that goes on has linked it, store opens the state file
\* and then writes it.
HostStep(t, o) ==
    LET n == req[o].name
        f == FullName(o) IN
    \/ /\ UNCHANGED <<stateFile, keptFiles, link, dirs, stateDir>>
       /\ pc[t] # "clean" /\ pc'[t] # "write"
       /\ ~(pc[t] = "exec" /\ pc'[t] \in {"socket", "connect"})
       /\ pc[t] \in {"store", "write"} /\ pc'[t] = "run" => ~Dynamic(o)
    \/ /\ pc[t] = "exec" /\ Head(steps[t]) = "unpack" /\ pc'[t] \in {"run", "failed"}
       /\ UNCHANGED <<stateFile, keptFiles, link, stateDir>> /\ dirs \ {f} \subseteq dirs'
    \/ /\ pc[t] = "clean" /\ pc'[t] = "run" /\ (stateFile'[n] = None \/ n \in keptFiles')
       /\ UNCHANGED <<link, stateDir>> /\ dirs \ {f} \subseteq dirs'
    \/ /\ pc[t] = "exec" /\ Head(steps[t]) = "launch" /\ pc'[t] \in {"socket", "connect"}
       /\ UNCHANGED <<stateFile, keptFiles, dirs>>
       /\ Dynamic(o) => link'[n] = req[o].rev /\ f \in dirs' /\ n \in stateDir'
       /\ stateDir \subseteq stateDir' /\ link'[n] \in {link[n], req[o].rev}
    \/ /\ pc[t] = "exec" /\ Head(steps[t]) = "launch" /\ pc'[t] = "failed"
       /\ UNCHANGED <<stateFile, keptFiles, dirs>>
       /\ stateDir \subseteq stateDir' /\ link'[n] \in {link[n], req[o].rev}
    \/ /\ pc[t] = "store" /\ pc'[t] = "write" /\ Dynamic(o) /\ stateFile'[n] = Corrupt
       /\ n \in keptFiles' <=> n \in keptFiles /\ phase[o] # "install"
       /\ UNCHANGED <<link, dirs, stateDir>>
    \/ /\ pc[t] = "write" /\ pc'[t] = "run" /\ stateFile'[n] = Encoded(o)
       /\ UNCHANGED <<keptFiles, link, dirs, stateDir>>

\* The disk keeps what it has of the plugins other than n.
OthersKept(n) ==
    \A m \in Names \ {n} : /\ stateFile'[m] = stateFile[m] /\ link'[m] = link[m]
                           /\ m \in keptFiles' <=> m \in keptFiles
                           /\ m \in stateDir => m \in stateDir'
                           /\ \A r : <<m, r>> \in dirs => <<m, r>> \in dirs'

\* Every step does one of these to the disk, for its own plugin only: the Run methods of the
\* steps.
LEMMA StepHost ==
    ASSUME IInv, NEW t \in Threads, Step(t)
    PROVE  HostStep(t, Target(t)) /\ OthersKept(req[Target(t)].name)
  <1> DEFINE o == Target(t)
             n == req[o].name
  <1>1. /\ o \in Slots /\ n \in Names /\ req[o].rev \in Revs
        /\ pc \in [Threads -> ReqPc \cup MonPc] /\ req' = req
        /\ stateFile \in [Names -> FileType] /\ link \in [Names -> Revs \cup {None}]
    <2>1. pc[t] \in StepPc \cup {"run", "check"}
      BY DEF Step, runSteps, downloadStep, unpackStep, stopPlugin, markStopped, cleanup,
         launchStep, awaitSocket, startPlugin, openStateFile, writeStateFile,
         connectOrReLaunch, Executes, StepPc
    <2>2. StepData(t)
      BY <2>1, StepFacts
    <2> QED BY <2>2, StepFrame DEF StepData, IInv, TypeOK, OnlySteps
  <1>2. FullName(o) = <<n, req[o].rev>>
    BY DEF FullName
  <1>3. CASE \/ runSteps(t) \/ downloadStep(t) \/ stopPlugin(t) \/ markStopped(t)
             \/ awaitSocket(t) \/ startPlugin(t) \/ connectOrReLaunch(t)
    <2>1. /\ UNCHANGED <<stateFile, keptFiles, link, dirs, stateDir>>
          /\ pc[t] \notin {"clean", "store", "write"}
          /\ pc'[t] # "write" /\ (pc[t] = "exec" => pc'[t] \notin {"socket", "connect"})
      BY <1>1, <1>3 DEF runSteps, downloadStep, stopPlugin, markStopped, awaitSocket,
         startPlugin, connectOrReLaunch, Executes, host, Goto, RunSteps, StepDone, StepFails
    <2> QED BY <2>1 DEF HostStep, OthersKept
  <1>4. CASE unpackStep(t)
    <2>1. /\ pc[t] = "exec" /\ Head(steps[t]) = "unpack" /\ pc'[t] \in {"run", "failed"}
          /\ UNCHANGED <<stateFile, keptFiles, link, stateDir>>
          /\ dirs \ {FullName(o)} \subseteq dirs'
      BY <1>1, <1>4 DEF unpackStep, Executes, Goto, StepDone, StepFails
    <2> QED BY <1>2, <2>1 DEF HostStep, OthersKept
  <1>5. CASE cleanup(t)
    <2>1. /\ pc[t] = "clean" /\ pc'[t] = "run"
          /\ \/ stateFile' = [stateFile EXCEPT ![n] = None] /\ keptFiles' = keptFiles \ {n}
             \/ stateFile' = stateFile /\ keptFiles' = keptFiles \cup {n}
          /\ UNCHANGED <<link, stateDir>> /\ dirs \ {FullName(o)} \subseteq dirs'
      BY <1>1, <1>5 DEF cleanup, Goto, StepDone
    <2>2. /\ stateFile'[n] = None \/ n \in keptFiles'
          /\ \A m \in Names \ {n} : /\ stateFile'[m] = stateFile[m]
                                    /\ m \in keptFiles' <=> m \in keptFiles
      BY <1>1, <2>1
    <2> QED BY <1>2, <2>1, <2>2 DEF HostStep, OthersKept
  <1>6. CASE launchStep(t)
    <2>1. /\ pc[t] = "exec" /\ Head(steps[t]) = "launch" /\ UNCHANGED <<stateFile, keptFiles, dirs>>
          /\ stateDir \subseteq stateDir' /\ link' \in {link, Linked(o)}
      BY <1>6 DEF launchStep, Executes
    <2>2. \A m \in Names \ {n} : link'[m] = link[m]
      BY <1>1, <2>1 DEF Linked
    <2>3. link'[n] \in {link[n], req[o].rev}
      BY <1>1, <2>1 DEF Linked
    <2>4. CASE pc'[t] = "failed"
      BY <2>1, <2>2, <2>3, <2>4 DEF HostStep, OthersKept
    <2>5. CASE pc'[t] # "failed"
      <3>1. /\ req[o].local \/ FullName(o) \in dirs
            /\ stateDir' = stateDir \cup {n} /\ link' = Linked(o)
            /\ pc'[t] \in {"socket", "connect"}
        BY <1>1, <1>6, <2>5 DEF launchStep, Goto, StepFails
      <3>2. Dynamic(o) => link'[n] = req[o].rev /\ FullName(o) \in dirs' /\ n \in stateDir'
        BY <1>1, <1>2, <2>1, <3>1 DEF Linked, Dynamic
      <3> QED BY <2>1, <2>2, <2>3, <3>1, <3>2 DEF HostStep, OthersKept
    <2> QED BY <2>4, <2>5
  <1>7. CASE openStateFile(t)
    <2>1. CASE pc'[t] = "write"
      <3>1. /\ pc[t] = "store" /\ Dynamic(o) /\ stateFile' = [stateFile EXCEPT ![n] = Corrupt]
            /\ keptFiles' = IF phase[o] = "install" THEN keptFiles \ {n} ELSE keptFiles
            /\ UNCHANGED <<link, dirs, stateDir>>
        BY <1>1, <1>7, <2>1 DEF openStateFile, StepDone, StepFails, Goto, Dynamic
      <3>2. /\ stateFile'[n] = Corrupt /\ (n \in keptFiles' <=> n \in keptFiles /\ phase[o] # "install")
            /\ \A m \in Names \ {n} : /\ stateFile'[m] = stateFile[m]
                                      /\ m \in keptFiles' <=> m \in keptFiles
        BY <1>1, <3>1
      <3> QED BY <2>1, <3>1, <3>2 DEF HostStep, OthersKept
    <2>2. CASE pc'[t] # "write"
      <3>1. /\ pc[t] = "store" /\ (pc'[t] = "run" => ~Dynamic(o))
            /\ UNCHANGED <<stateFile, keptFiles, link, dirs, stateDir>>
        BY <1>1, <1>7, <2>2 DEF openStateFile, StepDone, StepFails, Goto, Dynamic
      <3> QED BY <2>2, <3>1 DEF HostStep, OthersKept
    <2> QED BY <2>1, <2>2
  <1>8. CASE writeStateFile(t)
    <2>1. CASE pc'[t] = "run"
      <3>1. /\ pc[t] = "write" /\ stateFile' = [stateFile EXCEPT ![n] = Encoded(o)]
            /\ UNCHANGED <<keptFiles, link, dirs, stateDir>>
        BY <1>1, <1>8, <2>1 DEF writeStateFile, StepDone, StepFails, Goto
      <3>2. stateFile'[n] = Encoded(o) /\ \A m \in Names \ {n} : stateFile'[m] = stateFile[m]
        BY <1>1, <3>1
      <3> QED BY <2>1, <3>1, <3>2 DEF HostStep, OthersKept
    <2>2. CASE pc'[t] # "run"
      <3>1. /\ pc[t] = "write" /\ pc'[t] = "failed"
            /\ UNCHANGED <<stateFile, keptFiles, link, dirs, stateDir>>
        BY <1>1, <1>8, <2>2 DEF writeStateFile, StepDone, StepFails, Goto
      <3> QED BY <3>1 DEF HostStep, OthersKept
    <2> QED BY <2>1, <2>2
  <1> QED BY <1>3, <1>4, <1>5, <1>6, <1>7, <1>8 DEF Step

\* DurInv stays when only the plugin k and requests for it change, and k is in order afterwards.
LEMMA DurFrame ==
    ASSUME IInv, DurInv, NEW k \in Names, doomed' = doomed, OthersKept(k), ~AllStopped,
           \A m \in Names \ {k} : plugins'[m] = plugins[m],
           \A x \in Slots : \/ /\ pc'[Req(x)] = pc[Req(x)] /\ steps'[Req(x)] = steps[Req(x)]
                               /\ phase'[x] = phase[x] /\ req'[x] = req[x]
                            \/ req[x].name \in {k, None} /\ req'[x].name = k,
           \A x \in Slots : WriteOK(Req(x))' /\ WriteOK(Mon(x))',
           NameOK(k)'
    PROVE  DurInv'
  <1>1. ASSUME NEW m \in Names \ {k} PROVE NameOK(m)'
    <2>1. NameOK(m) /\ MapOK(m)
      BY DEF DurInv, IInv, WellFormed
    <2>2. ASSUME NEW x \in Slots, req[x].name = m \/ req'[x].name = m
          PROVE  /\ pc'[Req(x)] = pc[Req(x)] /\ steps'[Req(x)] = steps[Req(x)]
                 /\ phase'[x] = phase[x] /\ req'[x] = req[x]
      BY <2>2
    <2>3. Wiped(m)' <=> Wiped(m)
      <3>1. ASSUME NEW x \in Slots, req[x].name = m \/ req'[x].name = m
            PROVE  Wipes(x)' <=> Wipes(x)
        BY <2>2, <3>1 DEF Wipes, Working, Active
      <3> QED BY <2>2, <3>1 DEF Wiped
    <2>4. /\ stateFile'[m] = stateFile[m] /\ (m \in keptFiles' <=> m \in keptFiles)
          /\ Recorded(m)' <=> Recorded(m)
          /\ plugins'[m] = plugins[m]
      BY DEF OthersKept, Recorded
    <2>5. \A r : Whole(m, r) => /\ link'[m] = r /\ <<m, r>> \in dirs' /\ m \in stateDir'
      BY DEF OthersKept, Whole
    <2>6. FileOK(m)'
      BY <2>1, <2>3, <2>4, <2>5 DEF NameOK, FileOK, Whole
    <2>7. ASSUME NEW o \in Slots, plugins'[m] = o PROVE OwnOK(m, o)'
      <3>1. OwnOK(m, o) /\ req[o].name = m
        BY <2>1, <2>4, <2>7 DEF NameOK, MapOK
      <3>2. /\ pc'[Req(o)] = pc[Req(o)] /\ steps'[Req(o)] = steps[Req(o)]
            /\ phase'[o] = phase[o] /\ req'[o] = req[o]
        BY <2>2, <3>1
      <3>3. /\ Dynamic(o)' <=> Dynamic(o)
            /\ Launched(o)' <=> Launched(o)
            /\ Working(o)' <=> Working(o)
        BY <3>2 DEF Dynamic, Launched, Working, Active
      <3> QED BY <2>3, <2>4, <2>5, <3>1, <3>2, <3>3 DEF OwnOK, Whole
    <2> QED BY <2>6, <2>7 DEF NameOK
  <1> QED BY <1>1 DEF DurInv

\* A thread that works on a plugin works on the object that the manager holds, or is an upgrade
\* that prepares another revision beside it; the plugin has not been cleaned up.
LEMMA StepOwner ==
    ASSUME IInv, OneRequestPerPlugin, FlowInv, MonInv, NEW t \in Threads, Step(t),
           NEW o \in Slots, o = Target(t), NEW n \in Names, n = req[o].name
    PROVE  /\ ~Wiped(n) /\ ~AllStopped
           /\ \A s \in Slots : t = Req(s) => Working(s) /\ req[s].name = n
           /\ \/ plugins[n] = o
              \/ \E s \in Slots : /\ t = Req(s) /\ phase[s] = "prelaunch" /\ o = s
                                  /\ curr[s] \in Slots /\ plugins[n] = curr[s]
                                  /\ req[curr[s]].rev # req[s].rev
  <1>1. PICK l, w : Transition(t, l, w)
    BY StepTransition
  <1>2. pc[t] \in StepPc \cup {"run", "check"}
    BY <1>1, TransitionPoint
  <1>3. ~(pc[t] = "run" /\ steps[t] = <<>>)
    BY <1>1 DEF Transition
  <1>4. PICK s \in Slots : t = Req(s) \/ t = Mon(s)
    BY DEF Threads, Req, Mon
  <1>5. CASE t = Req(s)
    <2>1. Working(s) /\ Active(s) /\ ~AllStopped
      BY <1>2, <1>5 DEF Working, Active, StepPc, AllStopped
    <2>2. RefOK(s) /\ PlaceOK(s) /\ ReqOK(s) /\ FitOK(s) /\ phase[s] \in PhaseType
          /\ curr[s] \in Slots \cup {None}
      BY DEF FlowInv, IInv, WellFormed, TypeOK
    <2>3. phase[s] # None
      BY <1>2, <1>5, <2>2 DEF ReqOK, StepPc
    <2>4. o = IF phase[s] \in {"replace", "remove", "apply"} THEN curr[s] ELSE s
      BY <1>5 DEF Target, Req
    <2>5. req[s].name = n
      BY <2>2, <2>4 DEF RefOK, ReqOK
    <2>6. \A x \in Slots : t = Req(x) => x = s
      BY <1>5 DEF Req
    <2>7. ~Wiped(n)
      <3> SUFFICES ASSUME NEW x \in Slots, Wipes(x), req[x].name = n PROVE FALSE
        BY DEF Wiped
      <3>1. x = s
        BY <2>1, <2>5 DEF Wipes, Working, OneRequestPerPlugin
      <3> QED BY <1>3, <1>5, <3>1 DEF Wipes
    <2>8. phase[s] # "prelaunch" => plugins[n] = o
      BY <1>2, <1>5, <2>1, <2>2, <2>3, <2>4, <2>5 DEF PlaceOK, PhaseType, StepPc
    <2>9. phase[s] = "prelaunch" => /\ o = s /\ curr[s] \in Slots /\ plugins[n] = curr[s]
                                    /\ req[curr[s]].rev # req[s].rev
      BY <2>1, <2>2, <2>4, <2>5 DEF PlaceOK, RefOK, ReqOK
    <2> QED BY <1>5, <2>1, <2>5, <2>6, <2>7, <2>8, <2>9
  <1>6. CASE t = Mon(s)
    <2>1. ~Dead(s) /\ o = s /\ \A x \in Slots : t # Req(x)
      BY <1>2, <1>6 DEF Dead, StepPc, Target, Mon, Req
    <2>2. plugins[n] = s
      BY <2>1, LiveFacts
    <2>3. ~Wiped(n)
      <3> SUFFICES ASSUME NEW x \in Slots, Wipes(x), req[x].name = n PROVE FALSE
        BY DEF Wiped
      <3>1. curr[x] = s
        BY <2>2 DEF Wipes, FlowInv, PlaceOK
      <3> QED BY <2>1, <3>1 DEF Wipes, Working, MonInv, StopOK
    <2> QED BY <2>1, <2>2, <2>3 DEF AllStopped
  <1> QED BY <1>4, <1>5, <1>6

\* A plugin is cleaned up by the step that cleans it up and by no other.
LEMMA StepWiped ==
    ASSUME IInv, OneRequestPerPlugin, FlowInv, MonInv, NEW t \in Threads, Step(t),
           NEW o \in Slots, o = Target(t), NEW n \in Names, n = req[o].name
    PROVE  Wiped(n)' <=> pc[t] = "clean"
  <1>1. PICK l, w : Transition(t, l, w)
    BY StepTransition
  <1>2. /\ \A u \in Threads : pc'[u] = IF u = t THEN l ELSE pc[u]
        /\ \A u \in Threads : steps'[u] = IF u = t THEN w ELSE steps[u]
        /\ UNCHANGED <<phase, req>>
    BY <1>1, StepFrame DEF Transition, OnlySteps
  <1>3. PICK s \in Slots : t = Req(s) \/ t = Mon(s)
    BY DEF Threads, Req, Mon
  <1>4. PointOK(t) /\ StepOK(t) /\ FitOK(s) /\ RefOK(s) /\ ReqOK(s) /\ phase[s] \in PhaseType
    BY <1>3 DEF FlowInv, IInv, WellFormed, TypeOK
  <1>5. ASSUME Wiped(n)' PROVE pc[t] = "clean"
    <2>1. PICK x \in Slots : Wipes(x)' /\ req[x].name = n
      BY <1>2, <1>5 DEF Wiped
    <2>2. ~Wipes(x)
      BY <2>1, StepOwner DEF Wiped
    <2>3. t = Req(x)
      BY <1>2, <2>1, <2>2, ThreadFacts DEF Wipes, Working, Active
    <2>4. x = s
      BY <1>3, <2>3 DEF Req, Mon
    <2>5. l = "run" /\ w = <<>> /\ phase[s] \in {"replace", "remove"}
      BY <1>2, <2>1, <2>3, <2>4 DEF Wipes
    <2>6. steps[t] \in Removals /\ pc[t] # "check"
      BY <1>4, <2>3, <2>4, <2>5 DEF FitOK, RefOK
    <2>7. steps[t] # <<>>
      BY <1>1, <2>6 DEF Transition
    <2>8. Head(steps[t]) = "remove"
      BY <2>6, <2>7, Workflows DEF Removals
    <2> QED BY <1>1, <1>4, <2>5, <2>6, <2>7, <2>8 DEF Transition, PointOK
  <1>6. ASSUME pc[t] = "clean" PROVE Wiped(n)'
    <2>1. Head(steps[t]) = "remove" /\ steps[t] # <<>>
      BY <1>4, <1>6 DEF PointOK, StepOK, StepPc
    <2>2. t = Req(s)
      BY <1>3, <1>4, <2>1, Workflows DEF FitOK, Relaunches
    <2>3. phase[s] # None
      BY <1>4, <1>6, <2>2 DEF ReqOK
    <2>4. phase[s] \in {"replace", "remove"} /\ steps[t] \in Removals
      BY <1>4, <2>1, <2>2, <2>3, Workflows
         DEF FitOK, Relaunches, Installs, Prelaunches, PhaseType
    <2>5. Tail(steps[t]) = <<>>
      BY <2>1, <2>4, Workflows DEF Removals
    <2>6. l = "run" /\ w = <<>>
      <3>1. HostStep(t, o)
        BY StepHost
      <3>2. pc'[t] = "run"
        BY <1>6, <3>1 DEF HostStep
      <3>3. l = "run"
        BY <1>2, <3>2
      <3> QED BY <1>1, <1>6, <2>5, <3>3 DEF Transition
    <2>7. Wipes(s)'
      BY <1>2, <2>2, <2>4, <2>6 DEF Wipes, Working, Active
    <2>8. req'[s].name = n
      BY <1>2, <2>2, StepOwner
    <2> QED BY <2>7, <2>8 DEF Wiped
  <1> QED BY <1>5, <1>6

\* A step leaves a revision on disk unless it cleans it up or unpacks it; another revision than
\* its own, unless it launches.
LEMMA StepWhole ==
    ASSUME NEW t \in Threads, NEW o \in Slots, NEW n \in Names, n = req[o].name,
           HostStep(t, o), NEW r, Whole(n, r)
    PROVE  /\ /\ r = req[o].rev /\ pc[t] # "clean"
              /\ ~(pc[t] = "exec" /\ Head(steps[t]) = "unpack")
              => Whole(n, r)'
           /\ r # req[o].rev /\ Head(steps[t]) # "launch" => Whole(n, r)'
  <1>1. link[n] = r /\ <<n, r>> \in dirs /\ n \in stateDir
    BY DEF Whole
  <1>2. ASSUME r = req[o].rev, pc[t] # "clean",
               ~(pc[t] = "exec" /\ Head(steps[t]) = "unpack")
        PROVE  link'[n] = r /\ <<n, r>> \in dirs' /\ n \in stateDir'
    BY <1>1, <1>2 DEF HostStep
  <1>3. ASSUME r # req[o].rev, Head(steps[t]) # "launch"
        PROVE  link'[n] = r /\ <<n, r>> \in dirs' /\ n \in stateDir'
    <2>1. <<n, r>> # FullName(o)
      BY <1>3 DEF FullName
    <2> QED BY <1>1, <1>3, <2>1 DEF HostStep
  <1> QED BY <1>2, <1>3 DEF Whole

\* A thread other than the request of an object works on it only when it has been launched, and
\* then never unpacks it.
LEMMA OwnerSettled ==
    ASSUME IInv, OneRequestPerPlugin, FlowInv, MonInv, NEW t \in Threads, Step(t),
           NEW o \in Slots, o = Target(t), NEW n \in Names, n = req[o].name,
           plugins[n] = o
    PROVE  /\ t # Req(o) => Launched(o) /\ ~Working(o) /\ pc[Req(o)] # "write"
           /\ phase[o] = "load" \/ t # Req(o) => Head(steps[t]) # "unpack" \/ pc[t] # "exec"
           /\ phase[o] \in {"install", "load"}
  <1>1. PICK s \in Slots : t = Req(s) \/ t = Mon(s)
    BY DEF Threads, Req, Mon
  <1>2. /\ PointOK(t) /\ StepOK(t) /\ FitOK(s) /\ ReqOK(s) /\ phase[s] \in PhaseType
        /\ PointOK(Req(o)) /\ RefOK(o) /\ FitOK(o)
    BY <1>1 DEF FlowInv, IInv, WellFormed, TypeOK
  <1>3. phase[o] \in {"install", "load"}
    BY <1>2 DEF RefOK
  <1>4. PICK l, w : Transition(t, l, w)
    BY StepTransition
  <1>5. pc[t] \in StepPc \cup {"run", "check"}
    BY <1>4, TransitionPoint
  <1>6. CASE t = Mon(s)
    <2>1. o = s /\ pc[Mon(s)] # "off" /\ t # Req(o)
      BY <1>5, <1>6 DEF Target, Mon, Req, StepPc
    <2>2. pc[Req(o)] \in {"finish", "done"}
      BY <1>2, <2>1 DEF RefOK
    <2>3. Launched(o) /\ ~Working(o) /\ pc[Req(o)] # "write"
      BY <1>2, <2>2 DEF PointOK, StepPc, Launched, Working, Active
    <2>4. pc[t] = "exec" => Head(steps[t]) # "unpack"
      BY <1>2, <1>6, Workflows DEF FitOK, Relaunches, StepOK, StepPc
    <2> QED BY <1>3, <2>3, <2>4
  <1>7. CASE t = Req(s)
    <2>1. Working(s) /\ req[s].name = n
      BY <1>7, StepOwner
    <2>2. CASE s = o
      <3>1. phase[o] = "load" /\ pc[t] = "exec" => Head(steps[t]) # "unpack"
        BY <1>2, <1>7, <2>2, Workflows DEF FitOK, Relaunches, StepOK, StepPc
      <3> QED BY <1>3, <1>7, <2>2, <3>1
    <2>3. CASE s # o
      <3>1. ~Active(o)
        BY <2>1, <2>3 DEF Working, OneRequestPerPlugin
      <3>2. pc[Req(o)] \in ReqPc
        BY ThreadFacts DEF IInv, TypeOK
      <3>3. pc[Req(o)] \in {"free", "done"}
        BY <3>1 DEF Active
      <3>4. Launched(o) /\ ~Working(o) /\ pc[Req(o)] # "write"
        BY <1>2, <3>1, <3>3 DEF PointOK, StepPc, Launched, Working
      <3>5. phase[s] \in {"replace", "remove", "apply"}
        BY <1>7, <2>3 DEF Target, Req
      <3>6. pc[t] = "exec" => Head(steps[t]) # "unpack"
        BY <1>2, <1>7, <3>5, Workflows DEF FitOK, Removals, Relaunches, StepOK, StepPc
      <3> QED BY <1>3, <3>4, <3>6
    <2> QED BY <2>2, <2>3
  <1> QED BY <1>1, <1>6, <1>7

\* Downloading and unpacking another revision keeps what DurInv says of the plugin.
LEMMA PrelaunchName ==
    ASSUME IInv, OneRequestPerPlugin, FlowInv, MonInv, DurInv, NEW s \in Slots, Step(Req(s)),
           phase[s] = "prelaunch", NEW n \in Names, n = req[s].name,
           curr[s] \in Slots, plugins[n] = curr[s], req[curr[s]].rev # req[s].rev
    PROVE  NameOK(n)'
  <1> DEFINE t == Req(s)
  <1>1. Target(t) = s /\ t \in Threads
    BY ThreadFacts DEF Target, Req
  <1>2. HostStep(t, s) /\ ~Wiped(n) /\ (Wiped(n)' <=> pc[t] = "clean")
    BY <1>1, StepHost, StepOwner, StepWiped
  <1>3. PICK l, w : Transition(t, l, w)
    BY <1>1, StepTransition
  <1>4. /\ \A u \in Threads : pc'[u] = IF u = t THEN l ELSE pc[u]
        /\ \A u \in Threads : steps'[u] = IF u = t THEN w ELSE steps[u]
        /\ UNCHANGED <<phase, req, plugins>>
    BY <1>1, <1>3, StepFrame DEF Transition, OnlySteps
  <1>5. PointOK(t) /\ StepOK(t) /\ FitOK(s) /\ RefOK(s)
    BY <1>1 DEF FlowInv, IInv, WellFormed
  <1>6. /\ steps[t] # <<>> => Head(steps[t]) \in {"download", "unpack"}
        /\ pc[t] # "check"
    BY <1>5, Workflows DEF FitOK, RefOK, Prelaunches
  <1>7. /\ steps[t] # <<>> /\ Head(steps[t]) \in {"download", "unpack"}
        /\ pc[t] \notin {"clean", "store", "write"}
    BY <1>3, <1>5, <1>6 DEF Transition, PointOK
  <1>8. UNCHANGED <<stateFile, keptFiles>>
    BY <1>2, <1>7 DEF HostStep
  <1>9. ASSUME NEW p \in Slots, plugins[n] = p
        PROVE  /\ OwnOK(n, p) /\ FileOK(n) /\ p # s
               /\ pc'[Req(p)] = pc[Req(p)] /\ steps'[Req(p)] = steps[Req(p)]
               /\ Whole(n, req[p].rev) => Whole(n, req[p].rev)'
    <2>1. OwnOK(n, p) /\ FileOK(n) /\ p # s /\ req[p].rev # req[s].rev
      BY <1>9 DEF DurInv, NameOK
    <2>2. \A r : Whole(n, r) /\ r # req[s].rev => Whole(n, r)'
      BY <1>1, <1>2, <1>7, StepWhole
    <2>3. Whole(n, req[p].rev) => Whole(n, req[p].rev)'
      BY <1>4, <2>1, <2>2 DEF Whole
    <2>4. Req(p) \in Threads /\ Req(p) # t
      BY <2>1, ThreadFacts
    <2> QED BY <1>4, <2>1, <2>3, <2>4
  <1>10. FileOK(n)'
    <2>1. PICK p \in Slots : plugins[n] = p
      OBVIOUS
    <2>2. ~Wiped(n)' /\ (Recorded(n)' <=> Recorded(n)) /\ plugins'[n] # None
      BY <1>2, <1>4, <1>7, <1>8, <2>1 DEF Recorded
    <2>3. ASSUME Recorded(n) PROVE Whole(n, stateFile[n].rev)'
      <3>1. stateFile[n].rev = req[p].rev /\ Whole(n, stateFile[n].rev)
        BY <1>9, <2>1, <2>3 DEF OwnOK, FileOK
      <3>2. Whole(n, req[p].rev)'
        BY <1>9, <2>1, <3>1
      <3> QED BY <1>4, <1>8, <3>1, <3>2 DEF Whole
    <2> QED BY <2>2, <2>3 DEF FileOK
  <1>11. ASSUME NEW p \in Slots, plugins'[n] = p PROVE OwnOK(n, p)'
    <2>1. plugins[n] = p
      BY <1>4, <1>11
    <2>2. /\ OwnOK(n, p) /\ pc'[Req(p)] = pc[Req(p)] /\ steps'[Req(p)] = steps[Req(p)]
          /\ Whole(n, req[p].rev) => Whole(n, req[p].rev)'
      BY <1>9, <2>1
    <2>3. /\ Dynamic(p)' <=> Dynamic(p)
          /\ Launched(p)' <=> Launched(p)
          /\ Working(p)' <=> Working(p)
          /\ Recorded(n)' <=> Recorded(n)
      BY <1>4, <1>8, <2>2 DEF Dynamic, Launched, Working, Active, Recorded
    <2> QED BY <1>2, <1>4, <1>7, <1>8, <2>2, <2>3 DEF OwnOK
  <1> QED BY <1>10, <1>11 DEF NameOK

\* What a step on the object that the manager holds finds and leaves in the state file.
LEMMA OwnerFile ==
    ASSUME IInv, OneRequestPerPlugin, FlowInv, MonInv, DurInv, NEW t \in Threads, Step(t),
           NEW o \in Slots, o = Target(t), NEW n \in Names, n = req[o].name, plugins[n] = o
    PROVE  /\ HostStep(t, o) /\ ~Wiped(n) /\ (Wiped(n)' <=> pc[t] = "clean")
           /\ OwnOK(n, o) /\ FileOK(n) /\ PointOK(t) /\ StepOK(t) /\ WriteOK(t)
           /\ UNCHANGED <<phase, req, plugins>>
           /\ pc[t] = "write" => /\ Dynamic(o)
                                /\ \/ n \in keptFiles /\ phase[o] = "load"
                                   \/ n \notin keptFiles /\ Whole(n, req[o].rev)
           /\ Recorded(n) => ~(pc[t] = "exec" /\ Head(steps[t]) = "unpack")
           /\ Recorded(n) /\ phase[o] = "install" => t # Req(o)
           /\ FileOK(n)'
  <1>1. HostStep(t, o) /\ ~Wiped(n) /\ (Wiped(n)' <=> pc[t] = "clean")
    BY StepHost, StepOwner, StepWiped
  <1>2. OwnOK(n, o) /\ FileOK(n)
    BY DEF DurInv, NameOK
  <1>3. PointOK(t) /\ StepOK(t) /\ WriteOK(t)
    <2>1. PICK s \in Slots : t = Req(s) \/ t = Mon(s)
      BY DEF Threads, Req, Mon
    <2> QED BY <2>1 DEF FlowInv, IInv, WellFormed, DurInv
  <1>4. UNCHANGED <<phase, req, plugins>>
    BY StepFrame DEF OnlySteps
  <1>5. /\ t # Req(o) => Launched(o) /\ ~Working(o) /\ pc[Req(o)] # "write"
        /\ phase[o] = "load" \/ t # Req(o) => Head(steps[t]) # "unpack" \/ pc[t] # "exec"
        /\ phase[o] \in {"install", "load"}
    BY OwnerSettled
  <1>6. ASSUME pc[t] = "write"
        PROVE  /\ Dynamic(o)
               /\ \/ n \in keptFiles /\ phase[o] = "load"
                  \/ n \notin keptFiles /\ Whole(n, req[o].rev)
    <2>1. Dynamic(o)
      BY <1>3, <1>6 DEF WriteOK
    <2>2. CASE t = Req(o)
      BY <1>2, <1>5, <1>6, <2>1, <2>2 DEF OwnOK
    <2>3. CASE t # Req(o)
      BY <1>1, <1>2, <1>5, <2>1, <2>3 DEF OwnOK
    <2> QED BY <2>1, <2>2, <2>3
  <1>7. ASSUME Recorded(n), phase[o] = "install", t = Req(o) PROVE FALSE
    <2>1. Working(o)
      BY <1>7, StepOwner
    <2>2. pc[t] = "run" /\ steps[t] = <<>>
      BY <1>2, <1>7, <2>1 DEF OwnOK
    <2>3. PICK l, w : Transition(t, l, w)
      BY StepTransition
    <2> QED BY <2>2, <2>3 DEF Transition
  <1>8. Recorded(n) => ~(pc[t] = "exec" /\ Head(steps[t]) = "unpack")
    BY <1>5, <1>7
  <1>9. FileOK(n)'
    <2>1. plugins'[n] # None
      BY <1>4
    <2>2. Wiped(n)' => ~Recorded(n)'
      BY <1>1 DEF HostStep, Recorded
    <2>3. ASSUME Recorded(n)' PROVE Whole(n, stateFile[n].rev)'
      <3>1. stateFile'[n] \notin {None, Corrupt} /\ n \notin keptFiles'
        BY <2>3 DEF Recorded
      <3>2. CASE pc[t] = "write" /\ stateFile'[n] = Encoded(o)
        <4>1. stateFile'[n].rev = req[o].rev
          BY <3>2 DEF Encoded
        <4>2. \A r : Whole(n, r) /\ r = req[o].rev => Whole(n, r)'
          BY <1>1, <3>2, StepWhole
        <4>3. link'[n] = req[o].rev /\ <<n, req[o].rev>> \in dirs' /\ n \in stateDir'
          BY <1>1, <1>6, <3>1, <3>2, <4>2 DEF Whole, HostStep
        <4> QED BY <4>1, <4>3 DEF Whole
      <3>3. CASE ~(pc[t] = "write" /\ stateFile'[n] = Encoded(o))
        <4>1. /\ stateFile'[n] = stateFile[n] /\ pc[t] # "clean"
              /\ n \notin keptFiles
          BY <1>1, <3>1, <3>3 DEF HostStep
        <4>2. Recorded(n)
          BY <3>1, <4>1 DEF Recorded
        <4>3. stateFile[n].rev = req[o].rev /\ Whole(n, stateFile[n].rev)
          BY <1>2, <4>2 DEF OwnOK, FileOK
        <4>4. \A r : Whole(n, r) /\ r = req[o].rev => Whole(n, r)'
          BY <1>1, <1>8, <4>1, <4>2, StepWhole
        <4>5. link'[n] = req[o].rev /\ <<n, req[o].rev>> \in dirs' /\ n \in stateDir'
          BY <4>3, <4>4 DEF Whole
        <4> QED BY <4>1, <4>3, <4>5 DEF Whole
      <3> QED BY <3>2, <3>3
    <2> QED BY <2>1, <2>2, <2>3 DEF FileOK
  <1> QED BY <1>1, <1>2, <1>3, <1>4, <1>6, <1>7, <1>8, <1>9

\* A step on the object that the manager holds keeps what DurInv says of the plugin.
LEMMA OwnerName ==
    ASSUME IInv, OneRequestPerPlugin, FlowInv, MonInv, DurInv, NEW t \in Threads, Step(t),
           NEW o \in Slots, o = Target(t), NEW n \in Names, n = req[o].name, plugins[n] = o
    PROVE  NameOK(n)'
  <1>1. /\ HostStep(t, o) /\ ~Wiped(n) /\ (Wiped(n)' <=> pc[t] = "clean")
        /\ OwnOK(n, o) /\ PointOK(t) /\ StepOK(t)
        /\ UNCHANGED <<phase, req, plugins>>
        /\ pc[t] = "write" => /\ Dynamic(o)
                             /\ \/ n \in keptFiles /\ phase[o] = "load"
                                \/ n \notin keptFiles /\ Whole(n, req[o].rev)
        /\ Recorded(n) /\ phase[o] = "install" => t # Req(o)
        /\ FileOK(n)'
    BY OwnerFile
  <1>2. /\ t # Req(o) => Launched(o) /\ ~Working(o) /\ pc[Req(o)] # "write"
        /\ phase[o] = "load" \/ t # Req(o) => Head(steps[t]) # "unpack" \/ pc[t] # "exec"
        /\ phase[o] \in {"install", "load"}
    BY OwnerSettled
  <1>3. PICK l, w : Transition(t, l, w)
    BY StepTransition
  <1>4. /\ \A u \in Threads : pc'[u] = IF u = t THEN l ELSE pc[u]
        /\ \A u \in Threads : steps'[u] = IF u = t THEN w ELSE steps[u]
        /\ Req(o) \in Threads
    BY <1>3, ThreadFacts DEF Transition
  <1>5. Dynamic(o)' <=> Dynamic(o)
    BY <1>1 DEF Dynamic
  <1>6. FitOK(o) /\ RefOK(o)
    BY DEF FlowInv
  <1>7. ASSUME t = Req(o), phase[o] = "install", l = "run", w = <<>>
        PROVE  pc[t] \in {"store", "write"}
    <2>1. steps[t] \in Installs /\ pc[t] # "check"
      BY <1>6, <1>7 DEF FitOK, RefOK
    <2>2. w = Tail(steps[t]) /\ steps[t] # <<>>
      BY <1>3, <1>7, <2>1 DEF Transition
    <2>3. Head(steps[t]) = "launch"
      BY <1>7, <2>1, <2>2, Workflows DEF Installs
    <2> QED BY <1>1, <1>3, <1>7, <2>1, <2>2, <2>3 DEF Transition, PointOK
  <1>8. ASSUME t = Req(o), phase[o] = "install", pc[t] = "write", l = "run" PROVE w = <<>>
    <2>1. steps[t] \in Installs /\ Head(steps[t]) = "launch" /\ steps[t] # <<>>
      BY <1>1, <1>6, <1>8 DEF FitOK, PointOK, StepOK, StepPc
    <2>2. Tail(steps[t]) = <<>>
      BY <2>1, Workflows DEF Installs
    <2> QED BY <1>3, <1>8, <2>1, <2>2 DEF Transition
  <1>9. ASSUME Recorded(n)'
        PROVE  \/ pc[t] = "write" /\ pc'[t] = "run" /\ stateFile'[n] = Encoded(o)
               \/ Recorded(n) /\ stateFile'[n] = stateFile[n]
    BY <1>1, <1>9 DEF HostStep, Recorded
  <1>10. Recorded(n)' => Dynamic(o)' /\ stateFile'[n].rev = req'[o].rev
    BY <1>1, <1>5, <1>9 DEF OwnOK, Encoded
  <1>11. ASSUME Recorded(n)', phase'[o] = "install", Working(o)'
         PROVE  pc'[Req(o)] = "run" /\ steps'[Req(o)] = <<>>
    <2>1. CASE t # Req(o)
      <3>1. pc'[Req(o)] = pc[Req(o)]
        BY <1>4, <2>1
      <3> QED BY <1>2, <1>11, <2>1, <3>1 DEF Working, Active
    <2>2. CASE t = Req(o)
      <3>1. phase[o] = "install"
        BY <1>1, <1>11
      <3>2. pc[t] = "write" /\ l = "run"
        BY <1>1, <1>4, <1>9, <1>11, <2>2, <3>1
      <3> QED BY <1>4, <1>8, <2>2, <3>1, <3>2
    <2> QED BY <2>1, <2>2
  <1>12. ASSUME Whole(n, req[o].rev), pc[t] # "clean",
                ~(pc[t] = "exec" /\ Head(steps[t]) = "unpack")
         PROVE  Whole(n, req[o].rev)'
    <2>1. \A r : Whole(n, r) /\ r = req[o].rev => Whole(n, r)'
      BY <1>1, <1>12, StepWhole
    <2>2. link'[n] = req[o].rev /\ <<n, req[o].rev>> \in dirs' /\ n \in stateDir'
      BY <1>12, <2>1 DEF Whole
    <2> QED BY <1>1, <2>2 DEF Whole
  <1>13. ASSUME Dynamic(o)', Launched(o)', ~Wiped(n)'
         PROVE  \/ n \in keptFiles' /\ phase'[o] = "load"
                \/ n \notin keptFiles' /\ stateFile'[n] # None /\ Whole(n, req[o].rev)'
    <2>0. /\ pc[t] # "clean" /\ (n \in keptFiles' => n \in keptFiles)
          /\ phase[o] = "load" /\ n \in keptFiles => n \in keptFiles' /\ phase'[o] = "load"
      BY <1>1, <1>13 DEF HostStep
    <2>1. stateFile[n] # None => stateFile'[n] # None
      <3>1. Encoded(o) # None /\ Corrupt # None
        <4>1. Encoded(o) \in [rev : Revs, pid : Pids \cup {None}]
          <5>1. obj[o].pid \in Pids \cup {None} /\ req[o].rev \in Revs
            BY DEF IInv, TypeOK, ObjType, WellFormed, MapOK, Object
          <5> QED BY <5>1 DEF Encoded
        <4> QED BY <4>1, NoneAssumption
      <3> QED BY <1>1, <2>0, <3>1 DEF HostStep
    <2>2. CASE Launched(o) /\ ~(pc[t] = "exec" /\ Head(steps[t]) = "unpack")
      <3>1. \/ n \in keptFiles /\ phase[o] = "load"
            \/ n \notin keptFiles /\ stateFile[n] # None /\ Whole(n, req[o].rev)
        BY <1>1, <1>5, <1>13, <2>2 DEF OwnOK
      <3> QED BY <1>12, <2>0, <2>1, <2>2, <3>1
    <2>3. CASE ~(Launched(o) /\ ~(pc[t] = "exec" /\ Head(steps[t]) = "unpack"))
      <3>1. t = Req(o) /\ phase[o] = "install"
        BY <1>2, <2>3 DEF Launched
      <3>2. l # "failed" /\ w = <<>>
        BY <1>1, <1>4, <1>13, <3>1 DEF Launched
      <3>3. l = "run"
        BY <1>3, <1>6, <3>1, <3>2 DEF Transition, RefOK
      <3>4. pc[t] \in {"store", "write"} /\ pc'[t] = "run"
        BY <1>4, <1>7, <3>1, <3>2, <3>3
      <3>5. pc[t] = "write" /\ stateFile'[n] = Encoded(o)
        BY <1>1, <1>5, <1>13, <3>4 DEF HostStep
      <3>6. Encoded(o) # None
        <4>1. Encoded(o) \in [rev : Revs, pid : Pids \cup {None}]
          <5>1. obj[o].pid \in Pids \cup {None} /\ req[o].rev \in Revs
            BY DEF IInv, TypeOK, ObjType, WellFormed, MapOK, Object
          <5> QED BY <5>1 DEF Encoded
        <4> QED BY <4>1, NoneAssumption
      <3>7. n \notin keptFiles /\ Whole(n, req[o].rev)
        BY <1>1, <3>1, <3>5
      <3> QED BY <1>12, <2>0, <3>5, <3>6, <3>7
    <2> QED BY <2>2, <2>3
  <1>14. ASSUME Dynamic(o)', pc'[Req(o)] \in {"socket", "connect", "store", "write"}
         PROVE  Whole(n, req[o].rev)'
    <2>1. CASE t # Req(o)
      <3>1. /\ pc[Req(o)] \in {"socket", "connect", "store", "write"}
        BY <1>4, <1>14, <2>1
      <3> QED BY <1>2, <2>1, <3>1 DEF Working, Active
    <2>2. CASE t = Req(o) /\ pc[t] = "exec"
      <3>1. /\ pc'[t] \in {"socket", "connect"}
        BY <1>3, <1>4, <1>14, <2>2 DEF Transition
      <3>2. link'[n] = req[o].rev /\ FullName(o) \in dirs' /\ n \in stateDir'
        BY <1>1, <1>5, <1>14, <2>2, <3>1 DEF HostStep
      <3> QED BY <1>1, <3>2 DEF Whole, FullName
    <2>3. CASE t = Req(o) /\ pc[t] # "exec"
      <3>1. pc[t] \in {"socket", "connect", "store", "write"}
        BY <1>3, <1>4, <1>14, <2>3 DEF Transition
      <3>2. Whole(n, req[o].rev)
        BY <1>1, <1>5, <1>14, <2>3, <3>1 DEF OwnOK
      <3> QED BY <1>12, <3>1, <3>2
    <2> QED BY <2>1, <2>2, <2>3
  <1>15. ASSUME phase'[o] = "install", pc'[Req(o)] = "write"
         PROVE  stateFile'[n] = Corrupt /\ n \notin keptFiles'
    <2>1. t = Req(o)
      BY <1>2, <1>4, <1>15
    <2> QED BY <1>1, <1>15, <2>1 DEF HostStep
  <1>16. OwnOK(n, o)'
    BY <1>10, <1>11, <1>13, <1>14, <1>15 DEF OwnOK
  <1> QED BY <1>1, <1>16 DEF NameOK

\* A step keeps DurInv.
LEMMA StepDur ==
    ASSUME IInv, OneRequestPerPlugin, FlowInv, MonInv, DurInv, NEW t \in Threads, Step(t)
    PROVE  DurInv'
  <1>1. PICK l, w : Transition(t, l, w)
    BY StepTransition
  <1>2. /\ \A u \in Threads : pc'[u] = IF u = t THEN l ELSE pc[u]
        /\ \A u \in Threads : steps'[u] = IF u = t THEN w ELSE steps[u]
        /\ UNCHANGED <<phase, curr, req, plugins, doomed>>
    BY <1>1, StepFrame DEF Transition, OnlySteps, chores
  <1>3. Target(t) \in Slots /\ req[Target(t)].name \in Names
    <2>1. pc[t] \in StepPc \cup {"run", "check"}
      BY <1>1, TransitionPoint
    <2> QED BY <2>1, StepFacts DEF StepData
  <1>4. PICK o \in Slots : o = Target(t)
    BY <1>3
  <1>5. PICK n \in Names : n = req[o].name
    BY <1>3, <1>4
  <1>6. NameOK(n)'
    <2>1. CASE plugins[n] = o
      BY <1>4, <1>5, <2>1, OwnerName
    <2>2. CASE plugins[n] # o
      <3>1. PICK s \in Slots : /\ t = Req(s) /\ phase[s] = "prelaunch" /\ o = s
                               /\ curr[s] \in Slots /\ plugins[n] = curr[s]
                               /\ req[curr[s]].rev # req[s].rev
        BY <1>4, <1>5, <2>2, StepOwner
      <3> QED BY <1>5, <3>1, PrelaunchName
    <2> QED BY <2>1, <2>2
  <1>7. /\ HostStep(t, o) /\ OthersKept(n) /\ ~AllStopped
        /\ \A s \in Slots : t = Req(s) => req[s].name = n
    BY <1>4, <1>5, StepHost, StepOwner
  <1>8. ASSUME NEW u \in Threads, WriteOK(u) PROVE WriteOK(u)'
    <2>1. Target(u)' = Target(u) /\ (Dynamic(Target(u))' <=> Dynamic(Target(u)))
      BY <1>2 DEF Target, Dynamic
    <2>2. CASE u # t
      BY <1>2, <1>8, <2>1, <2>2 DEF WriteOK
    <2>3. CASE u = t
      BY <1>4, <1>7, <2>1, <2>3 DEF WriteOK, HostStep
    <2> QED BY <2>2, <2>3
  <1>9. \A x \in Slots : WriteOK(Req(x))' /\ WriteOK(Mon(x))'
    BY <1>8, ThreadFacts DEF DurInv
  <1>10. ASSUME NEW x \in Slots
         PROVE  \/ /\ pc'[Req(x)] = pc[Req(x)] /\ steps'[Req(x)] = steps[Req(x)]
                   /\ phase'[x] = phase[x] /\ req'[x] = req[x]
                \/ req[x].name \in {n, None} /\ req'[x].name = n
    BY <1>2, <1>7, ThreadFacts
  <1> QED BY <1>2, <1>6, <1>7, <1>9, <1>10, DurFrame

\* No other thread becomes a writer when one request moves.
LEMMA WriteFrame ==
    ASSUME IInv, FlowInv, MonInv, DurInv, NEW s \in Slots, pc'[Req(s)] # "write",
           \A x \in Slots \ {s} : /\ pc'[Req(x)] = pc[Req(x)] /\ req'[x] = req[x]
                                  /\ phase'[x] = phase[x] /\ curr'[x] = curr[x],
           \A x \in Slots : pc'[Mon(x)] = pc[Mon(x)] \/ pc'[Mon(x)] # "write",
           req'[s] = req[s] \/ phase[s] = None
    PROVE  \A x \in Slots : WriteOK(Req(x))' /\ WriteOK(Mon(x))'
  <1>1. ASSUME NEW x \in Slots, pc'[Mon(x)] = "write" PROVE Dynamic(Target(Mon(x)))'
    <2>1. pc[Mon(x)] = "write" /\ Target(Mon(x)) = x /\ Target(Mon(x))' = x
      BY <1>1 DEF Target, Mon
    <2>2. req'[x] = req[x]
      <3>1. ~Dead(x)
        BY <2>1 DEF Dead
      <3>2. plugins[req[x].name] = x /\ req[x].name \in Names
        BY <3>1, LiveFacts DEF Object
      <3>3. phase[x] # None
        BY <3>2 DEF FlowInv, RefOK
      <3> QED BY <3>3
    <2> QED BY <2>1, <2>2 DEF DurInv, WriteOK, Dynamic
  <1>2. ASSUME NEW x \in Slots, pc'[Req(x)] = "write" PROVE Dynamic(Target(Req(x)))'
    <2>1. x # s /\ pc[Req(x)] = "write"
      BY <1>2
    <2>2. /\ Target(Req(x)) = Target(Req(x))'
          /\ Target(Req(x)) \in {x, curr[x]} /\ Target(Req(x)) \in Slots
      <3>1. StepData(Req(x))
        BY <2>1, StepFacts, ThreadFacts DEF StepPc
      <3>2. Target(Req(x)) \in {x, curr[x]} /\ Target(Req(x)) = Target(Req(x))'
        BY <2>1 DEF Target, Req
      <3> QED BY <3>1, <3>2 DEF StepData
    <2>3. req'[Target(Req(x))] = req[Target(Req(x))]
      <3>1. CASE Target(Req(x)) # s
        BY <2>2, <3>1
      <3>2. CASE Target(Req(x)) = s
        <4>1. curr[x] = s /\ curr[x] # None
          BY <2>1, <2>2, <3>2
        <4>2. phase[s] # None
          BY <4>1 DEF FlowInv, RefOK
        <4> QED BY <3>2, <4>2
      <3> QED BY <3>1, <3>2
    <2>4. Dynamic(Target(Req(x)))
      BY <2>1 DEF DurInv, WriteOK
    <2> QED BY <2>2, <2>3, <2>4 DEF Dynamic
  <1> QED BY <1>1, <1>2 DEF WriteOK

\* The only request for a plugin is the one that may have cleaned it up.
LEMMA OnlyOne ==
    ASSUME OneRequestPerPlugin, NEW s \in Slots, Active(s), NEW n, n = req[s].name, ~Wipes(s)
    PROVE  ~Wiped(n)
  BY DEF Wiped, Wipes, Working, OneRequestPerPlugin

\* What is on disk depends on the disk alone.
LEMMA WholeSame ==
    ASSUME UNCHANGED <<link, dirs, stateDir>>, NEW n, NEW r
    PROVE  Whole(n, r)' <=> Whole(n, r)
  BY DEF Whole

\* DurInv stays when one request moves and the disk and plugins do not change, if its object is
\* not in plugins or has been launched.
LEMMA DurMove ==
    ASSUME IInv, FlowInv, MonInv, DurInv, NEW s \in Slots, NEW n \in Names,
           UNCHANGED <<plugins, stateFile, keptFiles, link, dirs, stateDir, doomed>>,
           ~AllStopped, req[s].name \in {n, None}, req'[s].name = n,
           \A x \in Slots \ {s} : /\ pc'[Req(x)] = pc[Req(x)] /\ steps'[Req(x)] = steps[Req(x)]
                                  /\ phase'[x] = phase[x] /\ curr'[x] = curr[x]
                                  /\ req'[x] = req[x],
           \A x \in Slots : pc'[Mon(x)] = pc[Mon(x)] \/ pc'[Mon(x)] # "write",
           req'[s] = req[s] \/ phase[s] = None,
           ~Wipes(s), ~Wipes(s)', pc'[Req(s)] # "write",
           plugins[n] = s => /\ phase'[s] = phase[s] /\ req'[s] = req[s]
                             /\ Launched(s) /\ pc'[Req(s)] \in {"finish", "done"}
    PROVE  DurInv'
  <1>1. NameOK(n)
    BY DEF DurInv
  <1>2. Wiped(n)' <=> Wiped(n)
    <2>1. ASSUME NEW x \in Slots PROVE Wipes(x)' /\ req'[x].name = n <=> Wipes(x) /\ req[x].name = n
      <3>1. CASE x = s
        BY <3>1
      <3>2. CASE x # s
        BY <3>2 DEF Wipes, Working, Active
      <3> QED BY <3>1, <3>2
    <2> QED BY <2>1 DEF Wiped
  <1>3. /\ Recorded(n)' <=> Recorded(n)
        /\ \A r : Whole(n, r)' <=> Whole(n, r)
    BY WholeSame DEF Recorded
  <1>4. FileOK(n)'
    <2>1. Recorded(n) => Whole(n, stateFile[n].rev)'
      BY <1>1, <1>3 DEF NameOK, FileOK, Whole
    <2> QED BY <1>1, <1>2, <1>3, <2>1 DEF NameOK, FileOK
  <1>5. ASSUME NEW p \in Slots, plugins'[n] = p PROVE OwnOK(n, p)'
    <2>1. OwnOK(n, p)
      BY <1>1, <1>5 DEF NameOK
    <2>2. req'[p] = req[p] /\ phase'[p] = phase[p] /\ (Dynamic(p)' <=> Dynamic(p))
      BY <1>5 DEF Dynamic
    <2>3. Whole(n, req[p].rev)' <=> Whole(n, req[p].rev)
      BY <2>2 DEF Whole
    <2>4. CASE p # s
      <3>1. pc'[Req(p)] = pc[Req(p)] /\ steps'[Req(p)] = steps[Req(p)]
        BY <2>4
      <3>2. /\ Launched(p)' <=> Launched(p)
            /\ Working(p)' <=> Working(p)
        BY <2>2, <3>1 DEF Launched, Working, Active
      <3> QED BY <1>2, <1>3, <2>1, <2>2, <2>3, <3>1, <3>2 DEF OwnOK
    <2>5. CASE p = s
      <3>1. Launched(p) /\ pc'[Req(p)] \in {"finish", "done"} /\ ~Working(p)'
        BY <1>5, <2>5 DEF Working, Active
      <3> QED BY <1>2, <1>3, <2>1, <2>2, <2>3, <3>1 DEF OwnOK
    <2> QED BY <2>4, <2>5
  <1>6. NameOK(n)'
    BY <1>4, <1>5 DEF NameOK
  <1>7. \A x \in Slots : WriteOK(Req(x))' /\ WriteOK(Mon(x))'
    BY WriteFrame
  <1>8. OthersKept(n)
    BY DEF OthersKept
  <1> QED BY <1>6, <1>7, <1>8, DurFrame

\* DurInv stays when a request drops a plugin without a record from plugins, or puts in its own
\* object with its launch ahead.
LEMMA DurSwap ==
    ASSUME IInv, OneRequestPerPlugin, FlowInv, MonInv, DurInv, NEW s \in Slots, Active(s),
           NEW n \in Names, n = req[s].name, ~Recorded(n),
           UNCHANGED <<stateFile, keptFiles, doomed>>, OthersKept(n),
           \A m \in Names \ {n} : plugins'[m] = plugins[m],
           req'[s].name = n,
           \A x \in Slots \ {s} : /\ pc'[Req(x)] = pc[Req(x)] /\ steps'[Req(x)] = steps[Req(x)]
                                  /\ phase'[x] = phase[x] /\ curr'[x] = curr[x]
                                  /\ req'[x] = req[x],
           \A x \in Slots : pc'[Mon(x)] = pc[Mon(x)] \/ pc'[Mon(x)] # "write",
           req'[s] = req[s] \/ phase[s] = None,
           ~Wipes(s)', pc'[Req(s)] # "write",
           \/ plugins'[n] = None
           \/ /\ plugins'[n] = s /\ phase'[s] = "install"
              /\ pc'[Req(s)] = "run" /\ steps'[Req(s)] # <<>>
    PROVE  DurInv'
  <1>1. ~Recorded(n)'
    BY DEF Recorded
  <1>2. ~Wiped(n)'
    <2> SUFFICES ASSUME NEW x \in Slots, Wipes(x)', req'[x].name = n PROVE FALSE
      BY DEF Wiped
    <2>1. x # s
      OBVIOUS
    <2>2. Active(x) /\ req[x].name = n
      BY <2>1 DEF Wipes, Working, Active
    <2> QED BY <2>1, <2>2 DEF OneRequestPerPlugin
  <1>3. FileOK(n)'
    BY <1>1, <1>2 DEF FileOK
  <1>4. ASSUME NEW p \in Slots, plugins'[n] = p PROVE OwnOK(n, p)'
    <2>1. /\ p = s /\ phase'[s] = "install" /\ pc'[Req(s)] = "run" /\ steps'[Req(s)] # <<>>
      BY <1>4
    <2>2. ~Launched(p)'
      BY <2>1 DEF Launched
    <2> QED BY <1>1, <2>1, <2>2 DEF OwnOK
  <1>5. NameOK(n)'
    BY <1>3, <1>4 DEF NameOK
  <1>6. \A x \in Slots : WriteOK(Req(x))' /\ WriteOK(Mon(x))'
    BY WriteFrame
  <1>7. ~AllStopped
    BY DEF AllStopped, Active
  <1> QED BY <1>5, <1>6, <1>7, DurFrame

\* DurInv stays when only monitors move.
LEMMA DurSame ==
    ASSUME DurInv,
           UNCHANGED <<plugins, stateFile, keptFiles, link, dirs, stateDir, doomed, phase, curr,
                       req>>,
           \A x \in Slots : pc'[Req(x)] = pc[Req(x)] /\ steps'[Req(x)] = steps[Req(x)],
           \A x \in Slots : pc'[Mon(x)] = pc[Mon(x)] \/ pc'[Mon(x)] # "write",
           AllStopped => AllStopped'
    PROVE  DurInv'
  <1>1. ASSUME NEW x \in Slots
        PROVE  /\ Wipes(x)' <=> Wipes(x)
               /\ Working(x)' <=> Working(x)
               /\ Launched(x)' <=> Launched(x)
               /\ Dynamic(x)' <=> Dynamic(x)
               /\ WriteOK(Req(x))' /\ WriteOK(Mon(x))'
    <2>1. WriteOK(Req(x)) /\ WriteOK(Mon(x))
      BY DEF DurInv
    <2>2. WriteOK(Req(x))'
      BY <2>1 DEF WriteOK, Target, Dynamic
    <2>3. WriteOK(Mon(x))'
      BY <2>1 DEF WriteOK, Target, Dynamic
    <2> QED BY <2>2, <2>3 DEF Wipes, Working, Active, Launched, Dynamic
  <1>2. ASSUME NEW n \in Names PROVE NameOK(n)'
    <2>1. NameOK(n)
      BY DEF DurInv
    <2>2. Wiped(n)' <=> Wiped(n)
      BY <1>1 DEF Wiped
    <2>3. /\ Recorded(n)' <=> Recorded(n)
          /\ \A r : Whole(n, r)' <=> Whole(n, r)
      BY WholeSame DEF Recorded
    <2>4. FileOK(n)'
      <3>1. Recorded(n) => Whole(n, stateFile[n].rev)'
        BY <2>1, <2>3 DEF NameOK, FileOK, Whole
      <3> QED BY <2>1, <2>2, <2>3, <3>1 DEF NameOK, FileOK
    <2>5. ASSUME NEW p \in Slots, plugins'[n] = p PROVE OwnOK(n, p)'
      <3>1. OwnOK(n, p)
        BY <2>1, <2>5 DEF NameOK
      <3>2. Whole(n, req[p].rev)' <=> Whole(n, req[p].rev)
        BY DEF Whole
      <3> QED BY <1>1, <2>2, <2>3, <3>1, <3>2 DEF OwnOK
    <2> QED BY <2>4, <2>5 DEF NameOK
  <1> QED BY <1>1, <1>2 DEF DurInv

\* configurePlugin keeps DurInv: a plugin that the manager does not hold has no record.
LEMMA configurePluginDur ==
    ASSUME IInv, OneRequestPerPlugin, FlowInv, MonInv, DurInv, NEW s \in Slots,
           configurePlugin(s)
    PROVE  DurInv'
  <1>1. /\ pc[Req(s)] = "dispatch" /\ phase[s] = None /\ req[s].name \in Names /\ RefOK(s)
        /\ Active(s)
    BY configurePluginEffect, DispatchFacts DEF FlowInv
  <1>2. UNCHANGED <<stateFile, keptFiles, link, dirs, stateDir, doomed>>
    BY DEF configurePlugin, host, chores
  <1>3. PICK n \in Names : n = req[s].name
    BY <1>1
  <1>4. /\ plugins[n] # s /\ ~Wipes(s) /\ ~AllStopped
    BY <1>1, <1>3 DEF RefOK, Wipes, AllStopped
  <1>5. PICK l, w, p, c : /\ ReqAt(s, l, w) /\ PhaseAt(s, p, c) /\ Revised(s)
                          /\ l \in {"finish", "run", "unmonitor"}
                          /\ l = "run" => p \in {"prelaunch", "install"}
    BY configurePluginEffect DEF Refused, StartsUpgrade, StartsInstall, StartsRemove
  <1>6. ~Wipes(s)' /\ pc'[Req(s)] # "write" /\ req'[s].name = n
    BY <1>3, <1>5 DEF Wipes, ReqAt, PhaseAt, Revised
  <1>7. /\ \A x \in Slots \ {s} : /\ pc'[Req(x)] = pc[Req(x)] /\ steps'[Req(x)] = steps[Req(x)]
                                  /\ phase'[x] = phase[x] /\ curr'[x] = curr[x]
                                  /\ req'[x] = req[x]
        /\ \A x \in Slots : pc'[Mon(x)] = pc[Mon(x)]
    BY <1>5 DEF ReqAt, PhaseAt, Revised
  <1>8. CASE Refused(s) \/ StartsUpgrade(s) \/ StartsRemove(s)
    <2>1. UNCHANGED plugins
      BY <1>8 DEF Refused, StartsUpgrade, StartsRemove
    <2> QED BY <1>1, <1>2, <1>3, <1>4, <1>6, <1>7, <2>1, DurMove
  <1>9. CASE StartsInstall(s)
    <2>1. plugins[n] = None
      BY <1>3, <1>9 DEF StartsInstall
    <2>2. ~Recorded(n)
      BY <1>4, <2>1 DEF DurInv, NameOK, FileOK
    <2>3. /\ plugins'[n] = s /\ \A m \in Names \ {n} : plugins'[m] = plugins[m]
          /\ phase'[s] = "install" /\ pc'[Req(s)] = "run"
          /\ steps'[Req(s)] = generateInstallWorkflow(req'[s].local)
      BY <1>3, <1>9 DEF StartsInstall, MapAt, PhaseAt, ReqAt
    <2>4. steps'[Req(s)] # <<>>
      BY <2>3 DEF generateInstallWorkflow
    <2>5. OthersKept(n)
      BY <1>2 DEF OthersKept
    <2> QED BY <1>1, <1>2, <1>3, <1>6, <1>7, <2>2, <2>3, <2>4, <2>5, DurSwap
  <1> QED BY <1>8, <1>9, configurePluginEffect

\* stopMonitoring, UnscheduleJob and Finish keep DurInv.
LEMMA RequestMovesDur ==
    ASSUME IInv, OneRequestPerPlugin, FlowInv, MonInv, DurInv, NEW s \in Slots,
           stopMonitoring(s) \/ UnscheduleJob(s) \/ Finish(s)
    PROVE  DurInv'
  <1>1. /\ UNCHANGED <<plugins, phase, curr, req, doomed>>
        /\ UNCHANGED <<stateFile, keptFiles, link, dirs, stateDir>>
    BY DEF stopMonitoring, UnscheduleJob, Finish, host, chores
  <1>2. /\ pc \in [Threads -> ReqPc \cup MonPc] /\ steps \in [Threads -> Seq(StepKind)]
        /\ \A x \in Slots : Req(x) \in Threads /\ Mon(x) \in Threads
        /\ \A x, y \in Slots : Mon(x) # Req(y) /\ (Req(x) = Req(y) <=> x = y)
    BY ThreadFacts DEF IInv, TypeOK
  <1>3. Active(s) /\ ~Wipes(s) /\ ~AllStopped
    BY DEF stopMonitoring, UnscheduleJob, Finish, Active, Wipes, AllStopped
  <1>4. PICK n \in Names : n = req[s].name
    BY <1>3 DEF IInv, WellFormed, ReqOK
  <1>5. /\ \A x \in Slots \ {s} : pc'[Req(x)] = pc[Req(x)] /\ steps'[Req(x)] = steps[Req(x)]
        /\ \A x \in Slots : pc'[Mon(x)] = pc[Mon(x)] \/ pc'[Mon(x)] = "gone"
        /\ \/ pc'[Req(s)] = "unschedule" /\ pc[Req(s)] = "unmonitor"
           \/ pc'[Req(s)] = "done" /\ pc[Req(s)] = "finish"
           \/ /\ pc'[Req(s)] = "run" /\ steps'[Req(s)] = <<"remove">>
              /\ pc[Req(s)] \in {"unmonitor", "unschedule"}
    <2>1. CASE UnscheduleJob(s)
      <3>1. \A x \in Slots : pc'[Req(x)] = IF x = s THEN "run" ELSE pc[Req(x)]
        BY <2>1, UnscheduleEffect
      <3>2. \A x \in Slots : steps'[Req(x)] = IF x = s THEN <<"remove">> ELSE steps[Req(x)]
        BY <2>1, UnscheduleEffect
      <3>3. \A x \in Slots : pc'[Mon(x)] = pc[Mon(x)] \/ pc'[Mon(x)] = "gone"
        BY <2>1, UnscheduleEffect
      <3>4. pc[Req(s)] = "unschedule"
        BY <2>1 DEF UnscheduleJob
      <3> QED BY <3>1, <3>2, <3>3, <3>4
    <2>2. CASE stopMonitoring(s)
      BY <1>2, <2>2 DEF stopMonitoring, RunSteps, Goto
    <2>3. CASE Finish(s)
      BY <1>2, <2>3 DEF Finish, Goto
    <2> QED BY <2>1, <2>2, <2>3
  <1>6. ~Wipes(s)' /\ pc'[Req(s)] # "write"
    BY <1>5 DEF Wipes
  <1>7. plugins[n] = s => Launched(s) /\ pc'[Req(s)] \in {"finish", "done"}
    <2> SUFFICES ASSUME plugins[n] = s PROVE Launched(s) /\ pc'[Req(s)] \in {"finish", "done"}
      OBVIOUS
    <2>1. phase[s] \in {"install", "load"} /\ ReqOK(s) /\ PointOK(Req(s))
      BY DEF FlowInv, RefOK, IInv, WellFormed
    <2>2. pc[Req(s)] = "finish" /\ pc'[Req(s)] = "done"
      BY <1>5, <2>1 DEF ReqOK
    <2> QED BY <2>1, <2>2 DEF PointOK, StepPc, Launched
  <1> QED BY <1>1, <1>3, <1>4, <1>5, <1>6, <1>7, DurMove

\* launchUpgrade keeps DurInv: the old revision has been cleaned up, and its record with it.
LEMMA launchUpgradeDur ==
    ASSUME IInv, OneRequestPerPlugin, FlowInv, MonInv, DurInv, NEW s \in Slots,
           launchUpgrade(s)
    PROVE  DurInv'
  <1>1. /\ Active(s) /\ ReqAt(s, "run", <<"launch">>) /\ PhaseAt(s, "install", curr[s])
        /\ MapAt(req[s].name, s) /\ req' = req /\ plugins[req[s].name] = None
        /\ req[s].name \in Names
        /\ UNCHANGED <<stateFile, keptFiles, link, dirs, stateDir, doomed>>
    BY launchUpgradeEffect DEF launchUpgrade, host, chores
  <1>2. PICK n \in Names : n = req[s].name
    BY <1>1
  <1>3. ~AllStopped
    BY <1>1 DEF AllStopped, Active
  <1>4. ~Recorded(n)
    BY <1>1, <1>2, <1>3 DEF DurInv, NameOK, FileOK
  <1>5. OthersKept(n)
    BY <1>1 DEF OthersKept
  <1>6. /\ plugins'[n] = s /\ phase'[s] = "install"
        /\ pc'[Req(s)] = "run" /\ steps'[Req(s)] # <<>>
        /\ \A m \in Names \ {n} : plugins'[m] = plugins[m]
    BY <1>1, <1>2 DEF MapAt, PhaseAt, ReqAt
  <1>7. ~Wipes(s)'
    BY <1>6 DEF Wipes
  <1>8. /\ \A x \in Slots \ {s} : /\ pc'[Req(x)] = pc[Req(x)] /\ steps'[Req(x)] = steps[Req(x)]
                                  /\ phase'[x] = phase[x] /\ curr'[x] = curr[x]
                                  /\ req'[x] = req[x]
        /\ \A x \in Slots : pc'[Mon(x)] = pc[Mon(x)]
    BY <1>1 DEF ReqAt, PhaseAt
  <1> QED BY <1>1, <1>2, <1>4, <1>5, <1>6, <1>7, <1>8, DurSwap

\* What a request does after a call of runSteps keeps DurInv: it takes a plugin out of plugins
\* only when it has no record.
LEMMA AfterStepsDur ==
    ASSUME IInv, OneRequestPerPlugin, FlowInv, MonInv, DurInv, NEW s \in Slots,
           \/ installed(s) \/ installFailed(s) \/ preLaunched(s) \/ upgradeFailed(s)
           \/ replaced(s) \/ removed(s) \/ removeFailed(s) \/ applied(s) \/ loaded(s)
    PROVE  DurInv'
  <1>1. PICK p : /\ StepsDone(s, p) \/ StepsFailed(s, p)
                 /\ StepsFailed(s, p) \/ p \notin {"install", "load"} \/ installed(s) \/ loaded(s)
    BY DEF installed, installFailed, preLaunched, upgradeFailed, replaced, removed, removeFailed,
       applied, loaded
  <1>2. /\ Active(s) /\ Working(s) /\ RefOK(s) /\ PlaceOK(s) /\ phase[s] = p
        /\ req[s].name \in Names /\ steps[Req(s)] = <<>>
        /\ pc[Req(s)] \in {"run", "failed"}
        /\ plugins \in [Names -> Slots \cup {None}] /\ phase \in [Slots -> PhaseType]
    BY <1>1, OverFacts
  <1>3. PICK n \in Names : n = req[s].name
    BY <1>2
  <1>4. /\ ~AllStopped /\ UNCHANGED <<stateFile, keptFiles, link, dirs, curr, req, doomed>>
        /\ UNCHANGED <<inProgress, steps>>
    BY <1>2 DEF AllStopped, Active, installed, installFailed, preLaunched, upgradeFailed,
       replaced, removed, removeFailed, applied, loaded, host, chores, memory
  <1>5. ASSUME NEW l, Leaves(s, l), l \in {"finish", "unmonitor", "launch"},
               pc'[Mon(s)] \in {pc[Mon(s)], "schedule"}
        PROVE  /\ \A x \in Slots \ {s} : /\ pc'[Req(x)] = pc[Req(x)]
                                         /\ steps'[Req(x)] = steps[Req(x)]
                                         /\ curr'[x] = curr[x] /\ req'[x] = req[x]
               /\ \A x \in Slots : pc'[Mon(x)] = pc[Mon(x)] \/ pc'[Mon(x)] # "write"
               /\ req'[s] = req[s] /\ ~Wipes(s)' /\ pc'[Req(s)] = l /\ pc'[Req(s)] # "write"
    BY <1>5 DEF Leaves, Wipes
  <1>6. ASSUME NEW l, Leaves(s, l), l \in {"finish", "unmonitor"}, ~Wipes(s),
               pc'[Mon(s)] \in {pc[Mon(s)], "schedule"}, UNCHANGED <<plugins, stateDir>>,
               \A x \in Slots \ {s} : phase'[x] = phase[x],
               plugins[n] = s => phase'[s] = phase[s] /\ Launched(s) /\ l = "finish"
        PROVE  DurInv'
    BY <1>3, <1>4, <1>5, <1>6, DurMove
  <1>7. ASSUME NEW l, Leaves(s, l), l \in {"finish", "launch"}, ~Recorded(n),
               pc'[Mon(s)] = pc[Mon(s)], plugins' = [plugins EXCEPT ![n] = None],
               stateDir' = stateDir \/ stateDir' = stateDir \ {n}, UNCHANGED phase
        PROVE  DurInv'
    <2>1. plugins'[n] = None /\ \A m \in Names \ {n} : plugins'[m] = plugins[m]
      BY <1>2, <1>7
    <2>2. OthersKept(n)
      BY <1>4, <1>7 DEF OthersKept
    <2> QED BY <1>2, <1>3, <1>4, <1>5, <1>7, <2>1, <2>2, DurSwap
  <1>8. CASE installed(s) \/ loaded(s)
    <2>1. PICK q \in {"install", "load"} : StepsDone(s, q) \/ (q = "load" /\ StepsFailed(s, q))
      BY <1>8 DEF installed, loaded
    <2>2. phase[s] = q /\ ~Wipes(s) /\ Launched(s)
      BY <1>2, <2>1 DEF StepsDone, StepsFailed, Wipes, Launched
    <2>3. /\ Leaves(s, "finish") /\ pc'[Mon(s)] \in {pc[Mon(s)], "schedule"}
          /\ UNCHANGED <<plugins, stateDir, phase>>
      BY <1>4, <1>8, LeavesEffect DEF installed, loaded, host
    <2> QED BY <1>6, <2>2, <2>3
  <1>9. CASE installFailed(s)
    <2>1. StepsFailed(s, "install")
      BY <1>9 DEF installFailed
    <2>2. plugins[n] = s
      BY <1>2, <1>3, <2>1 DEF PlaceOK, StepsFailed
    <2>3. ~Recorded(n)
      BY <1>2, <2>1, <2>2 DEF DurInv, NameOK, OwnOK, StepsFailed
    <2>4. /\ Leaves(s, "finish") /\ pc'[Mon(s)] = pc[Mon(s)]
          /\ plugins' = [plugins EXCEPT ![n] = None] /\ UNCHANGED <<stateDir, phase>>
      BY <1>3, <1>4, <1>9, LeavesEffect DEF installFailed, Conclude
    <2> QED BY <1>7, <2>3, <2>4
  <1>10. CASE preLaunched(s)
    <2>1. /\ phase[s] = "prelaunch" /\ Leaves(s, "unmonitor") /\ pc'[Mon(s)] = pc[Mon(s)]
          /\ UNCHANGED <<plugins, stateDir>> /\ phase' = [phase EXCEPT ![s] = "replace"]
      BY <1>4, <1>10, LeavesEffect DEF preLaunched, StepsDone, memory, host
    <2>2. plugins[n] # s /\ ~Wipes(s) /\ \A x \in Slots \ {s} : phase'[x] = phase[x]
      BY <1>2, <2>1 DEF RefOK, Wipes
    <2> QED BY <1>6, <2>1, <2>2
  <1>11. CASE upgradeFailed(s) \/ removeFailed(s) \/ applied(s)
    <2>1. /\ Leaves(s, "finish") /\ pc'[Mon(s)] = pc[Mon(s)]
          /\ UNCHANGED <<plugins, stateDir, phase>>
      BY <1>4, <1>11, LeavesEffect DEF upgradeFailed, removeFailed, applied, Conclude, memory, host
    <2>2. /\ phase[s] \in {"prelaunch", "replace", "remove", "apply"}
          /\ phase[s] = "apply" \/ pc[Req(s)] = "failed"
      BY <1>11 DEF upgradeFailed, removeFailed, applied, StepsDone, StepsFailed
    <2>3. plugins[n] # s /\ ~Wipes(s)
      BY <1>2, <2>2 DEF RefOK, Wipes
    <2> QED BY <1>6, <2>1, <2>3
  <1>12. CASE replaced(s) \/ removed(s)
    <2>1. PICK l : /\ Leaves(s, l) /\ l \in {"finish", "launch"} /\ pc'[Mon(s)] = pc[Mon(s)]
                   /\ plugins' = [plugins EXCEPT ![n] = None]
                   /\ stateDir' = stateDir \/ stateDir' = stateDir \ {n}
                   /\ UNCHANGED phase
      BY <1>3, <1>4, <1>12, LeavesEffect DEF replaced, removed, Conclude, host
    <2>2. Wipes(s)
      BY <1>2, <1>12 DEF replaced, removed, StepsDone, Wipes
    <2>3. ~Recorded(n)
      BY <1>3, <2>2 DEF DurInv, NameOK, FileOK, Wiped, Recorded
    <2> QED BY <1>7, <2>1, <2>3
  <1> QED BY <1>8, <1>9, <1>10, <1>11, <1>12

\* Sending the new configuration to a running plugin keeps DurInv.
LEMMA ApplyDur ==
    ASSUME IInv, OneRequestPerPlugin, FlowInv, MonInv, DurInv, NEW s \in Slots, Apply(s)
    PROVE  DurInv'
  <1>1. /\ pc[Req(s)] = "apply"
        /\ UNCHANGED <<plugins, stateFile, keptFiles, link, dirs, stateDir, doomed>>
        /\ UNCHANGED <<phase, curr, req>>
    BY DEF Apply, memory, host, chores
  <1>2. /\ Active(s) /\ ~AllStopped /\ ~Wipes(s) /\ RefOK(s) /\ ReqOK(s)
    BY <1>1 DEF Active, AllStopped, Wipes, FlowInv, IInv, WellFormed
  <1>3. phase[s] = "apply"
    BY <1>1, <1>2 DEF ReqOK
  <1>4. PICK n \in Names : n = req[s].name
    BY <1>2 DEF ReqOK
  <1>5. plugins[n] # s /\ ~Wipes(s)'
    BY <1>1, <1>2, <1>3 DEF RefOK, Wipes
  <1>6. /\ pc \in [Threads -> ReqPc \cup MonPc] /\ steps \in [Threads -> Seq(StepKind)]
        /\ \A x \in Slots : Req(x) \in Threads /\ Mon(x) \in Threads
        /\ \A x, y \in Slots : Mon(x) # Req(y) /\ (Req(x) = Req(y) <=> x = y)
    BY ThreadFacts DEF IInv, TypeOK
  <1>7. /\ \A x \in Slots \ {s} : pc'[Req(x)] = pc[Req(x)] /\ steps'[Req(x)] = steps[Req(x)]
        /\ \A x \in Slots : pc'[Mon(x)] = pc[Mon(x)]
        /\ pc'[Req(s)] # "write"
    BY <1>6 DEF Apply, Conclude, RunSteps, Goto
  <1> QED BY <1>1, <1>2, <1>4, <1>5, <1>7, DurMove

\* applyConfig keeps DurInv: it relaunches an object that stays recorded.
LEMMA applyConfigDur ==
    ASSUME IInv, OneRequestPerPlugin, FlowInv, MonInv, DurInv, NEW s \in Slots, applyConfig(s)
    PROVE  DurInv'
  <1>1. /\ pc[Req(s)] = "dispatch"
        /\ UNCHANGED <<plugins, keptFiles, link, dirs, stateDir, doomed, req, steps>>
    BY DEF applyConfig, memory, chores
  <1>2. /\ Active(s) /\ ~AllStopped /\ ~Wipes(s) /\ RefOK(s) /\ req[s].name \in Names
        /\ phase[s] = None /\ steps[Req(s)] = <<>>
        /\ phase \in [Slots -> PhaseType] /\ curr \in [Slots -> Slots \cup {None}]
        /\ plugins \in [Names -> Slots \cup {None}] /\ stateFile \in [Names -> FileType]
    BY <1>1, DispatchFacts DEF Active, AllStopped, Wipes, FlowInv, IInv, TypeOK
  <1>3. PICK n \in Names : n = req[s].name
    BY <1>2
  <1>4. /\ pc \in [Threads -> ReqPc \cup MonPc]
        /\ \A x \in Slots : Req(x) \in Threads /\ Mon(x) \in Threads
        /\ \A x, y \in Slots : Mon(x) # Req(y) /\ (Req(x) = Req(y) <=> x = y)
    BY ThreadFacts DEF IInv, TypeOK
  <1>5. /\ \A x \in Slots \ {s} : pc'[Req(x)] = pc[Req(x)]
        /\ \A x \in Slots : pc'[Mon(x)] = pc[Mon(x)]
        /\ pc'[Req(s)] \in {"finish", "apply"}
    BY <1>4 DEF applyConfig, Conclude, Goto
  <1>6. \A x \in Slots \ {s} : phase'[x] = phase[x] /\ curr'[x] = curr[x]
    BY <1>2 DEF applyConfig
  <1>7. plugins[n] # s /\ ~Wipes(s)' /\ ~Wiped(n)
    BY <1>2, <1>3, <1>5, OnlyOne DEF RefOK, Wipes
  <1>8. CASE stateFile' = stateFile
    BY <1>1, <1>2, <1>3, <1>5, <1>6, <1>7, <1>8, DurMove
  <1>9. CASE stateFile' # stateFile
    <2>1. plugins[n] \in Slots /\ ~req[plugins[n]].local
      BY <1>2, <1>3, <1>9 DEF applyConfig
    <2>2. PICK c \in Slots : c = plugins[n]
      BY <2>1
    <2>3. /\ Dynamic(c) /\ c # s /\ req[c].name = n /\ Object(c)
      BY <1>7, <2>1, <2>2 DEF Dynamic, IInv, WellFormed, MapOK
    <2>4. pc[Req(c)] \in {"free", "done"} /\ Launched(c)
      <3>1. ~Active(c)
        BY <1>2, <1>3, <2>3 DEF OneRequestPerPlugin
      <3>2. pc[Req(c)] \in {"free", "done"} /\ PointOK(Req(c))
        BY <3>1 DEF Active, FlowInv
      <3> QED BY <3>2 DEF PointOK, StepPc, Launched
    <2>5. OwnOK(n, c) /\ FileOK(n)
      BY <2>2 DEF DurInv, NameOK
    <2>6. \/ n \in keptFiles /\ phase[c] = "load"
          \/ n \notin keptFiles /\ stateFile[n] # None /\ Whole(n, req[c].rev)
      BY <1>7, <2>3, <2>4, <2>5 DEF OwnOK
    <2>7. \E v : /\ stateFile' = [stateFile EXCEPT ![n] = v]
                 /\ v \in {Encoded(c), Corrupt, stateFile[n]}
      BY <1>3, <1>9, <2>2 DEF applyConfig
    <2>8. /\ stateFile'[n] \in {Encoded(c), Corrupt, stateFile[n]}
          /\ \A m \in Names \ {n} : stateFile'[m] = stateFile[m]
      BY <1>2, <2>7
    <2>9. Encoded(c) # None /\ Corrupt # None /\ Encoded(c).rev = req[c].rev
      <3>1. Encoded(c) \in [rev : Revs, pid : Pids \cup {None}] /\ Encoded(c).rev = req[c].rev
        <4>1. obj[c].pid \in Pids \cup {None} /\ req[c].rev \in Revs
          BY <2>3 DEF IInv, TypeOK, ObjType, Object
        <4> QED BY <4>1 DEF Encoded
      <3> QED BY <3>1, NoneAssumption
    <2>10. n \notin keptFiles => stateFile'[n] # None
      BY <2>6, <2>8, <2>9
    <2>11. /\ Recorded(n)' => stateFile'[n].rev = req[c].rev
           /\ n \in keptFiles => ~Recorded(n)' /\ phase'[c] = "load"
      BY <1>1, <1>6, <2>3, <2>5, <2>6, <2>8, <2>9 DEF Recorded, OwnOK
    <2>12. n \notin keptFiles =>
             link'[n] = req[c].rev /\ <<n, req[c].rev>> \in dirs' /\ n \in stateDir'
      BY <1>1, <2>6 DEF Whole
    <2>13. ~Wiped(n)'
      <3> SUFFICES ASSUME NEW x \in Slots, Wipes(x)', req'[x].name = n PROVE FALSE
        BY DEF Wiped
      <3>1. x # s
        BY <1>7
      <3>2. Active(x) /\ req[x].name = n
        BY <1>1, <1>5, <3>1 DEF Wipes, Working, Active
      <3> QED BY <1>2, <1>3, <3>1, <3>2 DEF OneRequestPerPlugin
    <2>14. FileOK(n)'
      BY <1>1, <2>2, <2>11, <2>12, <2>13 DEF FileOK, Whole
    <2>15. ASSUME NEW p \in Slots, plugins'[n] = p PROVE OwnOK(n, p)'
      <3>1. /\ p = c /\ pc'[Req(c)] \in {"free", "done"} /\ req'[c] = req[c]
        BY <1>1, <1>5, <2>2, <2>3, <2>4, <2>15
      <3>2. Dynamic(c)' /\ ~Working(c)' /\ (n \notin keptFiles => Whole(n, req[c].rev)')
        BY <2>3, <2>12, <3>1 DEF Dynamic, Working, Active, Whole
      <3> QED BY <1>1, <2>10, <2>11, <3>1, <3>2 DEF OwnOK
    <2>16. NameOK(n)'
      BY <2>14, <2>15 DEF NameOK
    <2>17. \A x \in Slots : WriteOK(Req(x))' /\ WriteOK(Mon(x))'
      BY <1>1, <1>5, <1>6, WriteFrame
    <2>18. OthersKept(n)
      BY <1>1, <2>8 DEF OthersKept
    <2> QED BY <1>1, <1>2, <1>3, <1>5, <1>6, <2>16, <2>17, <2>18, DurFrame
  <1> QED BY <1>8, <1>9

\* A restart keeps DurInv: it puts the recorded plugins, and no other, back into plugins, with
\* their recorded revisions.
LEMMA RestartDur ==
    ASSUME IInv, DurInv, MaxScans = 0, InitPluginManager \/ InitFails
    PROVE  DurInv'
  <1>1. UNCHANGED <<stateFile, keptFiles, link, dirs, stateDir>>
    BY DEF InitPluginManager, InitFails
  <1>2. doomed' = {}
    BY DEF InitPluginManager, InitFails, IInv, TypeOK
  <1>3. \A n \in Names : NameOK(n)
    BY DEF DurInv
  <1>4. \A n \in Names : Recorded(n)' => Whole(n, stateFile[n].rev)'
    BY <1>1, <1>3 DEF NameOK, FileOK, Recorded, Whole
  <1>5. CASE InitFails
    <2>1. \A s \in Slots : pc'[Req(s)] = "done" /\ pc'[Mon(s)] = "gone"
      BY <1>5, ThreadFacts DEF InitFails, Req, Mon
    <2>2. AllStopped' /\ \A n \in Names : ~Wiped(n)'
      BY <2>1 DEF AllStopped, Dead, Wiped, Wipes
    <2>3. \A n \in Names : FileOK(n)'
      BY <1>4, <2>2 DEF FileOK
    <2>4. \A n \in Names : plugins'[n] \notin Slots
      BY <1>5 DEF InitFails
    <2>5. \A s \in Slots : WriteOK(Req(s))' /\ WriteOK(Mon(s))'
      BY <2>1 DEF WriteOK
    <2> QED BY <1>2, <2>3, <2>4, <2>5 DEF DurInv, NameOK
  <1>6. CASE InitPluginManager
    <2>1. PICK ld \in [FileNames -> Slots] : Loads(ld)
      BY <1>6, InitPluginManagerFacts
    <2> DEFINE loading == {ld[n] : n \in FileNames}
    <2>2. /\ plugins' = [n \in Names |-> IF n \in FileNames THEN ld[n] ELSE None]
          /\ \A n \in FileNames : /\ req'[ld[n]].rev = stateFile[n].rev /\ ~req'[ld[n]].local
                                  /\ phase'[ld[n]] = "load"
      BY <2>1 DEF Loads
    <2>2a. pc' = RestartedPc(loading) /\ loading \in SUBSET Slots
      BY <2>1 DEF Loads
    <2>3. \A s \in Slots : /\ pc'[Req(s)] \in {"check", "free", "done"}
                           /\ pc'[Mon(s)] \in {"off", "gone"}
      BY <2>2a, RestartedPcFacts
    <2>4. \A n \in Names : ~Wiped(n)'
      BY <2>3 DEF Wiped, Wipes
    <2>5. ASSUME NEW n \in Names PROVE NameOK(n)'
      <3>1. CASE n \in FileNames
        <4>1. /\ stateFile[n] # None /\ plugins'[n] = ld[n] /\ ld[n] \in Slots
              /\ n \notin keptFiles => Recorded(n) /\ Recorded(n)'
          BY <1>1, <1>6, <2>2, <3>1 DEF FileNames, InitPluginManager, Recorded
        <4>2. FileOK(n)'
          BY <1>4, <2>4, <4>1 DEF FileOK
        <4>3. ASSUME NEW o \in Slots, o = ld[n] PROVE OwnOK(n, o)'
          <5>1. Dynamic(o)' /\ stateFile'[n].rev = req'[o].rev /\ phase'[o] = "load"
            BY <1>1, <2>2, <3>1, <4>3 DEF Dynamic
          <5>2. n \notin keptFiles => Whole(n, req[o].rev)'
            BY <1>4, <4>1, <5>1 DEF Whole
          <5> QED BY <1>1, <2>3, <4>1, <5>1, <5>2, SMTT(20) DEF OwnOK
        <4> QED BY <4>1, <4>2, <4>3 DEF NameOK
      <3>2. CASE n \notin FileNames
        <4>1. stateFile'[n] = None /\ plugins'[n] = None
          BY <1>1, <2>2, <3>2 DEF FileNames
        <4> QED BY <2>4, <4>1 DEF NameOK, FileOK, Recorded
      <3> QED BY <3>1, <3>2
    <2>6. \A s \in Slots : WriteOK(Req(s))' /\ WriteOK(Mon(s))'
      BY <2>3 DEF WriteOK
    <2> QED BY <1>2, <2>5, <2>6 DEF DurInv
  <1> QED BY <1>5, <1>6

\* Every step of the specification keeps DurInv when the cleanup job does not run.
LEMMA NextDur ==
    ASSUME IInv, OneRequestPerPlugin, FlowInv, MonInv, DurInv, MaxScans = 0, [Next]_vars
    PROVE  DurInv'
  <1>1. CASE \/ UNCHANGED vars \/ ProcessExits \/ CancelContext
    <2>1. UNCHANGED <<plugins, stateFile, keptFiles, link, dirs, stateDir, doomed, phase, curr,
                      req, pc, steps>>
      BY <1>1 DEF vars, memory, control, host, chores, ProcessExits, CancelContext
    <2>2. AllStopped => AllStopped'
      BY <2>1 DEF AllStopped, Dead
    <2> QED BY <2>1, <2>2, DurSame
  <1>2. ASSUME NEW s \in Slots, filterPendingPluginRevisions(s) PROVE DurInv'
    <2>1. Accepted(s)
      BY <1>2, filterEffect
    <2>2. PICK n \in Names : n = req'[s].name
      BY <2>1 DEF Accepted
    <2>3. /\ phase[s] = None /\ req[s].name = None /\ RefOK(s)
      BY <2>1 DEF Accepted, FlowInv, RefOK, IInv, WellFormed, ReqOK
    <2>4. /\ ~AllStopped /\ ~Wipes(s) /\ ~Wipes(s)' /\ plugins[n] # s
      BY <2>1, <2>3 DEF Accepted, ReqAt, AllStopped, Wipes, RefOK
    <2>5. /\ UNCHANGED <<plugins, stateFile, keptFiles, link, dirs, stateDir, doomed, phase, curr>>
          /\ pc'[Req(s)] # "write"
          /\ \A x \in Slots \ {s} : /\ pc'[Req(x)] = pc[Req(x)] /\ steps'[Req(x)] = steps[Req(x)]
                                    /\ req'[x] = req[x]
          /\ \A x \in Slots : pc'[Mon(x)] = pc[Mon(x)]
      BY <2>1 DEF Accepted, ReqAt, host, chores
    <2> QED BY <2>2, <2>3, <2>4, <2>5, DurMove
  <1>3. ASSUME NEW s \in Slots, Request(s) PROVE DurInv'
    BY <1>3, configurePluginDur, applyConfigDur, ApplyDur, RequestMovesDur, AfterStepsDur,
       launchUpgradeDur, StepDur, ThreadFacts DEF Request
  <1>4. ASSUME NEW s \in Slots, UnscheduleJob(s) PROVE DurInv'
    BY <1>4, RequestMovesDur
  <1>5. ASSUME NEW s \in Slots, MonitorRun(s) \/ runOnSchedule(s) PROVE DurInv'
    <2>1. CASE Step(Mon(s))
      BY <2>1, StepDur, ThreadFacts
    <2>2. CASE \/ ScheduleJob(s) \/ addJob(s) \/ startMonitoring(s) \/ healthCheck(s)
               \/ GetStatus(s) \/ relaunched(s) \/ runOnSchedule(s)
      <3>1. PICK l : /\ MonAt(s, l, <<>>) /\ l # "write" /\ pc[Mon(s)] \notin {"off", "gone"}
                     /\ UNCHANGED <<plugins, phase, curr, req, stateFile, keptFiles, link, dirs,
                                    stateDir, doomed>>
        BY <2>2, MonitorMoves DEF host, chores, StepPc
      <3>2. ~AllStopped
        BY <3>1 DEF AllStopped, Dead
      <3> QED BY <3>1, <3>2, DurSame DEF MonAt
    <2> QED BY <1>5, <2>1, <2>2 DEF MonitorRun
  <1>6. ~scanLeftovers /\ ~removeLeftover
    BY DEF scanLeftovers, removeLeftover, DurInv, IInv, TypeOK
  <1>7. CASE InitPluginManager \/ InitFails
    BY <1>7, RestartDur
  <1> QED BY <1>1, <1>2, <1>3, <1>4, <1>5, <1>6, <1>7 DEF Next, Environment

\* Nothing is recorded at the start.
LEMMA InitDur == Init => DurInv
  <1> SUFFICES ASSUME Init PROVE DurInv
    OBVIOUS
  <1>1. \A s \in Slots : pc[Req(s)] = "free" /\ pc[Mon(s)] = "off"
    BY ThreadFacts DEF Init
  <1>2. \A n \in Names : FileOK(n) /\ plugins[n] \notin Slots
    BY <1>1 DEF Init, FileOK, Recorded, Wiped, Wipes
  <1> QED BY <1>1, <1>2 DEF Init, DurInv, NameOK, WriteOK

\* RunningPluginIsDurable holds for every value of the other constants, restarts included, when
\* ACS waits for monitors and the cleanup job does not run: once no request for a dynamic plugin
\* is in progress, the next start of the agent finds its state file, its link and its install
\* directory (Store, launchStep.Run and the order of removal in cleanup).  Each hypothesis is
\* needed: the cleanup job may delete the directory of a plugin installed after it took its list,
\* and a monitor that is not registered yet writes the state file of a plugin that has been
\* removed.  A plugin that came back from a state file cleanup could not remove is not meant.
THEOREM RunningIsDurable ==
    SpacedRequests /\ MaxScans = 0 => (Spec => []RunningPluginIsDurable)
  <1> SUFFICES ASSUME SpacedRequests, MaxScans = 0 PROVE Spec => []RunningPluginIsDurable
    OBVIOUS
  <1>1. IInv /\ OneRequestPerPlugin /\ FlowInv /\ MonInv /\ [Next]_vars => MonInv'
    BY NextMon
  <1>2. IInv /\ OneRequestPerPlugin /\ FlowInv /\ MonInv /\ DurInv /\ [Next]_vars => DurInv'
    BY NextDur
  <1>3. IInv /\ OneRequestPerPlugin /\ FlowInv /\ DurInv => RunningPluginIsDurable
    <2> SUFFICES ASSUME IInv, OneRequestPerPlugin, FlowInv, DurInv, NEW n \in Names, Quiet(n),
                        plugins[n] # None, Dynamic(plugins[n]), n \notin keptFiles
                 PROVE  /\ stateFile[n] # None
                        /\ stateFile[n] # Corrupt => stateFile[n].rev = req[plugins[n]].rev
                        /\ link[n] = req[plugins[n]].rev
                        /\ FullName(plugins[n]) \in dirs
                        /\ n \in stateDir
      BY DEF RunningPluginIsDurable, Dynamic
    <2>1. PICK o \in Slots : o = plugins[n]
      BY DEF IInv, TypeOK
    <2>2. OwnOK(n, o) /\ req[o].name = n /\ PointOK(Req(o))
      BY <2>1 DEF DurInv, NameOK, IInv, WellFormed, MapOK, FlowInv
    <2>3. ~Active(o) /\ ~Wiped(n)
      BY <2>2 DEF Quiet, OneRequestPerPlugin, Wiped, Wipes, Working
    <2>4. Launched(o)
      BY <2>2, <2>3 DEF Active, PointOK, StepPc, Launched
    <2>5. /\ stateFile[n] # None /\ Whole(n, req[o].rev)
          /\ Recorded(n) => stateFile[n].rev = req[o].rev
      BY <2>1, <2>2, <2>3, <2>4 DEF OwnOK
    <2> QED BY <2>1, <2>2, <2>5 DEF Whole, Recorded, FullName
  <1> QED BY <1>1, <1>2, <1>3, InitDur, InitProc, FlowHolds, PTL DEF Spec
=============================================================================
