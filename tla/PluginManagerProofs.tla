------------------------ MODULE PluginManagerProofs ------------------------
(***************************************************************************)
(* Proofs about PluginManager.                                             *)
(***************************************************************************)
EXTENDS PluginManager, SequenceTheorems, TLAPS

\* The slot s names a plugin object: a plugin name and a revision.
Object(s) == req[s].name \in Names /\ req[s].rev \in Revs

\* The control points inside a step of runSteps.
StepPc == {"exec", "mark", "clean", "socket", "connect", "store", "write"}

\* What the goroutine of a request relies on: it knows its plugin, whatever it
\* holds a reference to is an object, and the phase fits where it is.
ReqOK(s) ==
    /\ pc[Req(s)] = "free" => req[s].name = None
    /\ Active(s) => req[s].name \in Names
    /\ pc[Req(s)] = "dispatch" /\ req[s].action = "INSTALL" => req[s].rev \in Revs
    /\ curr[s] # None => Object(curr[s])
    /\ phase[s] \in {"prelaunch", "replace", "remove", "apply"} => curr[s] # None
    /\ phase[s] \in {"install", "prelaunch", "replace", "load"} => Object(s)
    /\ pc[Req(s)] \notin {"free", "dispatch", "finish", "done"} => phase[s] # None
    /\ pc[Req(s)] \in {"unmonitor", "unschedule"} => phase[s] \in {"replace", "remove"}
    /\ pc[Req(s)] = "apply" => phase[s] = "apply"
    /\ pc[Req(s)] = "launch" => phase[s] = "replace"

\* A monitor has an object.
MonOK(s) == pc[Mon(s)] \notin {"off", "gone"} => Object(s)

\* The manager holds objects, each under its own name.
MapOK(n) == plugins[n] # None => Object(plugins[n]) /\ req[plugins[n]].name = n

\* A goroutine inside a step has that step at the head of its workflow.
StepOK(t) == pc[t] \in StepPc => steps[t] # <<>>

WellFormed ==
    /\ \A s \in Slots : ReqOK(s)
    /\ \A s \in Slots : MonOK(s)
    /\ \A n \in Names : MapOK(n)
    /\ \A t \in Threads : StepOK(t)

IInv == TypeOK /\ WellFormed

USE ConstantsAssumption

\* Requests and monitors are different threads, one of each per slot.
LEMMA ThreadFacts ==
    ASSUME NEW s \in Slots
    PROVE  /\ Req(s) \in Threads /\ Mon(s) \in Threads
           /\ \A r \in Slots : Req(s) # Mon(r) /\ (Req(s) = Req(r) => s = r)
                                              /\ (Mon(s) = Mon(r) => s = r)
           /\ Req(s)[1] = "req" /\ Req(s)[2] = s
           /\ Mon(s)[1] = "mon" /\ Mon(s)[2] = s
  BY DEF Req, Mon, Threads

\* A thread that runs steps runs them on an object.
LEMMA TargetIsObject ==
    ASSUME IInv, NEW t \in Threads,
           t[1] = "req" => pc[t] \notin {"free", "dispatch", "finish", "done"},
           t[1] = "mon" => pc[t] \notin {"off", "gone"}
    PROVE  Target(t) \in Slots /\ Object(Target(t))
  <1>1. PICK s \in Slots : t = Req(s) \/ t = Mon(s)
    BY DEF Threads, Req, Mon
  <1>2. CASE t = Req(s)
    BY <1>2, ThreadFacts DEF IInv, TypeOK, WellFormed, ReqOK, MonOK, MapOK, StepOK, Target, PhaseType
  <1>3. CASE t = Mon(s)
    BY <1>3, ThreadFacts DEF IInv, TypeOK, WellFormed, ReqOK, MonOK, MapOK, StepOK, Target, Active
  <1> QED BY <1>1, <1>2, <1>3

\* The invariant holds when the agent starts for the first time.
LEMMA InitIInv == Init => IInv
  <1> SUFFICES ASSUME Init PROVE IInv
    OBVIOUS
  <1>2. \A s \in Slots : pc[Req(s)] = "free" /\ pc[Mon(s)] = "off"
    BY ThreadFacts DEF Init
  <1>a. obj \in [Slots -> ObjType]
    BY DEF Init, NewObj, ObjType, StatusValue
  <1>b. req \in [Slots -> ReqType] /\ phase \in [Slots -> PhaseType]
    BY DEF Init, NoReq, ReqType, PhaseType
  <1>c. pc \in [Threads -> ReqPc \cup MonPc]
    BY DEF Init, ReqPc, MonPc
  <1>d. stateFile \in [Names -> FileType]
    BY DEF Init, FileType
  <1>e. report \in [Slots -> [event : EventType,
                             verdict : {"success", "failure", None}]]
    BY DEF Init, NoReport, EventType
  <1>f. steps \in [Threads -> Seq(StepKind)]
    BY DEF Init
  <1>g. /\ plugins \in [Names -> Slots \cup {None}]
        /\ jobs \in [FullNames -> Slots \cup {None}]
        /\ curr \in [Slots -> Slots \cup {None}]
        /\ procs \in [Pids -> FullNames \cup {None}]
        /\ link \in [Names -> Revs \cup {None}]
    BY DEF Init
  <1>h. \A s \in Slots : pc[Req(s)] \in ReqPc /\ pc[Mon(s)] \in MonPc
    BY <1>2 DEF ReqPc, MonPc
  <1>1. TypeOK
    BY <1>a, <1>b, <1>c, <1>d, <1>e, <1>f, <1>g, <1>h DEF Init, TypeOK
  <1>3. WellFormed
    BY <1>2, ThreadFacts DEF Init, WellFormed, ReqOK, MonOK, MapOK, StepOK, NoReq, Active, Object, StepPc
  <1> QED BY <1>1, <1>3 DEF IInv

\* The type of what a step stores in a status.
LEMMA StepStatusType ==
    ASSUME NEW k \in StepKind
    PROVE  StepStatus(k) \in StatusValue /\ StepErrorStatus(k) \in StatusValue
  BY DEF StepKind, StepStatus, StepErrorStatus, StatusValue

\* The thread t goes on to the control point l with the workflow w, inside or at
\* the end of runSteps; no reference to an object changes.
StepMove(t, l, w) ==
    /\ pc[t] \in StepPc \cup {"run", "check"}
    /\ l \in StepPc \cup {"run", "failed"}
    /\ w \in Seq(StepKind)
    /\ l \in StepPc => w # <<>>
    /\ pc' = [pc EXCEPT ![t] = l]
    /\ steps' = [steps EXCEPT ![t] = w]
    /\ UNCHANGED <<plugins, curr, phase, req>>

\* A move inside runSteps keeps what the goroutines rely on.
LEMMA StepMoveControl ==
    ASSUME IInv, NEW t \in Threads, NEW l, NEW w, StepMove(t, l, w)
    PROVE  /\ pc' \in [Threads -> ReqPc \cup MonPc]
           /\ \A s \in Slots : pc'[Req(s)] \in ReqPc /\ pc'[Mon(s)] \in MonPc
           /\ steps' \in [Threads -> Seq(StepKind)]
           /\ WellFormed'
  <1>1. l \in ReqPc /\ l \in MonPc /\ l \notin {"free", "done", "dispatch", "finish", "off", "gone", "unmonitor", "unschedule", "apply", "launch"}
    BY DEF StepMove, StepPc, ReqPc, MonPc
  <1>2. pc[t] \notin {"free", "done", "dispatch", "finish", "off", "gone", "unmonitor", "unschedule", "apply", "launch"}
    BY DEF StepMove, StepPc
  <1>3. pc' \in [Threads -> ReqPc \cup MonPc]
    BY <1>1 DEF StepMove, IInv, TypeOK
  <1>4. \A u \in Threads : pc'[u] = IF u = t THEN l ELSE pc[u]
    BY DEF StepMove, IInv, TypeOK
  <1>5. \A u \in Threads : steps'[u] = IF u = t THEN w ELSE steps[u]
    BY DEF StepMove, IInv, TypeOK
  <1>6. steps' \in [Threads -> Seq(StepKind)]
    BY DEF StepMove, IInv, TypeOK
  <1>7. \A s \in Slots : pc'[Req(s)] \in ReqPc /\ pc'[Mon(s)] \in MonPc
    BY <1>1, <1>4, ThreadFacts DEF IInv, TypeOK
  <1>8. \A u \in Threads : pc'[u] \in StepPc => steps'[u] # <<>>
    BY <1>4, <1>5 DEF StepMove, IInv, WellFormed, ReqOK, MonOK, MapOK, StepOK
  <1>9. WellFormed'
    BY <1>1, <1>2, <1>4, <1>8, ThreadFacts
    DEF StepMove, IInv, WellFormed, ReqOK, MonOK, MapOK, StepOK, Object, Active
  <1> QED BY <1>3, <1>6, <1>7, <1>9

\* What a thread inside runSteps has at hand.
StepData(t) ==
    /\ Target(t) \in Slots
    /\ req[Target(t)].name \in Names /\ req[Target(t)].rev \in Revs
    /\ FullName(Target(t)) \in FullNames
    /\ obj \in [Slots -> ObjType]
    /\ obj[Target(t)].pid \in Pids \cup {None}
    /\ obj[Target(t)].client \in BOOLEAN
    /\ steps \in [Threads -> Seq(StepKind)]
    /\ pc \in [Threads -> ReqPc \cup MonPc]
    /\ steps[t] # <<>> =>
         /\ Head(steps[t]) \in StepKind
         /\ Tail(steps[t]) \in Seq(StepKind)
         /\ StepStatus(Head(steps[t])) \in StatusValue
         /\ StepErrorStatus(Head(steps[t])) \in StatusValue
         /\ FailedObj(t) \in ObjType
    /\ pc[t] \in StepPc => steps[t] # <<>>
    /\ procs \in [Pids -> FullNames \cup {None}]
    /\ dirs \subseteq FullNames
    /\ link \in [Names -> Revs \cup {None}]
    /\ stateFile \in [Names -> FileType] /\ keptFiles \subseteq Names
    /\ stateDir \subseteq Names
    /\ {"STOPPED", "RUNNING", "CRASHED"} \subseteq StatusValue

\* A thread inside runSteps has an object, and a workflow and a host of the right type.
LEMMA StepFacts ==
    ASSUME IInv, NEW t \in Threads, pc[t] \in StepPc \cup {"run", "check"}
    PROVE  StepData(t)
  <1>1. Target(t) \in Slots /\ Object(Target(t))
    BY TargetIsObject DEF StepPc
  <1>2. FullName(Target(t)) \in FullNames
    BY <1>1 DEF Object, FullName, FullNames
  <1>3. obj \in [Slots -> ObjType] /\ steps \in [Threads -> Seq(StepKind)]
    BY DEF IInv, TypeOK
  <1>4. obj[Target(t)].pid \in Pids \cup {None} /\ obj[Target(t)].client \in BOOLEAN
    BY <1>1, <1>3 DEF ObjType
  <1>5. ASSUME steps[t] # <<>>
        PROVE  Head(steps[t]) \in StepKind /\ Tail(steps[t]) \in Seq(StepKind)
    BY <1>3, <1>5, HeadTailProperties
  <1>6. pc[t] \in StepPc => steps[t] # <<>>
    BY DEF IInv, WellFormed, ReqOK, MonOK, MapOK, StepOK
  <1>7. pc \in [Threads -> ReqPc \cup MonPc]
    BY DEF IInv, TypeOK
  <1>8. steps[t] # <<>> => /\ StepStatus(Head(steps[t])) \in StatusValue
                          /\ StepErrorStatus(Head(steps[t])) \in StatusValue
    BY <1>5, StepStatusType
  <1>9. {"STOPPED", "RUNNING", "CRASHED"} \subseteq StatusValue
    BY DEF StatusValue
  <1>10. ASSUME steps[t] # <<>> PROVE FailedObj(t) \in ObjType
    <2>1. obj[Target(t)] \in ObjType /\ StepErrorStatus(Head(steps[t])) \in StatusValue
      BY <1>1, <1>3, <1>8, <1>10
    <2> QED BY <2>1 DEF FailedObj, ObjType
  <1> QED BY <1>1, <1>2, <1>3, <1>4, <1>5, <1>6, <1>7, <1>8, <1>9, <1>10
          DEF Object, StepData, IInv, TypeOK

\* A step preserves the invariant if it moves its thread inside runSteps and
\* leaves objects and host well typed.
LEMMA StepPreserves ==
    ASSUME IInv, NEW t \in Threads, NEW l, NEW w, StepMove(t, l, w), OnlySteps,
           obj' \in [Slots -> ObjType],
           procs' \in [Pids -> FullNames \cup {None}],
           dirs' \subseteq FullNames,
           link' \in [Names -> Revs \cup {None}],
           stateFile' \in [Names -> FileType], keptFiles' \subseteq Names,
           stateDir' \subseteq Names
    PROVE  IInv'
  BY StepMoveControl DEF OnlySteps, chores, IInv, TypeOK

\* runSteps keeps the inductive invariant.
LEMMA runStepsIInv ==
    ASSUME IInv, NEW t \in Threads, runSteps(t)
    PROVE  IInv'
  <1>1. StepData(t)
    BY StepFacts DEF runSteps, StepPc
  <1>2. obj' \in [Slots -> ObjType]
    <2>1. \/ obj' = [obj EXCEPT ![Target(t)].status = StepStatus(Head(steps[t]))]
          \/ obj' = [obj EXCEPT ![Target(t)].status = StepErrorStatus(Head(steps[t]))]
      BY DEF runSteps, setState
    <2>2. Target(t) \in Slots /\ obj \in [Slots -> ObjType]
      BY <1>1 DEF StepData
    <2>3. /\ StepStatus(Head(steps[t])) \in StatusValue
          /\ StepErrorStatus(Head(steps[t])) \in StatusValue
      BY <1>1 DEF StepData, runSteps
    <2> QED BY <2>1, <2>2, <2>3 DEF ObjType
  <1>3. \/ StepMove(t, "exec", steps[t])
        \/ StepMove(t, "failed", <<>>)
    BY <1>1 DEF StepData, runSteps, OnlySteps, Goto, StepFails, StepMove, StepPc
  <1> QED BY <1>1, <1>2, <1>3, StepPreserves DEF StepData, runSteps, host

\* downloadStep keeps the inductive invariant.
LEMMA downloadStepIInv ==
    ASSUME IInv, NEW t \in Threads, downloadStep(t)
    PROVE  IInv'
  <1>1. StepData(t)
    BY StepFacts DEF downloadStep, Executes, StepPc
  <1>2. obj' \in [Slots -> ObjType]
    <2>1. \/ obj' = obj
          \/ obj' = [obj EXCEPT ![Target(t)] = FailedObj(t)]
      BY DEF downloadStep
    <2>2. Target(t) \in Slots /\ obj \in [Slots -> ObjType]
      BY <1>1 DEF StepData
    <2>3. FailedObj(t) \in ObjType
      BY <1>1 DEF StepData, downloadStep, Executes, StepPc
    <2> QED BY <2>1, <2>2, <2>3 DEF ObjType
  <1>3. \/ StepMove(t, "run", Tail(steps[t]))
        \/ StepMove(t, "failed", <<>>)
    BY <1>1 DEF StepData, downloadStep, Executes, OnlySteps, Goto, StepDone, StepFails, StepMove, StepPc
  <1> QED BY <1>1, <1>2, <1>3, StepPreserves DEF StepData, downloadStep, host

\* unpackStep keeps the inductive invariant.
LEMMA unpackStepIInv ==
    ASSUME IInv, NEW t \in Threads, unpackStep(t)
    PROVE  IInv'
  <1>1. StepData(t)
    BY StepFacts DEF unpackStep, Executes, StepPc
  <1>2. obj' \in [Slots -> ObjType]
    <2>1. \/ obj' = obj
          \/ obj' = [obj EXCEPT ![Target(t)] = FailedObj(t)]
      BY DEF unpackStep
    <2>2. Target(t) \in Slots /\ obj \in [Slots -> ObjType]
      BY <1>1 DEF StepData
    <2>3. FailedObj(t) \in ObjType
      BY <1>1 DEF StepData, unpackStep, Executes, StepPc
    <2> QED BY <2>1, <2>2, <2>3 DEF ObjType
  <1>3. dirs' \subseteq FullNames
    BY <1>1 DEF StepData, unpackStep
  <1>4. \/ StepMove(t, "run", Tail(steps[t]))
        \/ StepMove(t, "failed", <<>>)
    BY <1>1 DEF StepData, unpackStep, Executes, OnlySteps, Goto, StepDone, StepFails, StepMove, StepPc
  <1> QED BY <1>1, <1>2, <1>3, <1>4, StepPreserves DEF StepData, unpackStep

\* stopPlugin keeps the inductive invariant.
LEMMA stopPluginIInv ==
    ASSUME IInv, NEW t \in Threads, stopPlugin(t)
    PROVE  IInv'
  <1>1. StepData(t)
    BY StepFacts DEF stopPlugin, Executes, StepPc
  <1>2. obj' \in [Slots -> ObjType]
    BY <1>1 DEF StepData, stopPlugin
  <1>3. procs' \in [Pids -> FullNames \cup {None}]
    BY <1>1 DEF StepData, stopPlugin
  <1>4. StepMove(t, "mark", steps[t])
    BY <1>1 DEF StepData, stopPlugin, Executes, OnlySteps, Goto, StepMove, StepPc
  <1> QED BY <1>1, <1>2, <1>3, <1>4, StepPreserves DEF StepData, stopPlugin

\* markStopped keeps the inductive invariant.
LEMMA markStoppedIInv ==
    ASSUME IInv, NEW t \in Threads, markStopped(t)
    PROVE  IInv'
  <1>1. StepData(t)
    BY StepFacts DEF markStopped, StepPc
  <1>2. obj' \in [Slots -> ObjType]
    <2>1. obj' = [obj EXCEPT ![Target(t)].client = FALSE,
                           ![Target(t)].status = "STOPPED",
                           ![Target(t)].pid = None]
      BY DEF markStopped
    <2>2. Target(t) \in Slots /\ obj \in [Slots -> ObjType]
      BY <1>1 DEF StepData
    <2>3. {"STOPPED", "RUNNING", "CRASHED"} \subseteq StatusValue
      BY <1>1 DEF StepData
    <2>4. [obj[Target(t)] EXCEPT !.client = FALSE, !.status = "STOPPED", !.pid = None]
            \in ObjType
      BY <2>2, <2>3 DEF ObjType
    <2> QED BY <2>1, <2>2, <2>4
  <1>3. \/ StepMove(t, "run", Tail(steps[t]))
        \/ StepMove(t, "clean", steps[t])
    BY <1>1 DEF StepData, markStopped, OnlySteps, Goto, StepDone, StepMove, StepPc
  <1> QED BY <1>1, <1>2, <1>3, StepPreserves DEF StepData, markStopped, host

\* cleanup keeps the inductive invariant.
LEMMA cleanupIInv ==
    ASSUME IInv, NEW t \in Threads, cleanup(t)
    PROVE  IInv'
  <1>1. StepData(t)
    BY StepFacts DEF cleanup, StepPc
  <1>2. obj' \in [Slots -> ObjType]
    BY <1>1 DEF StepData, cleanup
  <1>3. dirs' \subseteq FullNames
    BY <1>1 DEF StepData, cleanup
  <1>4. stateFile' \in [Names -> FileType] /\ keptFiles' \subseteq Names
    BY <1>1 DEF StepData, cleanup, FileType
  <1>5. StepMove(t, "run", Tail(steps[t]))
    BY <1>1 DEF StepData, cleanup, OnlySteps, Goto, StepDone, StepMove, StepPc
  <1> QED BY <1>1, <1>2, <1>3, <1>4, <1>5, StepPreserves DEF StepData, cleanup

\* launchStep keeps the inductive invariant.
LEMMA launchStepIInv ==
    ASSUME IInv, NEW t \in Threads, launchStep(t)
    PROVE  IInv'
  <1>1. StepData(t)
    BY StepFacts DEF launchStep, Executes, StepPc
  <1>2. obj' \in [Slots -> ObjType]
    <2>1. \/ obj' = [obj EXCEPT ![Target(t)] = FailedObj(t)]
          \/ \E q \in Pids : obj' = [obj EXCEPT ![Target(t)].pid = q]
      BY DEF launchStep, Spawn, setPid
    <2>2. Target(t) \in Slots /\ obj \in [Slots -> ObjType]
      BY <1>1 DEF StepData
    <2>3. FailedObj(t) \in ObjType
      BY <1>1 DEF StepData, launchStep, Executes, StepPc
    <2>4. \A q \in Pids : [obj[Target(t)] EXCEPT !.pid = q] \in ObjType
      BY <2>2 DEF ObjType
    <2>5. CASE obj' = [obj EXCEPT ![Target(t)] = FailedObj(t)]
      BY <2>2, <2>3, <2>5
    <2>6. CASE \E q \in Pids : obj' = [obj EXCEPT ![Target(t)].pid = q]
      BY <2>2, <2>4, <2>6
    <2> QED BY <2>1, <2>5, <2>6
  <1>3. procs' \in [Pids -> FullNames \cup {None}]
    <2>1. \/ procs' = procs
          \/ \E q \in Pids : procs' = [procs EXCEPT ![q] = FullName(Target(t))]
      BY DEF launchStep, Spawn
    <2> QED BY <1>1, <2>1 DEF StepData
  <1>4. link' \in [Names -> Revs \cup {None}] /\ stateDir' \subseteq Names
    BY <1>1 DEF StepData, launchStep, Linked
  <1>5. \/ StepMove(t, "socket", steps[t])
        \/ StepMove(t, "connect", steps[t])
        \/ StepMove(t, "failed", <<>>)
    BY <1>1 DEF StepData, launchStep, Executes, OnlySteps, Goto, StepFails, StepMove, StepPc
  <1> QED BY <1>1, <1>2, <1>3, <1>4, <1>5, StepPreserves DEF StepData, launchStep

\* awaitSocket keeps the inductive invariant.
LEMMA awaitSocketIInv ==
    ASSUME IInv, NEW t \in Threads, awaitSocket(t)
    PROVE  IInv'
  <1>1. StepData(t)
    BY StepFacts DEF awaitSocket, StepPc
  <1>2. obj' \in [Slots -> ObjType]
    <2>1. \/ obj' = obj
          \/ \E q \in Pids : obj' = [obj EXCEPT ![Target(t)].pid = q,
                                            ![Target(t)].uds = FALSE]
          \/ \E u \in BOOLEAN : obj' = [obj EXCEPT ![Target(t)].uds = u,
                                                ![Target(t)].status = "CRASHED"]
      BY DEF awaitSocket
    <2>2. Target(t) \in Slots /\ obj \in [Slots -> ObjType]
      BY <1>1 DEF StepData
    <2>3. {"STOPPED", "RUNNING", "CRASHED"} \subseteq StatusValue
      BY <1>1 DEF StepData
    <2>4. \A q \in Pids : [obj[Target(t)] EXCEPT !.pid = q, !.uds = FALSE] \in ObjType
      BY <2>2 DEF ObjType
    <2>5. \A u \in BOOLEAN :
             [obj[Target(t)] EXCEPT !.uds = u, !.status = "CRASHED"] \in ObjType
      BY <2>2, <2>3 DEF ObjType
    <2>6. CASE \E q \in Pids : obj' = [obj EXCEPT ![Target(t)].pid = q,
                                                ![Target(t)].uds = FALSE]
      BY <2>2, <2>4, <2>6
    <2>7. CASE \E u \in BOOLEAN : obj' = [obj EXCEPT ![Target(t)].uds = u,
                                                    ![Target(t)].status = "CRASHED"]
      BY <2>2, <2>5, <2>7
    <2> QED BY <2>1, <2>2, <2>6, <2>7
  <1>3. procs' \in [Pids -> FullNames \cup {None}]
    <2> DEFINE o == Target(t)
               killed == IF obj[o].pid = None THEN procs
                         ELSE [procs EXCEPT ![obj[o].pid] = None]
    <2>1. killed \in [Pids -> FullNames \cup {None}]
      BY <1>1 DEF StepData
    <2>2. \/ procs' = procs
          \/ procs' = killed
          \/ \E q \in Pids : procs' = [killed EXCEPT ![q] = FullName(o)]
      BY DEF awaitSocket
    <2>3. FullName(o) \in FullNames /\ procs \in [Pids -> FullNames \cup {None}]
      BY <1>1 DEF StepData
    <2> HIDE DEF killed, o
    <2> QED BY <2>1, <2>2, <2>3
  <1>4. \/ StepMove(t, "connect", steps[t])
        \/ StepMove(t, "failed", <<>>)
    <2>1. \/ pc' = [pc EXCEPT ![t] = "connect"] /\ steps' = steps
          \/ pc' = [pc EXCEPT ![t] = "failed"] /\ steps' = [steps EXCEPT ![t] = <<>>]
      BY DEF awaitSocket, Goto, StepFails
    <2>2. pc[t] = "socket" /\ UNCHANGED <<plugins, curr, phase, req>>
      BY DEF awaitSocket, OnlySteps
    <2> QED BY <1>1, <2>1, <2>2 DEF StepData, StepMove, StepPc
  <1> QED BY <1>1, <1>2, <1>3, <1>4, StepPreserves DEF StepData, awaitSocket

\* startPlugin keeps the inductive invariant.
LEMMA startPluginIInv ==
    ASSUME IInv, NEW t \in Threads, startPlugin(t)
    PROVE  IInv'
  <1>1. StepData(t)
    BY StepFacts DEF startPlugin, StepPc
  <1>2. obj' \in [Slots -> ObjType]
    <2>1. \/ obj' = [obj EXCEPT ![Target(t)].client = TRUE,
                           ![Target(t)].status = "RUNNING"]
          \/ \E c \in BOOLEAN : obj' = [obj EXCEPT ![Target(t)].client = c,
                                               ![Target(t)].status = "CRASHED"]
      BY <1>1 DEF StepData, startPlugin
    <2>2. Target(t) \in Slots /\ obj \in [Slots -> ObjType]
      BY <1>1 DEF StepData
    <2>3. {"STOPPED", "RUNNING", "CRASHED"} \subseteq StatusValue
      BY <1>1 DEF StepData
    <2>4. \A c \in BOOLEAN, v \in {"RUNNING", "CRASHED"} :
             [obj[Target(t)] EXCEPT !.client = c, !.status = v] \in ObjType
      BY <2>2, <2>3 DEF ObjType
    <2>5. CASE obj' = [obj EXCEPT ![Target(t)].client = TRUE,
                                ![Target(t)].status = "RUNNING"]
      BY <2>2, <2>4, <2>5
    <2>6. CASE \E c \in BOOLEAN : obj' = [obj EXCEPT ![Target(t)].client = c,
                                                    ![Target(t)].status = "CRASHED"]
      BY <2>2, <2>4, <2>6
    <2> QED BY <2>1, <2>5, <2>6
  <1>3. \/ StepMove(t, "store", steps[t])
        \/ StepMove(t, "failed", <<>>)
    BY <1>1 DEF StepData, startPlugin, OnlySteps, Goto, StepFails, StepMove, StepPc
  <1> QED BY <1>1, <1>2, <1>3, StepPreserves DEF StepData, startPlugin, host

\* openStateFile keeps the inductive invariant.
LEMMA openStateFileIInv ==
    ASSUME IInv, NEW t \in Threads, openStateFile(t)
    PROVE  IInv'
  <1>1. StepData(t)
    BY StepFacts DEF openStateFile, StepPc
  <1>2. obj' \in [Slots -> ObjType]
    <2>1. \/ obj' = obj
          \/ obj' = [obj EXCEPT ![Target(t)].status = "CRASHED"]
      BY DEF openStateFile, setState
    <2>2. Target(t) \in Slots /\ obj \in [Slots -> ObjType]
      BY <1>1 DEF StepData
    <2>3. {"STOPPED", "RUNNING", "CRASHED"} \subseteq StatusValue
      BY <1>1 DEF StepData
    <2> QED BY <2>1, <2>2, <2>3 DEF ObjType
  <1>3. stateFile' \in [Names -> FileType] /\ keptFiles' \subseteq Names
    BY <1>1 DEF StepData, openStateFile, FileType
  <1>4. \/ StepMove(t, "run", Tail(steps[t]))
        \/ StepMove(t, "write", steps[t])
        \/ StepMove(t, "failed", <<>>)
    BY <1>1 DEF StepData, openStateFile, OnlySteps, Goto, StepDone, StepFails, StepMove, StepPc
  <1> QED BY <1>1, <1>2, <1>3, <1>4, StepPreserves DEF StepData, openStateFile

\* writeStateFile keeps the inductive invariant.
LEMMA writeStateFileIInv ==
    ASSUME IInv, NEW t \in Threads, writeStateFile(t)
    PROVE  IInv'
  <1>1. StepData(t)
    BY StepFacts DEF writeStateFile, StepPc
  <1>2. obj' \in [Slots -> ObjType]
    <2>1. \/ obj' = obj
          \/ obj' = [obj EXCEPT ![Target(t)].status = "CRASHED"]
      BY DEF writeStateFile, setState
    <2>2. Target(t) \in Slots /\ obj \in [Slots -> ObjType]
      BY <1>1 DEF StepData
    <2>3. {"STOPPED", "RUNNING", "CRASHED"} \subseteq StatusValue
      BY <1>1 DEF StepData
    <2> QED BY <2>1, <2>2, <2>3 DEF ObjType
  <1>3. stateFile' \in [Names -> FileType] /\ keptFiles' \subseteq Names
    BY <1>1 DEF StepData, writeStateFile, FileType, Encoded
  <1>4. \/ StepMove(t, "run", Tail(steps[t]))
        \/ StepMove(t, "failed", <<>>)
    BY <1>1 DEF StepData, writeStateFile, OnlySteps, Goto, StepDone, StepFails, StepMove, StepPc
  <1> QED BY <1>1, <1>2, <1>3, <1>4, StepPreserves DEF StepData, writeStateFile

\* connectOrReLaunch keeps the inductive invariant.
LEMMA connectOrReLaunchIInv ==
    ASSUME IInv, NEW t \in Threads, connectOrReLaunch(t)
    PROVE  IInv'
  <1>1. StepData(t)
    BY StepFacts DEF connectOrReLaunch, StepPc
  <1>2. obj' \in [Slots -> ObjType]
    <2>1. \/ obj' = [obj EXCEPT ![Target(t)].client = TRUE,
                           ![Target(t)].status = "RUNNING"]
          \/ obj' = [obj EXCEPT ![Target(t)].client = TRUE]
      BY DEF connectOrReLaunch
    <2>2. Target(t) \in Slots /\ obj \in [Slots -> ObjType]
      BY <1>1 DEF StepData
    <2>3. {"STOPPED", "RUNNING", "CRASHED"} \subseteq StatusValue
      BY <1>1 DEF StepData
    <2>4. /\ [obj[Target(t)] EXCEPT !.client = TRUE, !.status = "RUNNING"] \in ObjType
          /\ [obj[Target(t)] EXCEPT !.client = TRUE] \in ObjType
      BY <2>2, <2>3 DEF ObjType
    <2>5. CASE obj' = [obj EXCEPT ![Target(t)].client = TRUE,
                                ![Target(t)].status = "RUNNING"]
      BY <2>2, <2>4, <2>5
    <2>6. CASE obj' = [obj EXCEPT ![Target(t)].client = TRUE]
      BY <2>2, <2>4, <2>6
    <2> QED BY <2>1, <2>5, <2>6
  <1>3. relaunchWorkflow \in Seq(StepKind)
    BY DEF relaunchWorkflow, StepKind
  <1>4. \/ StepMove(t, "run", <<>>)
        \/ StepMove(t, "run", relaunchWorkflow)
    BY <1>1, <1>3 DEF StepData, connectOrReLaunch, OnlySteps, Goto, RunSteps, StepMove, StepPc
  <1> QED BY <1>1, <1>2, <1>3, <1>4, StepPreserves DEF StepData, connectOrReLaunch, host

-----------------------------------------------------------------------------
(***************************************************************************)
(* The actions of requests.                                                *)
(***************************************************************************)

\* A request goroutine moves to the control point l.
LEMMA MoveReq ==
    ASSUME TypeOK, NEW s \in Slots, NEW l \in ReqPc, Goto(Req(s), l)
    PROVE  /\ pc' \in [Threads -> ReqPc \cup MonPc]
           /\ \A r \in Slots : pc'[Req(r)] \in ReqPc /\ pc'[Mon(r)] \in MonPc
           /\ \A r \in Slots : /\ pc'[Req(r)] = IF r = s THEN l ELSE pc[Req(r)]
                              /\ pc'[Mon(r)] = pc[Mon(r)]
           /\ \A t \in Threads : pc'[t] = IF t = Req(s) THEN l ELSE pc[t]
  <1>1. \A t \in Threads : pc'[t] = IF t = Req(s) THEN l ELSE pc[t]
    BY DEF TypeOK, Goto
  <1>2. \A r \in Slots : /\ pc'[Req(r)] = IF r = s THEN l ELSE pc[Req(r)]
                         /\ pc'[Mon(r)] = pc[Mon(r)]
    BY <1>1, ThreadFacts
  <1>3. pc' \in [Threads -> ReqPc \cup MonPc]
    BY DEF TypeOK, Goto
  <1>4. \A r \in Slots : pc'[Req(r)] \in ReqPc /\ pc'[Mon(r)] \in MonPc
    BY <1>2 DEF TypeOK
  <1> QED BY <1>1, <1>2, <1>3, <1>4

\* A monitor moves to the control point l.
LEMMA MoveMon ==
    ASSUME TypeOK, NEW s \in Slots, NEW l \in MonPc, Goto(Mon(s), l)
    PROVE  /\ pc' \in [Threads -> ReqPc \cup MonPc]
           /\ \A r \in Slots : pc'[Req(r)] \in ReqPc /\ pc'[Mon(r)] \in MonPc
           /\ \A r \in Slots : /\ pc'[Mon(r)] = IF r = s THEN l ELSE pc[Mon(r)]
                              /\ pc'[Req(r)] = pc[Req(r)]
           /\ \A t \in Threads : pc'[t] = IF t = Mon(s) THEN l ELSE pc[t]
  <1>1. \A t \in Threads : pc'[t] = IF t = Mon(s) THEN l ELSE pc[t]
    BY DEF TypeOK, Goto
  <1>2. \A r \in Slots : /\ pc'[Mon(r)] = IF r = s THEN l ELSE pc[Mon(r)]
                         /\ pc'[Req(r)] = pc[Req(r)]
    BY <1>1, ThreadFacts
  <1>3. pc' \in [Threads -> ReqPc \cup MonPc]
    BY DEF TypeOK, Goto
  <1>4. \A r \in Slots : pc'[Req(r)] \in ReqPc /\ pc'[Mon(r)] \in MonPc
    BY <1>2 DEF TypeOK
  <1> QED BY <1>1, <1>2, <1>3, <1>4

\* A report has its type.
LEMMA ReportType ==
    ASSUME TypeOK, NEW s \in Slots, NEW e \in EventType,
           NEW v \in {"success", "failure"}, Report(s, e, v)
    PROVE  report' \in [Slots -> [event : EventType,
                                 verdict : {"success", "failure", None}]]
  BY DEF TypeOK, Report

\* A request ends before it has changed any reference to an object.
LEMMA ConcludeIInv ==
    ASSUME IInv, NEW s \in Slots, NEW e \in EventType,
           NEW v \in {"success", "failure"}, Active(s), Conclude(s, e, v),
           UNCHANGED <<plugins, curr, phase, req, steps>>
    PROVE  /\ pc' \in [Threads -> ReqPc \cup MonPc]
           /\ \A r \in Slots : pc'[Req(r)] \in ReqPc /\ pc'[Mon(r)] \in MonPc
           /\ report' \in [Slots -> [event : EventType,
                                    verdict : {"success", "failure", None}]]
           /\ WellFormed'
  <1>1. "finish" \in ReqPc
    BY DEF ReqPc
  <1>2. report' \in [Slots -> [event : EventType,
                              verdict : {"success", "failure", None}]]
    BY ReportType DEF IInv, Conclude
  <1>3. Goto(Req(s), "finish")
    BY DEF Conclude
  <1>4. WellFormed'
    BY <1>1, <1>3, MoveReq, ThreadFacts DEF IInv, WellFormed, ReqOK, MonOK, MapOK, StepOK, Object, Active, StepPc
  <1> QED BY <1>1, <1>2, <1>3, <1>4, MoveReq DEF IInv

\* Finish keeps the inductive invariant.
LEMMA FinishIInv ==
    ASSUME IInv, NEW s \in Slots, Finish(s)
    PROVE  IInv'
  <1>1. Goto(Req(s), "done") /\ "done" \in ReqPc
    BY DEF Finish, ReqPc
  <1>2. TypeOK'
    BY <1>1, MoveReq DEF IInv, TypeOK, Finish, host, chores
  <1>3. WellFormed'
    BY <1>1, MoveReq, ThreadFacts
    DEF IInv, Finish, WellFormed, ReqOK, MonOK, MapOK, StepOK, Object, Active, StepPc
  <1> QED BY <1>2, <1>3 DEF IInv

\* An action of request s that keeps every object keeps the invariant if it
\* keeps it for the goroutine s, for the monitors and map entries it touches,
\* and for the workflows.
LEMMA Frame ==
    ASSUME IInv, NEW s \in Slots, ReqOK(s)',
           \A x \in Slots : Object(x) => Object(x)' /\ req'[x].name = req[x].name,
           \A x \in Slots \ {s} : /\ pc'[Req(x)] = pc[Req(x)]
                                  /\ req'[x] = req[x]
                                  /\ phase'[x] = phase[x]
                                  /\ curr'[x] = curr[x],
           \A x \in Slots : pc'[Mon(x)] \in {pc[Mon(x)], "gone"} \/ Object(x)',
           \A n \in Names : plugins'[n] = plugins[n] \/ MapOK(n)',
           \A t \in Threads : StepOK(t)'
    PROVE  WellFormed'
  <1>1. ASSUME NEW x \in Slots \ {s} PROVE ReqOK(x)'
    <2>1. ReqOK(x) /\ curr[x] \in Slots \cup {None}
      BY DEF IInv, TypeOK, WellFormed
    <2>2. curr[x] # None => (Object(curr[x]))'
      BY <2>1 DEF ReqOK, Object
    <2>3. Object(x) => Object(x)'
      OBVIOUS
    <2> QED BY <2>1, <2>2, <2>3 DEF ReqOK, Active
  <1>2. ASSUME NEW x \in Slots PROVE MonOK(x)'
    BY DEF IInv, WellFormed, MonOK
  <1>3. ASSUME NEW n \in Names PROVE MapOK(n)'
    <2>1. MapOK(n) /\ plugins[n] \in Slots \cup {None}
      BY DEF IInv, TypeOK, WellFormed
    <2> QED BY <2>1 DEF MapOK, Object
  <1> QED BY <1>1, <1>2, <1>3 DEF WellFormed

\* The frame of an action that moves only the request goroutine s, to a point
\* outside the steps of a workflow.
LEMMA FrameReq ==
    ASSUME IInv, NEW s \in Slots, ReqOK(s)', NEW l \in ReqPc \ StepPc,
           Goto(Req(s), l),
           \A x \in Slots : Object(x) => Object(x)' /\ req'[x].name = req[x].name,
           \A x \in Slots \ {s} : /\ req'[x] = req[x]
                                  /\ phase'[x] = phase[x]
                                  /\ curr'[x] = curr[x],
           \A n \in Names : plugins'[n] = plugins[n] \/ MapOK(n)',
           \A t \in Threads \ {Req(s)} : steps'[t] = steps[t]
    PROVE  WellFormed'
  <1>1. \A t \in Threads : pc'[t] = IF t = Req(s) THEN l ELSE pc[t]
    BY MoveReq DEF IInv
  <1>2. \A t \in Threads : StepOK(t)'
    BY <1>1 DEF StepOK, IInv, WellFormed
  <1>3. \A x \in Slots : pc'[Mon(x)] = pc[Mon(x)]
    BY MoveReq DEF IInv
  <1>4. \A x \in Slots \ {s} : pc'[Req(x)] = pc[Req(x)]
    BY MoveReq DEF IInv
  <1> QED BY <1>2, <1>3, <1>4, Frame

\* filterPendingPluginRevisions keeps the inductive invariant.
LEMMA filterPendingPluginRevisionsIInv ==
    ASSUME IInv, NEW s \in Slots, filterPendingPluginRevisions(s)
    PROVE  IInv'
  <1>1. Goto(Req(s), "dispatch") /\ "dispatch" \in ReqPc \ StepPc
    BY DEF filterPendingPluginRevisions, ReqPc, StepPc
  <1>2. PICK n \in Names, a \in Actions, r \in Revs \cup {None} :
          /\ (r # None) <=> (a = "INSTALL")
          /\ req' = [req EXCEPT ![s] =
                       [name |-> n, rev |-> r, local |-> FALSE, action |-> a]]
    BY DEF filterPendingPluginRevisions
  <1>3. req' \in [Slots -> ReqType]
    <2>1. [name |-> n, rev |-> r, local |-> FALSE, action |-> a] \in ReqType
      BY DEF ReqType
    <2> QED BY <1>2, <2>1 DEF IInv, TypeOK
  <1>4. /\ pc[Req(s)] = "free" /\ req[s].name = None /\ ReqOK(s)
        /\ inProgress' \subseteq Names
    BY DEF filterPendingPluginRevisions, IInv, TypeOK, WellFormed, ReqOK
  <1>5. TypeOK'
    BY <1>1, <1>3, <1>4, MoveReq
    DEF IInv, TypeOK, filterPendingPluginRevisions, host, chores
  <1>6. \A x \in Slots : x # s => req'[x] = req[x]
    BY <1>2 DEF IInv, TypeOK
  <1>7. req'[s].name \in Names /\ (req'[s].action = "INSTALL" => req'[s].rev \in Revs)
    BY <1>2 DEF IInv, TypeOK
  <1>8. \A x \in Slots : Object(x) => Object(x)' /\ req'[x].name = req[x].name
    BY <1>4, <1>6 DEF Object
  <1>9. UNCHANGED <<plugins, curr, phase, steps>>
    BY DEF filterPendingPluginRevisions
  <1>10. ReqOK(s)'
    <2>1. pc'[Req(s)] = "dispatch"
      BY <1>1, MoveReq DEF IInv
    <2>2. curr[s] # None => (Object(curr[s]))'
      BY <1>4, <1>8, <1>9 DEF ReqOK, IInv, TypeOK, Object
    <2> QED BY <1>4, <1>7, <1>8, <1>9, <2>1, <2>2 DEF ReqOK, Active
  <1> QED BY <1>1, <1>5, <1>6, <1>8, <1>9, <1>10, FrameReq DEF IInv

\* What the goroutine of a request has at hand: a plugin name, and the object the
\* manager holds under that name, if any.
LEMMA ReqFacts ==
    ASSUME IInv, NEW s \in Slots
    PROVE  /\ Active(s) =>
                /\ req[s].name \in Names
                /\ plugins[req[s].name] # None => /\ plugins[req[s].name] \in Slots
                                                  /\ Object(plugins[req[s].name])
           /\ req[s] \in ReqType /\ ReqOK(s)
           /\ curr[s] # None => curr[s] \in Slots /\ Object(curr[s])
  BY DEF IInv, TypeOK, WellFormed, ReqOK, MapOK

\* removePlugin keeps the inductive invariant.
LEMMA removePluginIInv ==
    ASSUME IInv, NEW s \in Slots, pc[Req(s)] = "dispatch", removePlugin(s),
           UNCHANGED <<inProgress, monitors, jobs, booting, cancelled, host, chores>>
    PROVE  IInv'
  <1> DEFINE c == plugins[req[s].name]
  <1>1. Active(s)
    BY DEF Active
  <1>2. CASE c = None
    <2>1. Conclude(s, "REMOVE_FAILED", "failure") /\ "REMOVE_FAILED" \in EventType
      BY <1>2 DEF removePlugin, EventType
    <2>2. UNCHANGED <<plugins, curr, phase, req, steps, obj>>
      BY <1>2 DEF removePlugin
    <2> QED BY <1>1, <2>1, <2>2, ConcludeIInv DEF IInv, TypeOK, host, chores
  <1>3. CASE c # None
    <2>1. /\ curr' = [curr EXCEPT ![s] = c]
          /\ phase' = [phase EXCEPT ![s] = "remove"]
          /\ Goto(Req(s), "unmonitor")
          /\ UNCHANGED <<report, plugins, obj, req, steps>>
      BY <1>3 DEF removePlugin
    <2>2. /\ c \in Slots /\ Object(c)
          /\ "unmonitor" \in ReqPc \ StepPc /\ "remove" \in PhaseType
      BY <1>1, <1>3, ReqFacts DEF ReqPc, PhaseType, StepPc
    <2> HIDE DEF c
    <2>3. TypeOK'
      BY <2>1, <2>2, MoveReq DEF IInv, TypeOK, host, chores
    <2>4. ReqOK(s)'
      BY <1>1, <2>1, <2>2, ReqFacts, MoveReq
      DEF IInv, TypeOK, ReqOK, Object, Active
    <2>5. WellFormed'
      BY <2>1, <2>2, <2>4, FrameReq DEF IInv, TypeOK, Object
    <2> QED BY <2>3, <2>5 DEF IInv
  <1> QED BY <1>2, <1>3

\* The workflows of pluginengine.go consist of steps.
LEMMA WorkflowType ==
    ASSUME NEW local \in BOOLEAN
    PROVE  /\ preLaunchWorkflow(local) \in Seq(StepKind)
           /\ generateInstallWorkflow(local) \in Seq(StepKind)
           /\ relaunchWorkflow \in Seq(StepKind)
           /\ <<"remove">> \in Seq(StepKind) /\ <<"launch">> \in Seq(StepKind)
  <1>1. preLaunchWorkflow(local) \in Seq(StepKind)
    <2>1. <<"download", "unpack">> \in Seq(StepKind) /\ <<>> \in Seq(StepKind)
      BY DEF StepKind
    <2> QED BY <2>1 DEF preLaunchWorkflow
  <1>2. <<"remove">> \in Seq(StepKind) /\ <<"launch">> \in Seq(StepKind)
    BY DEF StepKind
  <1>3. generateInstallWorkflow(local) \in Seq(StepKind)
    BY <1>1, <1>2, ConcatProperties DEF generateInstallWorkflow
  <1>4. relaunchWorkflow \in Seq(StepKind)
    BY DEF relaunchWorkflow, StepKind
  <1> QED BY <1>1, <1>2, <1>3, <1>4

\* installPlugin keeps the inductive invariant.
LEMMA installPluginIInv ==
    ASSUME IInv, NEW s \in Slots, NEW r \in Revs, NEW local \in BOOLEAN,
           pc[Req(s)] = "dispatch", installPlugin(s, r, local),
           UNCHANGED <<inProgress, monitors, jobs, booting, cancelled, host, chores>>
    PROVE  IInv'
  <1> DEFINE n == req[s].name
             c == plugins[n]
  <1>1. /\ Active(s) /\ n \in Names /\ req[s] \in ReqType /\ ReqOK(s)
        /\ c # None => c \in Slots /\ Object(c)
    BY ReqFacts DEF Active
  <1>2. req' = [req EXCEPT ![s].rev = r, ![s].local = local]
    BY DEF installPlugin
  <1>3. req' \in [Slots -> ReqType]
    <2>1. [req[s] EXCEPT !.rev = r, !.local = local] \in ReqType
      BY <1>1 DEF ReqType
    <2> QED BY <1>2, <2>1 DEF IInv, TypeOK
  <1>4. /\ \A x \in Slots \ {s} : req'[x] = req[x]
        /\ req'[s].name = req[s].name /\ req'[s].rev = r
    BY <1>1, <1>2 DEF IInv, TypeOK, ReqType
  <1>5. /\ \A x \in Slots : Object(x) => Object(x)' /\ req'[x].name = req[x].name
        /\ Object(s)'
    BY <1>1, <1>4 DEF Object
  <1>6. ASSUME c # None, req[c].rev = r PROVE IInv'
    <2>1. /\ Conclude(s, "INSTALL_FAILED", "failure")
          /\ UNCHANGED <<plugins, obj, phase, curr, steps>>
      BY <1>6 DEF installPlugin
    <2>2. "INSTALL_FAILED" \in EventType /\ "finish" \in ReqPc \ StepPc
      BY DEF EventType, ReqPc, StepPc
    <2>3. Goto(Req(s), "finish")
      BY <2>1 DEF Conclude
    <2>4. report' \in [Slots -> [event : EventType,
                              verdict : {"success", "failure", None}]]
      BY <2>1, <2>2, ReportType DEF IInv, Conclude
    <2>5. TypeOK'
      BY <1>3, <2>1, <2>2, <2>3, <2>4, MoveReq DEF IInv, TypeOK, host, chores
    <2>6. ReqOK(s)'
      <3>1. pc'[Req(s)] = "finish"
        BY <2>2, <2>3, MoveReq DEF IInv
      <3>2. curr[s] # None => (Object(curr[s]))'
        BY <1>1, <1>5, <2>1, ReqFacts DEF Object
      <3> QED BY <1>1, <1>4, <1>5, <2>1, <3>1, <3>2 DEF ReqOK, Active
    <2>7. WellFormed'
      BY <1>4, <1>5, <2>1, <2>2, <2>3, <2>6, FrameReq
    <2> QED BY <2>5, <2>7 DEF IInv
  <1>7. ASSUME c # None, req[c].rev # r PROVE IInv'
    <2>1. /\ curr' = [curr EXCEPT ![s] = c]
          /\ setPendingStatus(c, r)
          /\ phase' = [phase EXCEPT ![s] = "prelaunch"]
          /\ RunSteps(Req(s), preLaunchWorkflow(local))
          /\ UNCHANGED <<plugins, report>>
      BY <1>7 DEF installPlugin
    <2>2. Goto(Req(s), "run") /\ "run" \in ReqPc \ StepPc /\ "prelaunch" \in PhaseType
      BY <2>1 DEF RunSteps, ReqPc, StepPc, PhaseType
    <2>3. /\ steps' \in [Threads -> Seq(StepKind)]
          /\ \A t \in Threads \ {Req(s)} : steps'[t] = steps[t]
      BY <2>1, WorkflowType DEF RunSteps, IInv, TypeOK
    <2>4. obj' \in [Slots -> ObjType]
      <3>1. obj \in [Slots -> ObjType] /\ c \in Slots
        BY <1>1, <1>7 DEF IInv, TypeOK
      <3>2. [obj[c] EXCEPT !.pending = r] \in ObjType
        BY <3>1 DEF ObjType
      <3> QED BY <2>1, <3>1, <3>2 DEF setPendingStatus
    <2> HIDE DEF c
    <2>5. TypeOK'
      BY <1>1, <1>3, <1>7, <2>1, <2>2, <2>3, <2>4, MoveReq DEF IInv, TypeOK, host, chores
    <2>6. ReqOK(s)'
      <3>1. pc'[Req(s)] = "run" /\ phase'[s] = "prelaunch" /\ curr'[s] = c
        BY <2>1, <2>2, MoveReq DEF IInv, TypeOK
      <3>2. (Object(curr[s]))'
        BY <1>1, <1>5, <1>7, <3>1 DEF Object
      <3> QED BY <1>1, <1>4, <1>5, <1>7, <3>1, <3>2 DEF ReqOK, Active
    <2>7. WellFormed'
      <3>1. \A x \in Slots \ {s} : phase'[x] = phase[x] /\ curr'[x] = curr[x]
        BY <2>1 DEF IInv, TypeOK
      <3> QED BY <1>4, <1>5, <2>1, <2>2, <2>3, <2>6, <3>1, FrameReq
    <2> QED BY <2>5, <2>7 DEF IInv
  <1>8. ASSUME c = None PROVE IInv'
    <2>1. /\ plugins' = [plugins EXCEPT ![n] = s]
          /\ phase' = [phase EXCEPT ![s] = "install"]
          /\ RunSteps(Req(s), generateInstallWorkflow(local))
          /\ UNCHANGED <<obj, curr, report>>
      BY <1>8 DEF installPlugin
    <2>2. Goto(Req(s), "run") /\ "run" \in ReqPc \ StepPc /\ "install" \in PhaseType
      BY <2>1 DEF RunSteps, ReqPc, StepPc, PhaseType
    <2>3. /\ steps' \in [Threads -> Seq(StepKind)]
          /\ \A t \in Threads \ {Req(s)} : steps'[t] = steps[t]
      BY <2>1, WorkflowType DEF RunSteps, IInv, TypeOK
    <2>5. TypeOK'
      BY <1>1, <1>3, <2>1, <2>2, <2>3, MoveReq DEF IInv, TypeOK, host, chores
    <2>6. ReqOK(s)'
      <3>1. pc'[Req(s)] = "run" /\ phase'[s] = "install" /\ curr'[s] = curr[s]
        BY <2>1, <2>2, MoveReq DEF IInv, TypeOK
      <3>2. curr[s] # None => (Object(curr[s]))'
        BY <1>1, <1>5, <2>1, ReqFacts DEF Object
      <3> QED BY <1>1, <1>4, <1>5, <3>1, <3>2 DEF ReqOK, Active
    <2>7. WellFormed'
      <3>1. \A x \in Slots \ {s} : phase'[x] = phase[x] /\ curr'[x] = curr[x]
        BY <2>1 DEF IInv, TypeOK
      <3>2. \A x \in Names : plugins'[x] = plugins[x] \/ MapOK(x)'
        BY <1>1, <1>4, <1>5, <2>1 DEF IInv, TypeOK, MapOK, Object
      <3> QED BY <1>4, <1>5, <2>2, <2>3, <2>6, <3>1, <3>2, FrameReq
    <2> QED BY <2>5, <2>7 DEF IInv
  <1> QED BY <1>6, <1>7, <1>8

\* configurePlugin keeps the inductive invariant.
LEMMA configurePluginIInv ==
    ASSUME IInv, NEW s \in Slots, configurePlugin(s)
    PROVE  IInv'
  <1>1. /\ pc[Req(s)] = "dispatch" /\ Active(s)
        /\ UNCHANGED <<inProgress, monitors, jobs, booting, cancelled, host, chores>>
    BY DEF configurePlugin, Active
  <1>2. ASSUME req[s].action = "INSTALL", installPlugin(s, req[s].rev, FALSE)
        PROVE  IInv'
    BY <1>1, <1>2, ReqFacts, installPluginIInv DEF ReqOK
  <1>3. ASSUME LocalRev[req[s].name] # None,
               installPlugin(s, LocalRev[req[s].name], TRUE)
        PROVE  IInv'
    <2>1. LocalRev[req[s].name] \in Revs
      BY <1>1, <1>3, ReqFacts
    <2> QED BY <1>1, <1>3, <2>1, installPluginIInv
  <1>4. ASSUME removePlugin(s) PROVE IInv'
    BY <1>1, <1>4, removePluginIInv
  <1>5. ASSUME Conclude(s, None, "failure"),
               UNCHANGED <<plugins, obj, req, steps, phase, curr>>
        PROVE  IInv'
    <2>1. None \in EventType
      BY DEF EventType
    <2> QED BY <1>1, <1>5, <2>1, ConcludeIInv DEF IInv, TypeOK, host, chores
  <1> QED BY <1>2, <1>3, <1>4, <1>5 DEF configurePlugin

\* applyConfig keeps the inductive invariant.
LEMMA applyConfigIInv ==
    ASSUME IInv, NEW s \in Slots, applyConfig(s)
    PROVE  IInv'
  <1> DEFINE n == req[s].name
             c == plugins[n]
  <1>1. /\ pc[Req(s)] = "dispatch" /\ Active(s) /\ n \in Names
        /\ c # None => c \in Slots /\ Object(c)
        /\ "APPLY_FAILED" \in EventType
        /\ "apply" \in ReqPc \ StepPc /\ "apply" \in PhaseType
        /\ UNCHANGED <<memory, steps, req, booting, cancelled,
                       procs, dirs, link, keptFiles, stateDir, chores>>
    BY ReqFacts DEF applyConfig, Active, EventType, ReqPc, StepPc, PhaseType
  <1>2. stateFile' \in [Names -> FileType]
    <2>1. ASSUME c # None PROVE Encoded(c) \in FileType
      BY <1>1, <2>1 DEF IInv, TypeOK, ObjType, Encoded, FileType, Object
    <2>2. \A v \in {stateFile[n], Corrupt} : v \in FileType
      BY <1>1 DEF IInv, TypeOK, FileType
    <2>3. \/ stateFile' = stateFile
          \/ c # None /\ stateFile' = [stateFile EXCEPT ![n] = Encoded(c)]
          \/ \E v \in {stateFile[n], Corrupt} : stateFile' = [stateFile EXCEPT ![n] = v]
      BY DEF applyConfig
    <2>4. stateFile \in [Names -> FileType] /\ n \in Names
      BY <1>1 DEF IInv, TypeOK
    <2> HIDE DEF c, n
    <2> QED BY <2>1, <2>2, <2>3, <2>4
  <1>3. ASSUME Conclude(s, "APPLY_FAILED", "failure"), UNCHANGED <<phase, curr>>
        PROVE  IInv'
    BY <1>1, <1>2, <1>3, ConcludeIInv DEF IInv, TypeOK, memory, chores
  <1>4. ASSUME c # None,
               curr' = [curr EXCEPT ![s] = c],
               phase' = [phase EXCEPT ![s] = "apply"],
               Goto(Req(s), "apply"),
               UNCHANGED report
        PROVE  IInv'
    <2> HIDE DEF c, n
    <2>1. TypeOK'
      BY <1>1, <1>2, <1>4, MoveReq DEF IInv, TypeOK, memory, chores
    <2>2. ReqOK(s)'
      BY <1>1, <1>4, ReqFacts, MoveReq
      DEF IInv, TypeOK, ReqOK, Object, Active, memory
    <2>3. WellFormed'
      BY <1>1, <1>4, <2>2, FrameReq DEF IInv, TypeOK, Object, memory
    <2> QED BY <2>1, <2>3 DEF IInv
  <1> QED BY <1>3, <1>4 DEF applyConfig

\* Apply keeps the inductive invariant.
LEMMA ApplyIInv ==
    ASSUME IInv, NEW s \in Slots, Apply(s)
    PROVE  IInv'
  <1>1. /\ pc[Req(s)] = "apply" /\ Active(s)
        /\ {"APPLIED", "APPLY_FAILED"} \subseteq EventType
        /\ "run" \in ReqPc \ StepPc
        /\ UNCHANGED <<memory, phase, curr, req, booting, cancelled, host, chores>>
    BY DEF Apply, Active, EventType, ReqPc, StepPc
  <1>2. ASSUME NEW e \in {"APPLIED", "APPLY_FAILED"}, NEW v \in {"success", "failure"},
               Conclude(s, e, v), UNCHANGED steps
        PROVE  IInv'
    BY <1>1, <1>2, ConcludeIInv DEF IInv, TypeOK, memory, host, chores
  <1>3. ASSUME RunSteps(Req(s), relaunchWorkflow), UNCHANGED report
        PROVE  IInv'
    <2>1. Goto(Req(s), "run")
      BY <1>3 DEF RunSteps
    <2>2. /\ steps' \in [Threads -> Seq(StepKind)]
          /\ \A t \in Threads \ {Req(s)} : steps'[t] = steps[t]
      BY <1>3, WorkflowType DEF RunSteps, IInv, TypeOK
    <2>3. TypeOK'
      BY <1>1, <1>3, <2>1, <2>2, MoveReq DEF IInv, TypeOK, memory, host, chores
    <2>4. ReqOK(s)'
      BY <1>1, <2>1, ReqFacts, MoveReq DEF IInv, TypeOK, ReqOK, Object, Active, memory
    <2>5. WellFormed'
      BY <1>1, <2>1, <2>2, <2>4, FrameReq DEF Object, memory
    <2> QED BY <2>3, <2>5 DEF IInv
  <1> QED BY <1>2, <1>3 DEF Apply

\* stopMonitoring keeps the inductive invariant.
LEMMA stopMonitoringIInv ==
    ASSUME IInv, NEW s \in Slots, stopMonitoring(s)
    PROVE  IInv'
  <1>1. /\ pc[Req(s)] = "unmonitor" /\ Active(s)
        /\ {"run", "unschedule"} \subseteq ReqPc \ StepPc
        /\ monitors' \subseteq monitors
        /\ UNCHANGED <<plugins, inProgress, jobs, obj, phase, curr, req, booting,
                       report, cancelled, host, chores>>
    BY DEF stopMonitoring, Active, ReqPc, StepPc
  <1>2. PICK l \in {"run", "unschedule"} : Goto(Req(s), l)
    BY DEF stopMonitoring, RunSteps
  <1>3. /\ steps' \in [Threads -> Seq(StepKind)]
        /\ \A t \in Threads \ {Req(s)} : steps'[t] = steps[t]
    <2>1. steps' = steps \/ steps' = [steps EXCEPT ![Req(s)] = <<"remove">>]
      BY DEF stopMonitoring, RunSteps
    <2>2. steps \in [Threads -> Seq(StepKind)] /\ <<"remove">> \in Seq(StepKind)
      BY WorkflowType DEF IInv, TypeOK
    <2> QED BY <2>1, <2>2
  <1>4. TypeOK'
    BY <1>1, <1>2, <1>3, MoveReq DEF IInv, TypeOK, host, chores
  <1>5. ReqOK(s)'
    BY <1>1, <1>2, ReqFacts, MoveReq DEF IInv, TypeOK, ReqOK, Object, Active
  <1>6. WellFormed'
    BY <1>1, <1>2, <1>3, <1>5, FrameReq DEF Object
  <1> QED BY <1>4, <1>6 DEF IInv

\* UnscheduleJob keeps the inductive invariant.
LEMMA UnscheduleJobIInv ==
    ASSUME IInv, NEW s \in Slots, UnscheduleJob(s)
    PROVE  IInv'
  <1> DEFINE f == FullName(curr[s])
             j == jobs[f]
  <1>1. /\ pc[Req(s)] = "unschedule" /\ Active(s)
        /\ UNCHANGED <<plugins, inProgress, monitors, obj, phase, curr, req,
                       booting, report, cancelled, host, chores>>
        /\ steps' = [steps EXCEPT ![Req(s)] = <<"remove">>]
    BY DEF UnscheduleJob, Active
  <1>2. f \in FullNames /\ j \in Slots \cup {None}
    <2>1. curr[s] \in Slots /\ Object(curr[s])
      BY <1>1, ReqFacts DEF ReqOK
    <2> QED BY <2>1 DEF FullName, FullNames, Object, IInv, TypeOK
  <1>3. jobs' \in [FullNames -> Slots \cup {None}]
    BY <1>2 DEF UnscheduleJob, IInv, TypeOK
  <1>4. /\ steps' \in [Threads -> Seq(StepKind)]
        /\ \A t \in Threads \ {Req(s)} : steps'[t] = steps[t]
    BY <1>1, WorkflowType DEF IInv, TypeOK
  <1>5. /\ pc' \in [Threads -> ReqPc \cup MonPc]
        /\ \A t \in Threads : t # Req(s) =>
             \/ pc'[t] = pc[t]
             \/ \E x \in Slots : t = Mon(x) /\ pc'[t] = "gone"
        /\ pc'[Req(s)] = "run"
    <2>1. CASE j = None
      <3>1. pc' = [pc EXCEPT ![Req(s)] = "run"]
        BY <2>1 DEF UnscheduleJob
      <3> QED BY <3>1, ThreadFacts DEF IInv, TypeOK, ReqPc
    <2>2. CASE j # None
      <3>1. pc' = [pc EXCEPT ![Req(s)] = "run",
                            ![Mon(j)] = IF @ = "idle" THEN "gone" ELSE @]
        BY <2>2 DEF UnscheduleJob
      <3>2. Req(s) \in Threads /\ Mon(j) \in Threads /\ Req(s) # Mon(j) /\ j \in Slots
        BY <1>2, <2>2, ThreadFacts
      <3>3. pc \in [Threads -> ReqPc \cup MonPc] /\ {"run", "gone"} \subseteq ReqPc \cup MonPc
        BY DEF IInv, TypeOK, ReqPc, MonPc
      <3> HIDE DEF j
      <3> QED BY <3>1, <3>2, <3>3
    <2> QED BY <2>1, <2>2
  <1>6. /\ \A x \in Slots \ {s} : pc'[Req(x)] = pc[Req(x)]
        /\ \A x \in Slots : pc'[Mon(x)] \in {pc[Mon(x)], "gone"}
    BY <1>5, ThreadFacts
  <1>7. \A x \in Slots : pc'[Req(x)] \in ReqPc /\ pc'[Mon(x)] \in MonPc
    BY <1>5, <1>6 DEF IInv, TypeOK, ReqPc, MonPc
  <1>8. TypeOK'
    BY <1>1, <1>3, <1>4, <1>5, <1>7 DEF IInv, TypeOK, host, chores
  <1>9. ReqOK(s)'
    BY <1>1, <1>5, ReqFacts DEF IInv, TypeOK, ReqOK, Object, Active
  <1>10. \A t \in Threads : StepOK(t)'
    BY <1>4, <1>5 DEF StepOK, StepPc, IInv, WellFormed
  <1>11. WellFormed'
    BY <1>1, <1>6, <1>9, <1>10, Frame DEF Object
  <1> QED BY <1>8, <1>11 DEF IInv

\* The deferred resetPendingStatus keeps the type of the objects.
LEMMA resetPendingStatusType ==
    ASSUME IInv, NEW s \in Slots, resetPendingStatus(s)
    PROVE  obj' \in [Slots -> ObjType]
  <1>1. obj \in [Slots -> ObjType] /\ curr[s] \in Slots \cup {None}
    BY DEF IInv, TypeOK
  <1>2. CASE curr[s] = None
    BY <1>1, <1>2 DEF resetPendingStatus
  <1>3. CASE curr[s] # None
    <2>1. [obj[curr[s]] EXCEPT !.pending = None] \in ObjType
      BY <1>1, <1>3 DEF ObjType
    <2> QED BY <1>1, <1>3, <2>1 DEF resetPendingStatus
  <1> QED BY <1>2, <1>3

\* A request s that ends a phase p: it is active and its workflow is over.
LEMMA PhaseFacts ==
    ASSUME IInv, NEW s \in Slots, NEW p, StepsDone(s, p) \/ StepsFailed(s, p)
    PROVE  /\ pc[Req(s)] \in {"run", "failed"} /\ Active(s) /\ phase[s] = p
           /\ req[s].name \in Names /\ ReqOK(s)
           /\ {"finish", "unmonitor", "launch", "run"} \subseteq ReqPc \ StepPc
           /\ EventType = {"INSTALLED", "INSTALL_FAILED", "REMOVED", "REMOVE_FAILED",
                           "APPLIED", "APPLY_FAILED", None}
  BY ReqFacts DEF StepsDone, StepsFailed, Active, ReqPc, StepPc, EventType

\* A request finishes and hands over to its monitor.
LEMMA FinishAndMonitor ==
    ASSUME IInv, NEW s \in Slots, Active(s), Object(s),
           pc' = [pc EXCEPT ![Req(s)] = "finish", ![Mon(s)] = "schedule"],
           UNCHANGED <<plugins, curr, phase, req, steps>>
    PROVE  /\ pc' \in [Threads -> ReqPc \cup MonPc]
           /\ \A r \in Slots : pc'[Req(r)] \in ReqPc /\ pc'[Mon(r)] \in MonPc
           /\ WellFormed'
  <1>1. {"finish", "schedule"} \subseteq ReqPc \cup MonPc
    BY DEF ReqPc, MonPc
  <1>2. pc \in [Threads -> ReqPc \cup MonPc] /\ Req(s) \in Threads /\ Mon(s) \in Threads
    BY ThreadFacts DEF IInv, TypeOK
  <1>3. pc' \in [Threads -> ReqPc \cup MonPc]
    BY <1>1, <1>2
  <1>4. \A t \in Threads : pc'[t] = IF t = Mon(s) THEN "schedule"
                                   ELSE IF t = Req(s) THEN "finish" ELSE pc[t]
    BY <1>2
  <1>5. \A r \in Slots : /\ pc'[Req(r)] = IF r = s THEN "finish" ELSE pc[Req(r)]
                         /\ pc'[Mon(r)] = IF r = s THEN "schedule" ELSE pc[Mon(r)]
    <2>1. \A r \in Slots :
             /\ Req(r) \in Threads /\ Req(r) # Mon(s) /\ (Req(r) = Req(s) <=> r = s)
             /\ Mon(r) \in Threads /\ Mon(r) # Req(s) /\ (Mon(r) = Mon(s) <=> r = s)
      BY ThreadFacts
    <2> QED BY <1>4, <2>1
  <1>6. \A r \in Slots : pc'[Req(r)] \in ReqPc /\ pc'[Mon(r)] \in MonPc
    <2>1. \A r \in Slots : pc[Req(r)] \in ReqPc /\ pc[Mon(r)] \in MonPc
      BY DEF IInv, TypeOK
    <2>2. "finish" \in ReqPc /\ "schedule" \in MonPc
      BY DEF ReqPc, MonPc
    <2> QED BY <1>5, <2>1, <2>2
  <1>7. ReqOK(s)'
    <2>1. ReqOK(s) /\ pc'[Req(s)] = "finish"
      BY <1>5, ReqFacts
    <2> QED BY <2>1 DEF ReqOK, Object, Active
  <1>8. \A t \in Threads : StepOK(t)'
    BY <1>4 DEF StepOK, StepPc, IInv, WellFormed
  <1>9. WellFormed'
    BY <1>5, <1>7, <1>8, Frame DEF Object
  <1> QED BY <1>3, <1>6, <1>9

\* installed keeps the inductive invariant.
LEMMA installedIInv ==
    ASSUME IInv, NEW s \in Slots, installed(s)
    PROVE  IInv'
  <1>1. /\ pc[Req(s)] \in {"run", "failed"} /\ Active(s) /\ phase[s] = "install"
        /\ ReqOK(s) /\ "INSTALLED" \in EventType
    BY PhaseFacts DEF installed, EventType
  <1>2. Object(s)
    BY <1>1 DEF ReqOK
  <1>3. obj' \in [Slots -> ObjType]
    BY resetPendingStatusType DEF installed
  <1>4. report' \in [Slots -> [event : EventType,
                              verdict : {"success", "failure", None}]]
    BY <1>1, ReportType DEF IInv, installed
  <1>5. UNCHANGED <<plugins, inProgress, monitors, jobs, steps, phase, curr, req,
                   cancelled, host, chores>>
    BY DEF installed
  <1>6. pc' = [pc EXCEPT ![Req(s)] = "finish", ![Mon(s)] = "schedule"]
    BY DEF installed
  <1>7. booting' \subseteq Slots
    BY DEF installed, IInv, TypeOK
  <1> QED BY <1>1, <1>2, <1>3, <1>4, <1>5, <1>6, <1>7, FinishAndMonitor
          DEF IInv, TypeOK, host, chores

\* installFailed keeps the inductive invariant.
LEMMA installFailedIInv ==
    ASSUME IInv, NEW s \in Slots, installFailed(s)
    PROVE  IInv'
  <1> DEFINE p == obj[s].pid
  <1>1. /\ pc[Req(s)] \in {"run", "failed"} /\ Active(s) /\ phase[s] = "install"
        /\ ReqOK(s) /\ "INSTALL_FAILED" \in EventType /\ req[s].name \in Names
        /\ "finish" \in ReqPc \ StepPc
    BY PhaseFacts DEF installFailed
  <1>2. /\ Conclude(s, "INSTALL_FAILED", "failure")
        /\ plugins' = [plugins EXCEPT ![req[s].name] = None]
        /\ procs' = IF p = None THEN procs ELSE [procs EXCEPT ![p] = None]
        /\ UNCHANGED <<inProgress, monitors, jobs, steps, phase, curr, req, booting,
                       cancelled, dirs, link, stateFile, keptFiles, stateDir, chores>>
    BY DEF installFailed
  <1>3. obj' \in [Slots -> ObjType]
    BY resetPendingStatusType DEF installFailed
  <1>4. report' \in [Slots -> [event : EventType,
                              verdict : {"success", "failure", None}]]
    BY <1>1, <1>2, ReportType DEF IInv, Conclude
  <1>5. Goto(Req(s), "finish")
    BY <1>2 DEF Conclude
  <1>6. procs' \in [Pids -> FullNames \cup {None}]
    <2>1. p \in Pids \cup {None} /\ procs \in [Pids -> FullNames \cup {None}]
      BY DEF IInv, TypeOK, ObjType
    <2> HIDE DEF p
    <2> QED BY <1>2, <2>1
  <1>7. plugins' \in [Names -> Slots \cup {None}]
    BY <1>1, <1>2 DEF IInv, TypeOK
  <1>8. TypeOK'
    BY <1>1, <1>2, <1>3, <1>4, <1>5, <1>6, <1>7, MoveReq DEF IInv, TypeOK, chores
  <1>9. ReqOK(s)'
    BY <1>1, <1>2, <1>5, MoveReq DEF IInv, ReqOK, Object, Active
  <1>10. \A n \in Names : plugins'[n] = plugins[n] \/ MapOK(n)'
    BY <1>1, <1>2 DEF IInv, TypeOK, MapOK
  <1>11. WellFormed'
    BY <1>1, <1>2, <1>5, <1>9, <1>10, FrameReq DEF Object
  <1> QED BY <1>8, <1>11 DEF IInv

\* preLaunched keeps the inductive invariant.
LEMMA preLaunchedIInv ==
    ASSUME IInv, NEW s \in Slots, preLaunched(s)
    PROVE  IInv'
  <1>1. /\ pc[Req(s)] \in {"run", "failed"} /\ Active(s) /\ phase[s] = "prelaunch"
        /\ ReqOK(s) /\ "unmonitor" \in ReqPc \ StepPc
    BY PhaseFacts DEF preLaunched
  <1>2. /\ phase' = [phase EXCEPT ![s] = "replace"]
        /\ Goto(Req(s), "unmonitor")
        /\ UNCHANGED <<memory, steps, curr, req, booting, report, cancelled, host,
                       chores>>
    BY DEF preLaunched
  <1>3. TypeOK'
    BY <1>1, <1>2, MoveReq DEF IInv, TypeOK, PhaseType, memory, host, chores
  <1>4. phase'[s] = "replace" /\ \A x \in Slots \ {s} : phase'[x] = phase[x]
    BY <1>2 DEF IInv, TypeOK
  <1>5. curr[s] # None
    BY <1>1 DEF ReqOK
  <1>6. ReqOK(s)'
    BY <1>1, <1>2, <1>4, <1>5, MoveReq DEF IInv, ReqOK, Object, Active
  <1>7. WellFormed'
    BY <1>1, <1>2, <1>4, <1>6, FrameReq DEF Object, memory
  <1> QED BY <1>3, <1>7 DEF IInv

\* upgradeFailed keeps the inductive invariant.
LEMMA upgradeFailedIInv ==
    ASSUME IInv, NEW s \in Slots, upgradeFailed(s)
    PROVE  IInv'
  <1>1. Active(s) /\ "INSTALL_FAILED" \in EventType
    BY PhaseFacts DEF upgradeFailed
  <1>2. /\ Conclude(s, "INSTALL_FAILED", "failure")
        /\ UNCHANGED <<plugins, inProgress, monitors, jobs, steps, phase, curr, req,
                       booting, cancelled, host, chores>>
    BY DEF upgradeFailed
  <1>3. obj' \in [Slots -> ObjType]
    BY resetPendingStatusType DEF upgradeFailed
  <1> QED BY <1>1, <1>2, <1>3, ConcludeIInv DEF IInv, TypeOK, host, chores

\* replaced keeps the inductive invariant.
LEMMA replacedIInv ==
    ASSUME IInv, NEW s \in Slots, replaced(s)
    PROVE  IInv'
  <1>1. /\ pc[Req(s)] \in {"run", "failed"} /\ Active(s) /\ phase[s] = "replace"
        /\ ReqOK(s) /\ "launch" \in ReqPc \ StepPc /\ req[s].name \in Names
    BY PhaseFacts DEF replaced
  <1>2. /\ plugins' = [plugins EXCEPT ![req[s].name] = None]
        /\ Goto(Req(s), "launch")
        /\ UNCHANGED <<inProgress, monitors, jobs, obj, steps, phase, curr, req,
                       booting, report, cancelled, host, chores>>
    BY DEF replaced
  <1>3. plugins' \in [Names -> Slots \cup {None}]
    BY <1>1, <1>2 DEF IInv, TypeOK
  <1>4. TypeOK'
    BY <1>1, <1>2, <1>3, MoveReq DEF IInv, TypeOK, host, chores
  <1>5. ReqOK(s)'
    BY <1>1, <1>2, MoveReq DEF IInv, ReqOK, Object, Active
  <1>6. \A n \in Names : plugins'[n] = plugins[n] \/ MapOK(n)'
    BY <1>1, <1>2 DEF IInv, TypeOK, MapOK
  <1>7. WellFormed'
    BY <1>1, <1>2, <1>5, <1>6, FrameReq DEF Object
  <1> QED BY <1>4, <1>7 DEF IInv

\* launchUpgrade keeps the inductive invariant.
LEMMA launchUpgradeIInv ==
    ASSUME IInv, NEW s \in Slots, launchUpgrade(s)
    PROVE  IInv'
  <1>1. pc[Req(s)] = "launch" /\ Active(s)
    BY DEF launchUpgrade, Active
  <1>2. /\ phase[s] = "replace" /\ ReqOK(s) /\ Object(s)
        /\ "run" \in ReqPc \ StepPc /\ "install" \in PhaseType /\ req[s].name \in Names
    BY <1>1, ReqFacts DEF ReqOK, ReqPc, StepPc, PhaseType
  <1>3. /\ plugins' = [plugins EXCEPT ![req[s].name] = s]
        /\ phase' = [phase EXCEPT ![s] = "install"]
        /\ RunSteps(Req(s), <<"launch">>)
        /\ UNCHANGED <<inProgress, monitors, jobs, obj, curr, req, booting, report,
                       cancelled, host, chores>>
    BY DEF launchUpgrade
  <1>4. plugins' \in [Names -> Slots \cup {None}] /\ phase' \in [Slots -> PhaseType]
    BY <1>2, <1>3 DEF IInv, TypeOK
  <1>5. /\ steps' \in [Threads -> Seq(StepKind)]
        /\ \A t \in Threads \ {Req(s)} : steps'[t] = steps[t]
    <2>1. steps \in [Threads -> Seq(StepKind)] /\ <<"launch">> \in Seq(StepKind)
      BY WorkflowType DEF IInv, TypeOK
    <2> QED BY <1>3, <2>1 DEF RunSteps
  <1>6. Goto(Req(s), "run")
    BY <1>3 DEF RunSteps
  <1>7. TypeOK'
    BY <1>2, <1>3, <1>4, <1>5, <1>6, MoveReq DEF IInv, TypeOK, host, chores
  <1>8. phase'[s] = "install" /\ \A x \in Slots \ {s} : phase'[x] = phase[x]
    BY <1>3 DEF IInv, TypeOK
  <1>9. ReqOK(s)'
    BY <1>2, <1>3, <1>6, <1>8, MoveReq DEF IInv, ReqOK, Object, Active
  <1>10. \A n \in Names : plugins'[n] = plugins[n] \/ MapOK(n)'
    BY <1>2, <1>3 DEF IInv, TypeOK, MapOK, Object
  <1>11. WellFormed'
    BY <1>2, <1>3, <1>5, <1>6, <1>8, <1>9, <1>10, FrameReq DEF Object
  <1> QED BY <1>7, <1>11 DEF IInv

\* removed keeps the inductive invariant.
LEMMA removedIInv ==
    ASSUME IInv, NEW s \in Slots, removed(s)
    PROVE  IInv'
  <1>1. /\ pc[Req(s)] \in {"run", "failed"} /\ Active(s) /\ phase[s] = "remove"
        /\ ReqOK(s) /\ "finish" \in ReqPc \ StepPc /\ req[s].name \in Names
        /\ "REMOVED" \in EventType
    BY PhaseFacts DEF removed
  <1>2. /\ plugins' = [plugins EXCEPT ![req[s].name] = None]
        /\ stateDir' \subseteq stateDir
        /\ UNCHANGED <<inProgress, monitors, jobs, obj, steps, phase, curr, req,
                       booting, cancelled, procs, dirs, link, stateFile, keptFiles, chores>>
    BY DEF removed
  <1>3. PICK v \in {"success", "failure"} : Conclude(s, "REMOVED", v)
    BY DEF removed
  <1>4. report' \in [Slots -> [event : EventType,
                              verdict : {"success", "failure", None}]]
    BY <1>1, <1>3, ReportType DEF IInv, Conclude
  <1>5. Goto(Req(s), "finish")
    BY <1>3 DEF Conclude
  <1>6. plugins' \in [Names -> Slots \cup {None}]
    BY <1>1, <1>2 DEF IInv, TypeOK
  <1>7. TypeOK'
    BY <1>1, <1>2, <1>4, <1>5, <1>6, MoveReq DEF IInv, TypeOK, chores
  <1>8. ReqOK(s)'
    BY <1>1, <1>2, <1>5, MoveReq DEF IInv, ReqOK, Object, Active
  <1>9. \A n \in Names : plugins'[n] = plugins[n] \/ MapOK(n)'
    BY <1>1, <1>2 DEF IInv, TypeOK, MapOK
  <1>10. WellFormed'
    BY <1>1, <1>2, <1>5, <1>8, <1>9, FrameReq DEF Object
  <1> QED BY <1>7, <1>10 DEF IInv

\* removeFailed keeps the inductive invariant.
LEMMA removeFailedIInv ==
    ASSUME IInv, NEW s \in Slots, removeFailed(s)
    PROVE  IInv'
  <1>1. Active(s) /\ "REMOVE_FAILED" \in EventType
    BY PhaseFacts DEF removeFailed
  <1>2. /\ Conclude(s, "REMOVE_FAILED", "failure")
        /\ UNCHANGED <<memory, steps, phase, curr, req, booting, cancelled, host,
                       chores>>
    BY DEF removeFailed
  <1> QED BY <1>1, <1>2, ConcludeIInv DEF IInv, TypeOK, memory, host, chores

\* setState keeps the type of the objects.
LEMMA setStateType ==
    ASSUME IInv, NEW o \in Slots, NEW v \in StatusValue, setState(o, v)
    PROVE  obj' \in [Slots -> ObjType]
  <1>1. obj \in [Slots -> ObjType]
    BY DEF IInv, TypeOK
  <1>2. [obj[o] EXCEPT !.status = v] \in ObjType
    BY <1>1 DEF ObjType
  <1> QED BY <1>1, <1>2 DEF setState

\* applied keeps the inductive invariant.
LEMMA appliedIInv ==
    ASSUME IInv, NEW s \in Slots, applied(s)
    PROVE  IInv'
  <1>1. /\ Active(s) /\ {"APPLIED", None} \subseteq EventType
        /\ phase[s] = "apply" /\ ReqOK(s)
    BY PhaseFacts DEF applied
  <1>2. /\ UNCHANGED <<plugins, inProgress, monitors, jobs, steps, phase, curr, req,
                       booting, cancelled, host, chores>>
        /\ \E e \in {"APPLIED", None}, v \in {"success", "failure"} : Conclude(s, e, v)
    BY DEF applied
  <1>3. obj' \in [Slots -> ObjType]
    <2>1. curr[s] \in Slots /\ "CRASHED" \in StatusValue
      BY <1>1, ReqFacts DEF ReqOK, StatusValue
    <2>2. obj' = obj \/ setState(curr[s], "CRASHED")
      BY DEF applied
    <2>3. obj \in [Slots -> ObjType]
      BY DEF IInv, TypeOK
    <2> QED BY <2>1, <2>2, <2>3, setStateType
  <1> QED BY <1>1, <1>2, <1>3, ConcludeIInv DEF IInv, TypeOK, host, chores

\* loaded keeps the inductive invariant.
LEMMA loadedIInv ==
    ASSUME IInv, NEW s \in Slots, loaded(s)
    PROVE  IInv'
  <1>1. /\ pc[Req(s)] \in {"run", "failed"} /\ Active(s) /\ phase[s] = "load"
        /\ ReqOK(s) /\ "finish" \in ReqPc \ StepPc
    BY PhaseFacts DEF loaded
  <1>2. Object(s) /\ "CRASHED" \in StatusValue
    BY <1>1 DEF ReqOK, StatusValue
  <1>3. UNCHANGED <<plugins, inProgress, monitors, jobs, steps, phase, curr, req,
                   report, cancelled, host, chores>>
    BY DEF loaded
  <1>4. CASE /\ pc' = [pc EXCEPT ![Req(s)] = "finish", ![Mon(s)] = "schedule"]
             /\ booting' = booting \cup {s}
             /\ obj' = obj
    BY <1>1, <1>2, <1>3, <1>4, FinishAndMonitor DEF IInv, TypeOK, host, chores
  <1>5. CASE setState(s, "CRASHED") /\ Goto(Req(s), "finish") /\ booting' = booting
    <2>1. obj' \in [Slots -> ObjType]
      BY <1>2, <1>5, setStateType
    <2>2. TypeOK'
      BY <1>1, <1>3, <1>5, <2>1, MoveReq DEF IInv, TypeOK, host, chores
    <2>3. ReqOK(s)'
      BY <1>1, <1>3, <1>5, MoveReq DEF IInv, ReqOK, Object, Active
    <2>4. WellFormed'
      BY <1>1, <1>3, <1>5, <2>3, FrameReq DEF Object
    <2> QED BY <2>2, <2>4 DEF IInv
  <1> QED BY <1>4, <1>5 DEF loaded

-----------------------------------------------------------------------------
(***************************************************************************)
(* The actions of monitors.                                                *)
(***************************************************************************)

\* A monitor moves to l outside the steps; objects and jobs stay well typed.
LEMMA MonitorIInv ==
    ASSUME IInv, NEW s \in Slots, Object(s), NEW l \in MonPc \ StepPc,
           Goto(Mon(s), l), OnlyMonitor, UNCHANGED steps,
           monitors' \subseteq FullNames,
           jobs' \in [FullNames -> Slots \cup {None}],
           obj' \in [Slots -> ObjType],
           booting' \subseteq booting
    PROVE  IInv'
  <1>1. UNCHANGED <<plugins, inProgress, phase, curr, req, report, cancelled, host,
                   chores>>
    BY DEF OnlyMonitor
  <1>2. TypeOK'
    BY <1>1, MoveMon DEF IInv, TypeOK, host, chores
  <1>3. \A t \in Threads : StepOK(t)'
    BY MoveMon DEF StepOK, IInv, WellFormed
  <1>4. /\ \A x \in Slots : pc'[Req(x)] = pc[Req(x)]
        /\ \A x \in Slots : x # s => pc'[Mon(x)] = pc[Mon(x)]
    BY MoveMon DEF IInv
  <1>5. ReqOK(s)'
    BY <1>1, <1>4, ReqFacts DEF ReqOK, Object, Active
  <1>6. WellFormed'
    BY <1>1, <1>3, <1>4, <1>5, Frame DEF Object
  <1> QED BY <1>2, <1>6 DEF IInv

\* What a monitor has at hand.
LEMMA MonitorFacts ==
    ASSUME IInv, NEW s \in Slots, pc[Mon(s)] \notin {"off", "gone"}
    PROVE  /\ Object(s) /\ FullName(s) \in FullNames
           /\ AfterRun(s) \in MonPc \ StepPc
           /\ {"register", "health", "add", "idle", "gone", "status", "check"}
                \subseteq MonPc \ StepPc
           /\ monitors \subseteq FullNames
           /\ jobs \in [FullNames -> Slots \cup {None}]
           /\ obj \in [Slots -> ObjType]
           /\ "CRASHED" \in StatusValue
  <1>1. Object(s)
    BY DEF IInv, WellFormed, MonOK
  <1>2. FullName(s) \in FullNames
    BY <1>1 DEF Object, FullName, FullNames
  <1>3. {"register", "health", "add", "idle", "gone", "status", "check"}
          \subseteq MonPc \ StepPc
    BY DEF MonPc, StepPc
  <1> QED BY <1>1, <1>2, <1>3 DEF AfterRun, IInv, TypeOK, StatusValue

\* ScheduleJob keeps the inductive invariant.
LEMMA ScheduleJobIInv ==
    ASSUME IInv, NEW s \in Slots, ScheduleJob(s)
    PROVE  IInv'
  <1>1. PICK l \in {"register", "health"} : Goto(Mon(s), l)
    BY DEF ScheduleJob
  <1> QED BY <1>1, MonitorFacts, MonitorIInv DEF ScheduleJob

\* addJob keeps the inductive invariant.
LEMMA addJobIInv ==
    ASSUME IInv, NEW s \in Slots, addJob(s)
    PROVE  IInv'
  <1>1. jobs' \in [FullNames -> Slots \cup {None}]
    BY MonitorFacts DEF addJob
  <1> QED BY <1>1, MonitorFacts, MonitorIInv DEF addJob

\* startMonitoring keeps the inductive invariant.
LEMMA startMonitoringIInv ==
    ASSUME IInv, NEW s \in Slots, startMonitoring(s)
    PROVE  IInv'
  <1>1. PICK l \in {"idle", "gone"} : Goto(Mon(s), l)
    BY DEF startMonitoring
  <1>2. monitors' \subseteq FullNames /\ booting' \subseteq booting
    BY MonitorFacts DEF startMonitoring
  <1> QED BY <1>1, <1>2, MonitorFacts, MonitorIInv DEF startMonitoring

\* runOnSchedule keeps the inductive invariant.
LEMMA runOnScheduleIInv ==
    ASSUME IInv, NEW s \in Slots, runOnSchedule(s)
    PROVE  IInv'
  <1>1. PICK l \in {"health", "gone"} : Goto(Mon(s), l)
    BY DEF runOnSchedule
  <1>2. jobs' \in [FullNames -> Slots \cup {None}]
    BY MonitorFacts DEF runOnSchedule
  <1> QED BY <1>1, <1>2, MonitorFacts, MonitorIInv DEF runOnSchedule

\* healthCheck keeps the inductive invariant.
LEMMA healthCheckIInv ==
    ASSUME IInv, NEW s \in Slots, healthCheck(s)
    PROVE  IInv'
  <1>1. PICK l \in {"status", AfterRun(s)} : Goto(Mon(s), l)
    BY DEF healthCheck
  <1> QED BY <1>1, MonitorFacts, MonitorIInv DEF healthCheck

\* GetStatus keeps the inductive invariant.
LEMMA GetStatusIInv ==
    ASSUME IInv, NEW s \in Slots, GetStatus(s)
    PROVE  IInv'
  <1>1. PICK l \in {"check", AfterRun(s)} : Goto(Mon(s), l)
    BY DEF GetStatus
  <1>2. obj' \in [Slots -> ObjType]
    BY MonitorFacts, setStateType DEF GetStatus
  <1> QED BY <1>1, <1>2, MonitorFacts, MonitorIInv DEF GetStatus

\* relaunched keeps the inductive invariant.
LEMMA relaunchedIInv ==
    ASSUME IInv, NEW s \in Slots, relaunched(s)
    PROVE  IInv'
  <1>1. pc[Mon(s)] \notin {"off", "gone"} /\ Goto(Mon(s), AfterRun(s))
    BY DEF relaunched
  <1>2. obj' \in [Slots -> ObjType]
    BY <1>1, MonitorFacts, setStateType DEF relaunched
  <1> QED BY <1>1, <1>2, MonitorFacts, MonitorIInv DEF relaunched

-----------------------------------------------------------------------------
(***************************************************************************)
(* The environment.                                                        *)
(***************************************************************************)

\* An action that leaves memory and goroutines alone keeps what they rely on.
LEMMA HostIInv ==
    ASSUME IInv, UNCHANGED <<memory, pc, steps, phase, curr, req, booting, report>>,
           cancelled' \in BOOLEAN,
           procs' \in [Pids -> FullNames \cup {None}],
           dirs' \subseteq FullNames,
           link' \in [Names -> Revs \cup {None}],
           stateFile' \in [Names -> FileType], keptFiles' \subseteq Names,
           stateDir' \subseteq Names,
           doomed' \subseteq FullNames,
           scans' \in Nat, restarts' \in Nat
    PROVE  IInv'
  <1>1. TypeOK'
    BY DEF IInv, TypeOK, memory
  <1>2. WellFormed'
    BY DEF IInv, WellFormed, ReqOK, MonOK, MapOK, StepOK, Object, Active, memory
  <1> QED BY <1>1, <1>2 DEF IInv

\* scanLeftovers keeps the inductive invariant.
LEMMA scanLeftoversIInv ==
    ASSUME IInv, scanLeftovers
    PROVE  IInv'
  <1>1. doomed' \subseteq FullNames /\ scans' \in Nat
    BY DEF scanLeftovers, Leftovers, IInv, TypeOK
  <1> QED BY <1>1, HostIInv DEF scanLeftovers, control, host, IInv, TypeOK

\* removeLeftover keeps the inductive invariant.
LEMMA removeLeftoverIInv ==
    ASSUME IInv, removeLeftover
    PROVE  IInv'
  <1>1. PICK f \in doomed :
          /\ doomed' = doomed \ {f}
          /\ dirs' = dirs \ {f}
          /\ stateFile' = [stateFile EXCEPT ![f[1]] = None] /\ keptFiles' = keptFiles \ {f[1]}
          /\ link' = IF link[f[1]] = f[2] THEN [link EXCEPT ![f[1]] = None] ELSE link
          /\ UNCHANGED <<memory, control, procs, stateDir, scans, restarts>>
    BY DEF removeLeftover
  <1>2. f[1] \in Names
    BY DEF IInv, TypeOK, FullNames
  <1>3. /\ stateFile' \in [Names -> FileType] /\ keptFiles' \subseteq Names
        /\ link' \in [Names -> Revs \cup {None}]
    BY <1>1, <1>2 DEF IInv, TypeOK, FileType
  <1>4. UNCHANGED <<memory, pc, steps, phase, curr, req, booting, report, cancelled,
                   procs, stateDir, scans, restarts>>
    BY <1>1 DEF control
  <1>5. /\ procs \in [Pids -> FullNames \cup {None}] /\ cancelled \in BOOLEAN
        /\ dirs' \subseteq FullNames /\ doomed' \subseteq FullNames
        /\ stateDir \subseteq Names /\ scans \in Nat /\ restarts \in Nat
    BY <1>1 DEF IInv, TypeOK
  <1> QED BY <1>3, <1>4, <1>5, HostIInv

\* ProcessExits keeps the inductive invariant.
LEMMA ProcessExitsIInv ==
    ASSUME IInv, ProcessExits
    PROVE  IInv'
  <1>1. procs' \in [Pids -> FullNames \cup {None}]
    BY DEF ProcessExits, IInv, TypeOK
  <1> QED BY <1>1, HostIInv DEF ProcessExits, control, chores, IInv, TypeOK

\* CancelContext keeps the inductive invariant.
LEMMA CancelContextIInv ==
    ASSUME IInv, CancelContext
    PROVE  IInv'
  BY HostIInv DEF CancelContext, host, chores, IInv, TypeOK

\* Where the goroutines are after a restart.
LEMMA RestartedPcFacts ==
    ASSUME IInv, NEW loading \in SUBSET Slots, pc' = RestartedPc(loading)
    PROVE  /\ pc' \in [Threads -> ReqPc \cup MonPc]
           /\ \A s \in Slots :
                 /\ pc'[Req(s)] = IF s \in loading THEN "check"
                                  ELSE IF pc[Req(s)] = "free" THEN "free" ELSE "done"
                 /\ pc'[Mon(s)] \in {"off", "gone"}
           /\ \A s \in Slots : pc'[Req(s)] \in ReqPc /\ pc'[Mon(s)] \in MonPc
           /\ \A t \in Threads : pc'[t] \notin StepPc
  <1>1. \A t \in Threads : pc'[t] =
          IF t[1] = "mon" THEN (IF pc[t] = "off" THEN "off" ELSE "gone")
          ELSE IF t[2] \in loading THEN "check"
          ELSE IF pc[t] = "free" THEN "free" ELSE "done"
    BY DEF RestartedPc
  <1>2. {"off", "gone", "check", "free", "done"} \cap StepPc = {}
    BY DEF StepPc
  <1>3. {"off", "gone"} \subseteq MonPc /\ {"check", "free", "done"} \subseteq ReqPc
    BY DEF MonPc, ReqPc
  <1>4. pc' \in [Threads -> ReqPc \cup MonPc]
    BY <1>3 DEF RestartedPc
  <1>5. \A s \in Slots :
          /\ pc'[Req(s)] = IF s \in loading THEN "check"
                           ELSE IF pc[Req(s)] = "free" THEN "free" ELSE "done"
          /\ pc'[Mon(s)] \in {"off", "gone"}
    BY <1>1, ThreadFacts
  <1>6. \A s \in Slots : pc'[Req(s)] \in ReqPc /\ pc'[Mon(s)] \in MonPc
    BY <1>3, <1>5
  <1>7. \A t \in Threads : pc'[t] \notin StepPc
    BY <1>1, <1>2
  <1> QED BY <1>4, <1>5, <1>6, <1>7

\* The new agent process loads the plugins with a state file into the slots ld.
FileNames == {n \in Names : stateFile[n] # None}

Loads(ld) ==
    LET loading == {ld[n] : n \in FileNames} IN
    /\ \A m, n \in FileNames : ld[m] = ld[n] => m = n
    /\ \A n \in FileNames : pc[Req(ld[n])] = "free"
    /\ plugins' = [n \in Names |-> IF n \in FileNames THEN ld[n] ELSE None]
    /\ \A n \in FileNames : req'[ld[n]].name = n /\ req'[ld[n]].rev \in Revs
    /\ \A n \in FileNames : phase'[ld[n]] = "load"
    /\ req' \in [Slots -> ReqType] /\ obj' \in [Slots -> ObjType]
    /\ phase' \in [Slots -> PhaseType]
    /\ \A s \in Slots \ loading :
          req'[s] = req[s] /\ phase'[s] = phase[s] /\ obj'[s] = obj[s]
    /\ \A n \in FileNames : /\ req'[ld[n]].rev = stateFile[n].rev
                            /\ ~req'[ld[n]].local
                            /\ obj'[ld[n]].status = "UNSPECIFIED"
                            /\ obj'[ld[n]].pending = None
    /\ pc' = RestartedPc(loading)

\* A restart loads each plugin with a state file into a slot of its own.
LEMMA InitPluginManagerFacts ==
    ASSUME IInv, InitPluginManager
    PROVE  \E ld \in [FileNames -> Slots] : Loads(ld)
  <1> DEFINE names == {n \in Names : stateFile[n] # None}
  <1>1. PICK ld \in Loaders(names) :
          LET loading == {ld[n] : n \in names}
              NameOf(s) == CHOOSE n \in names : ld[n] = s IN
          /\ plugins' = [n \in Names |-> IF n \in names THEN ld[n] ELSE None]
          /\ req' = [s \in Slots |-> IF s \notin loading THEN req[s] ELSE
                      [name |-> NameOf(s), rev |-> stateFile[NameOf(s)].rev,
                       local |-> FALSE, action |-> "LOAD"]]
          /\ obj' = [s \in Slots |-> IF s \notin loading THEN obj[s] ELSE
                      [NewObj EXCEPT !.pid = stateFile[NameOf(s)].pid]]
          /\ phase' = [s \in Slots |-> IF s \in loading THEN "load" ELSE phase[s]]
          /\ pc' = RestartedPc(loading)
    BY DEF InitPluginManager
  <1> DEFINE loading == {ld[n] : n \in names}
             NameOf(s) == CHOOSE n \in names : ld[n] = s
  <1>2. /\ ld \in [names -> Slots]
        /\ \A m, n \in names : ld[m] = ld[n] => m = n
        /\ \A n \in names : pc[Req(ld[n])] = "free"
    BY DEF Loaders
  <1>3. \A n \in names : NameOf(ld[n]) = n
    BY <1>2
  <1>4. \A n \in names : stateFile[n].rev \in Revs /\ stateFile[n].pid \in Pids \cup {None}
    BY DEF InitPluginManager, IInv, TypeOK, FileType
  <1>5. \A n \in names :
          /\ req'[ld[n]] = [name |-> n, rev |-> stateFile[n].rev,
                            local |-> FALSE, action |-> "LOAD"]
          /\ obj'[ld[n]] = [NewObj EXCEPT !.pid = stateFile[n].pid]
          /\ phase'[ld[n]] = "load"
    BY <1>1, <1>2, <1>3, ZenonT(40)
  <1>6. ASSUME NEW n \in names
        PROVE  /\ req'[ld[n]] \in ReqType
               /\ req'[ld[n]].name = n /\ req'[ld[n]].rev \in Revs
    <2>1. /\ n \in Names /\ stateFile[n].rev \in Revs
          /\ req'[ld[n]] = [name |-> n, rev |-> stateFile[n].rev,
                            local |-> FALSE, action |-> "LOAD"]
      BY <1>4, <1>5
    <2> QED BY <2>1 DEF ReqType
  <1>7. ASSUME NEW n \in names PROVE obj'[ld[n]] \in ObjType
    <2>1. NewObj \in ObjType
      BY DEF NewObj, ObjType, StatusValue
    <2>2. \A p \in Pids \cup {None} : [NewObj EXCEPT !.pid = p] \in ObjType
      BY <2>1 DEF ObjType
    <2> QED BY <1>4, <1>5, <2>2
  <1>8. \A s \in Slots \ loading :
          req'[s] = req[s] /\ obj'[s] = obj[s] /\ phase'[s] = phase[s]
    BY <1>1
  <1>9. \A s \in loading : \E n \in names : s = ld[n]
    OBVIOUS
  <1>10. req' \in [Slots -> ReqType] /\ obj' \in [Slots -> ObjType]
    <2>1. \A s \in Slots : req[s] \in ReqType /\ obj[s] \in ObjType
      BY DEF IInv, TypeOK
    <2>2. \A s \in Slots : req'[s] \in ReqType /\ obj'[s] \in ObjType
      BY <1>6, <1>7, <1>8, <1>9, <2>1
    <2>3. req' = [s \in Slots |-> req'[s]] /\ obj' = [s \in Slots |-> obj'[s]]
      BY <1>1
    <2> QED BY <2>2, <2>3
  <1>11. phase' \in [Slots -> PhaseType]
    BY <1>1 DEF IInv, TypeOK, PhaseType
  <1>12. ld \in [names -> Slots]
    BY <1>2
  <1>13. /\ plugins' = [n \in Names |-> IF n \in names THEN ld[n] ELSE None]
         /\ pc' = RestartedPc(loading)
    BY <1>1
  <1>14. \A s \in Slots \ loading :
           req'[s] = req[s] /\ phase'[s] = phase[s] /\ obj'[s] = obj[s]
    BY <1>8
  <1>15. \A n \in names : phase'[ld[n]] = "load"
    BY <1>5
  <1>16. \A n \in names : /\ req'[ld[n]].rev = stateFile[n].rev
                          /\ ~req'[ld[n]].local
                          /\ obj'[ld[n]].status = "UNSPECIFIED"
                          /\ obj'[ld[n]].pending = None
    <2> SUFFICES ASSUME NEW n \in names
                 PROVE  /\ req'[ld[n]].rev = stateFile[n].rev /\ ~req'[ld[n]].local
                        /\ obj'[ld[n]].status = "UNSPECIFIED" /\ obj'[ld[n]].pending = None
      OBVIOUS
    <2>0. req'[ld[n]] = [name |-> n, rev |-> stateFile[n].rev,
                         local |-> FALSE, action |-> "LOAD"]
      BY <1>5
    <2>1. req'[ld[n]].rev = stateFile[n].rev
      BY <2>0
    <2>3. ~req'[ld[n]].local
      BY <2>0
    <2>2. obj'[ld[n]].status = "UNSPECIFIED" /\ obj'[ld[n]].pending = None
      BY <1>5 DEF NewObj
    <2> QED BY <2>1, <2>2, <2>3
  <1> HIDE DEF NameOf
  <1>17. Loads(ld)
    BY <1>2, <1>6, <1>7, <1>10, <1>11, <1>13, <1>14, <1>15, <1>16 DEF Loads, FileNames
  <1> QED BY <1>12, <1>17 DEF FileNames

\* InitPluginManager keeps the inductive invariant.
LEMMA InitPluginManagerIInv ==
    ASSUME IInv, InitPluginManager
    PROVE  IInv'
  <1> DEFINE names == FileNames
  <1>0. PICK ld \in [names -> Slots] : Loads(ld)
    BY InitPluginManagerFacts
  <1> DEFINE loading == {ld[n] : n \in names}
  <1>1. /\ \A n \in names : pc[Req(ld[n])] = "free"
        /\ plugins' = [n \in Names |-> IF n \in names THEN ld[n] ELSE None]
        /\ \A n \in names : req'[ld[n]].name = n /\ req'[ld[n]].rev \in Revs
        /\ \A n \in names : phase'[ld[n]] = "load"
        /\ req' \in [Slots -> ReqType] /\ obj' \in [Slots -> ObjType]
        /\ phase' \in [Slots -> PhaseType]
        /\ \A s \in Slots \ loading : req'[s] = req[s] /\ phase'[s] = phase[s]
        /\ pc' = RestartedPc(loading)
    BY <1>0 DEF Loads
  <1>2. loading \in SUBSET Slots
    OBVIOUS
  <1>3. /\ pc' \in [Threads -> ReqPc \cup MonPc]
        /\ \A s \in Slots :
             /\ pc'[Req(s)] = IF s \in loading THEN "check"
                              ELSE IF pc[Req(s)] = "free" THEN "free" ELSE "done"
             /\ pc'[Mon(s)] \in {"off", "gone"}
        /\ \A s \in Slots : pc'[Req(s)] \in ReqPc /\ pc'[Mon(s)] \in MonPc
        /\ \A t \in Threads : pc'[t] \notin StepPc
    BY <1>1, <1>2, RestartedPcFacts
  <1>4. /\ inProgress' \subseteq Names /\ monitors' = {} /\ booting' = {}
        /\ jobs' = [f \in FullNames |-> None]
        /\ steps' = [t \in Threads |-> <<>>]
        /\ cancelled' = FALSE
        /\ procs' \in {procs, [p \in Pids |-> None]}
        /\ restarts' = restarts + 1
        /\ UNCHANGED <<curr, report, dirs, link, stateFile, keptFiles, stateDir>>
    BY DEF InitPluginManager
  <1>5. doomed' \subseteq FullNames /\ scans' \in Nat /\ restarts' \in Nat
    BY DEF InitPluginManager, Leftovers, IInv, TypeOK
  <1>6. plugins' \in [Names -> Slots \cup {None}]
    BY <1>1
  <1>7. /\ jobs' \in [FullNames -> Slots \cup {None}]
        /\ steps' \in [Threads -> Seq(StepKind)]
        /\ procs' \in [Pids -> FullNames \cup {None}]
    BY <1>4 DEF IInv, TypeOK
  <1>8. TypeOK'
    <2>1. /\ curr' \in [Slots -> Slots \cup {None}]
          /\ report' \in [Slots -> [event : EventType,
                                   verdict : {"success", "failure", None}]]
          /\ dirs' \subseteq FullNames /\ link' \in [Names -> Revs \cup {None}]
          /\ stateFile' \in [Names -> FileType] /\ keptFiles' \subseteq Names /\ stateDir' \subseteq Names
      BY <1>4 DEF IInv, TypeOK
    <2>2. /\ monitors' \subseteq FullNames /\ booting' \subseteq Slots
          /\ cancelled' \in BOOLEAN /\ inProgress' \subseteq Names
      BY <1>4
    <2>3. /\ req' \in [Slots -> ReqType] /\ obj' \in [Slots -> ObjType]
          /\ phase' \in [Slots -> PhaseType]
      BY <1>1
    <2>4. /\ pc' \in [Threads -> ReqPc \cup MonPc]
          /\ \A s \in Slots : pc'[Req(s)] \in ReqPc /\ pc'[Mon(s)] \in MonPc
      BY <1>3
    <2> QED BY <1>5, <1>6, <1>7, <2>1, <2>2, <2>3, <2>4 DEF TypeOK
  <1>9. \A n \in names : Object(ld[n])' /\ ~Object(ld[n])
    <2>1. \A n \in names : pc[Req(ld[n])] = "free" /\ ld[n] \in Slots /\ ReqOK(ld[n])
      BY <1>1 DEF IInv, WellFormed
    <2>2. \A n \in names : req[ld[n]].name = None
      BY <2>1 DEF ReqOK
    <2>3. \A n \in names : n \in Names /\ req'[ld[n]].name = n /\ req'[ld[n]].rev \in Revs
      BY <1>1 DEF FileNames
    <2> QED BY <2>2, <2>3 DEF Object
  <1>10. \A s \in loading : \E n \in names : s = ld[n]
    OBVIOUS
  <1>11. \A s \in loading : ~Object(s) /\ Object(s)' /\ phase'[s] = "load"
    BY <1>1, <1>9, <1>10
  <1>12. \A s \in Slots \ loading : req'[s] = req[s] /\ phase'[s] = phase[s]
    BY <1>1
  <1>13. \A n \in Names : MapOK(n)'
    BY <1>1, <1>9 DEF MapOK
  <1> HIDE DEF loading
  <1>14. \A s \in Slots : Object(s) => Object(s)'
    BY <1>11, <1>12 DEF Object
  <1>15. ASSUME NEW s \in Slots PROVE ReqOK(s)'
    <2>1. ReqOK(s) /\ (curr[s] # None => (Object(curr[s]))')
      BY <1>4, <1>14, ReqFacts DEF Object
    <2>2. CASE s \in loading
      <3>1. pc'[Req(s)] = "check" /\ phase'[s] = "load" /\ Object(s)'
        BY <1>3, <1>11, <2>2
      <3> QED BY <1>4, <2>1, <3>1 DEF ReqOK, Object, Active
    <2>3. CASE s \notin loading
      <3>1. /\ pc'[Req(s)] = IF pc[Req(s)] = "free" THEN "free" ELSE "done"
            /\ req'[s] = req[s] /\ phase'[s] = phase[s]
            /\ Object(s) => Object(s)'
        BY <1>3, <1>12, <1>14, <2>3
      <3> QED BY <1>4, <2>1, <3>1 DEF ReqOK, Active
    <2> QED BY <2>2, <2>3
  <1>16. (\A s \in Slots : MonOK(s)') /\ (\A t \in Threads : StepOK(t)')
    BY <1>3 DEF MonOK, StepOK
  <1>17. WellFormed'
    BY <1>13, <1>15, <1>16 DEF WellFormed
  <1> QED BY <1>8, <1>17 DEF IInv

\* InitFails keeps the inductive invariant.
LEMMA InitFailsIInv ==
    ASSUME IInv, InitFails
    PROVE  IInv'
  <1>1. \A t \in Threads : pc'[t] = IF t[1] = "req" THEN "done" ELSE "gone"
    BY DEF InitFails
  <1>2. \A s \in Slots : pc'[Req(s)] = "done" /\ pc'[Mon(s)] = "gone"
    BY <1>1, ThreadFacts
  <1>3. /\ pc' \in [Threads -> ReqPc \cup MonPc]
        /\ \A s \in Slots : pc'[Req(s)] \in ReqPc /\ pc'[Mon(s)] \in MonPc
    BY <1>2 DEF InitFails, ReqPc, MonPc
  <1>4. /\ plugins' = [n \in Names |-> None]
        /\ UNCHANGED <<obj, phase, curr, req, report, dirs, link, stateFile, keptFiles,
                       stateDir, scans>>
    BY DEF InitFails
  <1>5. TypeOK'
    <2>1. /\ inProgress' = {} /\ monitors' = {} /\ booting' = {} /\ doomed' = {}
          /\ cancelled' = FALSE
          /\ jobs' = [f \in FullNames |-> None]
          /\ steps' = [t \in Threads |-> <<>>]
          /\ procs' \in {procs, [p \in Pids |-> None]}
          /\ restarts' = restarts + 1
      BY DEF InitFails
    <2>2. /\ jobs' \in [FullNames -> Slots \cup {None}]
          /\ steps' \in [Threads -> Seq(StepKind)]
          /\ procs' \in [Pids -> FullNames \cup {None}]
          /\ plugins' \in [Names -> Slots \cup {None}]
          /\ restarts' \in Nat
      BY <1>4, <2>1 DEF IInv, TypeOK
    <2>3. /\ inProgress' \subseteq Names /\ monitors' \subseteq FullNames
          /\ booting' \subseteq Slots /\ doomed' \subseteq FullNames
          /\ cancelled' \in BOOLEAN
      BY <2>1
    <2> QED BY <1>3, <1>4, <2>2, <2>3 DEF IInv, TypeOK
  <1>6. ASSUME NEW s \in Slots PROVE ReqOK(s)'
    BY <1>2, <1>4, ReqFacts DEF ReqOK, Object, Active
  <1>7. /\ \A s \in Slots : MonOK(s)'
        /\ \A n \in Names : MapOK(n)'
        /\ \A t \in Threads : StepOK(t)'
    BY <1>1, <1>2, <1>4 DEF MonOK, MapOK, StepOK, StepPc
  <1> QED BY <1>5, <1>6, <1>7 DEF IInv, WellFormed

-----------------------------------------------------------------------------
(***************************************************************************)
(* The invariant.                                                          *)
(***************************************************************************)
LEMMA StepIInv ==
    ASSUME IInv, NEW t \in Threads, Step(t)
    PROVE  IInv'
  BY runStepsIInv, downloadStepIInv, unpackStepIInv, stopPluginIInv, markStoppedIInv,
     cleanupIInv, launchStepIInv, awaitSocketIInv, startPluginIInv, openStateFileIInv,
     writeStateFileIInv, connectOrReLaunchIInv
  DEF Step

\* Request keeps the inductive invariant.
LEMMA RequestIInv ==
    ASSUME IInv, NEW s \in Slots, Request(s)
    PROVE  IInv'
  <1>1. CASE Step(Req(s))
    BY <1>1, StepIInv, ThreadFacts
  <1>2. CASE configurePlugin(s) \/ applyConfig(s) \/ Apply(s) \/ stopMonitoring(s)
    BY <1>2, configurePluginIInv, applyConfigIInv, ApplyIInv, stopMonitoringIInv
  <1>3. CASE installed(s) \/ installFailed(s) \/ preLaunched(s) \/ upgradeFailed(s)
    BY <1>3, installedIInv, installFailedIInv, preLaunchedIInv, upgradeFailedIInv
  <1>4. CASE replaced(s) \/ launchUpgrade(s) \/ removed(s) \/ removeFailed(s)
    BY <1>4, replacedIInv, launchUpgradeIInv, removedIInv, removeFailedIInv
  <1>5. CASE applied(s) \/ loaded(s) \/ Finish(s)
    BY <1>5, appliedIInv, loadedIInv, FinishIInv
  <1> QED BY <1>1, <1>2, <1>3, <1>4, <1>5 DEF Request

\* MonitorRun keeps the inductive invariant.
LEMMA MonitorRunIInv ==
    ASSUME IInv, NEW s \in Slots, MonitorRun(s)
    PROVE  IInv'
  <1>1. CASE Step(Mon(s))
    BY <1>1, StepIInv, ThreadFacts
  <1> QED BY <1>1, ScheduleJobIInv, addJobIInv, startMonitoringIInv, healthCheckIInv,
             GetStatusIInv, relaunchedIInv DEF MonitorRun

\* Next keeps the inductive invariant.
LEMMA NextIInv ==
    ASSUME IInv, [Next]_vars
    PROVE  IInv'
  <1>1. CASE UNCHANGED vars
    <2>1. UNCHANGED <<memory, control, host, chores>>
      BY <1>1 DEF vars
    <2> QED BY <2>1, HostIInv DEF control, host, chores, IInv, TypeOK
  <1>2. ASSUME NEW s \in Slots,
               \/ filterPendingPluginRevisions(s) \/ Request(s) \/ UnscheduleJob(s)
               \/ MonitorRun(s) \/ runOnSchedule(s)
        PROVE  IInv'
    BY <1>2, filterPendingPluginRevisionsIInv, RequestIInv, UnscheduleJobIInv,
       MonitorRunIInv, runOnScheduleIInv
  <1>3. CASE Environment
    BY <1>3, scanLeftoversIInv, removeLeftoverIInv, ProcessExitsIInv, CancelContextIInv,
       InitPluginManagerIInv, InitFailsIInv DEF Environment
  <1> QED BY <1>1, <1>2, <1>3 DEF Next

\* Every state of the manager is well typed, and every goroutine holds objects:
\* no handler of pluginmanager.go dereferences a plugin that is not there.
THEOREM TypeCorrect == Spec => [](TypeOK /\ WellFormed)
  <1>1. Init => IInv
    BY InitIInv
  <1>2. IInv /\ [Next]_vars => IInv'
    BY NextIInv
  <1> QED BY <1>1, <1>2, PTL DEF Spec, IInv

-----------------------------------------------------------------------------
(***************************************************************************)
(* One request at a time.  Only filterPendingPluginRevisions, the deferred *)
(* delete of configurePlugin and a restart change which requests are       *)
(* active or which plugins are marked; every other action keeps the gate.  *)
(***************************************************************************)
KeepsGate ==
    /\ inProgress' = inProgress
    /\ \A x \in Slots : /\ Active(x)' <=> Active(x)
                        /\ req'[x].name = req[x].name

\* What leaves the marks and the active requests alone keeps OneRequestPerPlugin.
LEMMA KeepsGateInv ==
    ASSUME OneRequestPerPlugin, KeepsGate
    PROVE  OneRequestPerPlugin'
  BY DEF OneRequestPerPlugin, KeepsGate

\* A goroutine that is neither started nor ended.
LEMMA MoveKeepsGate ==
    ASSUME IInv, NEW t \in Threads, NEW l,
           pc[t] \notin {"free", "done"}, l \notin {"free", "done"},
           Goto(t, l), UNCHANGED <<inProgress, req>>
    PROVE  KeepsGate
  <1>1. \A u \in Threads : pc'[u] = IF u = t THEN l ELSE pc[u]
    BY DEF IInv, TypeOK, Goto
  <1> QED BY <1>1, ThreadFacts DEF KeepsGate, Active

\* A step of a workflow neither begins nor ends a request.
LEMMA StepKeepsGate ==
    ASSUME IInv, NEW t \in Threads, Step(t)
    PROVE  KeepsGate
  <1> DEFINE Inside == StepPc \cup {"run", "check", "failed"}
  <1>1. \A l \in Inside : l \notin {"free", "done"}
    BY DEF StepPc
  <1>2. ASSUME NEW l \in Inside, Goto(t, l), pc[t] \in Inside, OnlySteps
        PROVE  KeepsGate
    BY <1>1, <1>2, MoveKeepsGate DEF OnlySteps
  <1>3. CASE runSteps(t) \/ downloadStep(t) \/ unpackStep(t)
    BY <1>2, <1>3 DEF runSteps, downloadStep, unpackStep, Executes, StepDone, StepFails,
       StepPc
  <1>4. CASE stopPlugin(t) \/ markStopped(t) \/ cleanup(t)
    BY <1>2, <1>4 DEF stopPlugin, markStopped, cleanup, Executes, StepDone, StepPc
  <1>5. CASE launchStep(t)
    <2>1. PICK l \in {"socket", "connect", "failed"} : Goto(t, l)
      BY <1>5 DEF launchStep, StepFails
    <2>2. pc[t] = "exec" /\ OnlySteps
      BY <1>5 DEF launchStep, Executes
    <2> QED BY <1>2, <2>1, <2>2 DEF StepPc
  <1>6. CASE awaitSocket(t)
    <2>1. PICK l \in {"connect", "failed"} : Goto(t, l)
      BY <1>6 DEF awaitSocket, StepFails
    <2>2. pc[t] = "socket" /\ OnlySteps
      BY <1>6 DEF awaitSocket
    <2> QED BY <1>2, <2>1, <2>2 DEF StepPc
  <1>7. CASE startPlugin(t) \/ openStateFile(t) \/ writeStateFile(t)
    BY <1>2, <1>7 DEF startPlugin, openStateFile, writeStateFile, StepDone, StepFails,
       StepPc
  <1>8. CASE connectOrReLaunch(t)
    BY <1>2, <1>8 DEF connectOrReLaunch, RunSteps
  <1> QED BY <1>3, <1>4, <1>5, <1>6, <1>7, <1>8 DEF Step

\* configurePlugin neither begins nor ends a request.
LEMMA configurePluginKeepsGate ==
    ASSUME IInv, NEW s \in Slots, configurePlugin(s)
    PROVE  KeepsGate
  <1>1. pc[Req(s)] = "dispatch" /\ inProgress' = inProgress
    BY DEF configurePlugin
  <1>2. PICK l \in {"finish", "run", "unmonitor"} : Goto(Req(s), l)
    BY DEF configurePlugin, installPlugin, removePlugin, Conclude, RunSteps
  <1>3. \A x \in Slots : req'[x].name = req[x].name
    <2>1. \/ req' = req
          \/ \E r, b : req' = [req EXCEPT ![s].rev = r, ![s].local = b]
      BY DEF configurePlugin, installPlugin, removePlugin
    <2>2. req \in [Slots -> ReqType]
      BY DEF IInv, TypeOK
    <2>3. ASSUME NEW r, NEW b, req' = [req EXCEPT ![s].rev = r, ![s].local = b],
                 NEW x \in Slots
          PROVE  req'[x].name = req[x].name
      <3>1. req[x] \in ReqType
        BY <2>2
      <3>2. CASE x = s
        <4>1. req'[x] = [req[x] EXCEPT !.rev = r, !.local = b]
          BY <2>2, <2>3, <3>2
        <4> QED BY <3>1, <4>1 DEF ReqType
      <3>3. CASE x # s
        BY <2>2, <2>3, <3>3
      <3> QED BY <3>2, <3>3
    <2> QED BY <2>1, <2>3
  <1>4. \A u \in Threads : pc'[u] = IF u = Req(s) THEN l ELSE pc[u]
    BY <1>2 DEF IInv, TypeOK, Goto
  <1> QED BY <1>1, <1>3, <1>4, ThreadFacts DEF KeepsGate, Active

\* A request hands over to its monitor.
LEMMA HandOverKeepsGate ==
    ASSUME IInv, NEW s \in Slots, Active(s),
           pc' = [pc EXCEPT ![Req(s)] = "finish", ![Mon(s)] = "schedule"],
           UNCHANGED <<inProgress, req>>
    PROVE  KeepsGate
  <1>1. \A u \in Threads : pc'[u] = IF u = Mon(s) THEN "schedule"
                                    ELSE IF u = Req(s) THEN "finish" ELSE pc[u]
    BY ThreadFacts DEF IInv, TypeOK
  <1>2. \A r \in Slots : /\ Req(r) \in Threads /\ Req(r) # Mon(s)
                         /\ Req(r) = Req(s) <=> r = s
    BY ThreadFacts
  <1>3. \A r \in Slots : pc'[Req(r)] = IF r = s THEN "finish" ELSE pc[Req(r)]
    BY <1>1, <1>2
  <1>4. ASSUME NEW x \in Slots PROVE Active(x)' <=> Active(x)
    <2>1. CASE x = s
      <3>1. pc'[Req(x)] = "finish" /\ Active(x)
        BY <1>3, <2>1
      <3> QED BY <3>1 DEF Active
    <2>2. CASE x # s
      <3>1. pc'[Req(x)] = pc[Req(x)]
        BY <1>3, <2>2
      <3> QED BY <3>1 DEF Active
    <2> QED BY <2>1, <2>2
  <1> QED BY <1>4 DEF KeepsGate

\* No step of a request but its deferred function ends it.
LEMMA RequestKeepsGate ==
    ASSUME IInv, NEW s \in Slots, Request(s), ~Finish(s)
    PROVE  KeepsGate
  <1>1. CASE Step(Req(s))
    BY <1>1, StepKeepsGate, ThreadFacts
  <1>2. CASE configurePlugin(s)
    BY <1>2, configurePluginKeepsGate
  <1>3. CASE installed(s)
    BY <1>3, HandOverKeepsGate, PhaseFacts DEF installed
  <1>4. ASSUME NEW l \in {"apply", "finish", "run", "unmonitor", "unschedule", "launch"},
               Goto(Req(s), l), pc[Req(s)] \notin {"free", "done"},
               UNCHANGED <<inProgress, req>>
        PROVE  KeepsGate
    BY <1>4, MoveKeepsGate, ThreadFacts
  <1>5. CASE applyConfig(s) \/ Apply(s) \/ stopMonitoring(s)
    <2>1. PICK l \in {"apply", "finish", "run", "unschedule"} : Goto(Req(s), l)
      BY <1>5 DEF applyConfig, Apply, stopMonitoring, Conclude, RunSteps
    <2>2. pc[Req(s)] \notin {"free", "done"} /\ UNCHANGED <<inProgress, req>>
      BY <1>5 DEF applyConfig, Apply, stopMonitoring, memory
    <2> QED BY <1>4, <2>1, <2>2
  <1>6. CASE installFailed(s) \/ preLaunched(s) \/ upgradeFailed(s) \/ replaced(s)
    <2>1. PICK l \in {"finish", "unmonitor", "launch"} : Goto(Req(s), l)
      BY <1>6 DEF installFailed, preLaunched, upgradeFailed, replaced, Conclude
    <2>2. pc[Req(s)] \notin {"free", "done"} /\ UNCHANGED <<inProgress, req>>
      BY <1>6 DEF installFailed, preLaunched, upgradeFailed, replaced, memory,
         StepsDone, StepsFailed
    <2> QED BY <1>4, <2>1, <2>2
  <1>7. CASE launchUpgrade(s) \/ removed(s) \/ removeFailed(s) \/ applied(s)
    <2>1. PICK l \in {"finish", "run"} : Goto(Req(s), l)
      BY <1>7 DEF launchUpgrade, removed, removeFailed, applied, Conclude, RunSteps
    <2>2. pc[Req(s)] \notin {"free", "done"} /\ UNCHANGED <<inProgress, req>>
      BY <1>7 DEF launchUpgrade, removed, removeFailed, applied, memory,
         StepsDone, StepsFailed
    <2> QED BY <1>4, <2>1, <2>2
  <1>8. CASE loaded(s)
    <2>1. Active(s) /\ UNCHANGED <<inProgress, req>>
      BY <1>8 DEF loaded, StepsDone, StepsFailed, Active
    <2>2. \/ pc' = [pc EXCEPT ![Req(s)] = "finish", ![Mon(s)] = "schedule"]
          \/ Goto(Req(s), "finish")
      BY <1>8 DEF loaded
    <2> QED BY <1>4, <2>1, <2>2, HandOverKeepsGate DEF Active
  <1> QED BY <1>1, <1>2, <1>3, <1>5, <1>6, <1>7, <1>8 DEF Request

\* UnscheduleJob neither begins nor ends a request.
LEMMA UnscheduleJobKeepsGate ==
    ASSUME IInv, NEW s \in Slots, UnscheduleJob(s)
    PROVE  KeepsGate
  <1> DEFINE j == jobs[FullName(curr[s])]
  <1>1. pc[Req(s)] = "unschedule" /\ UNCHANGED <<inProgress, req>>
    BY DEF UnscheduleJob
  <1>2. j \in Slots \cup {None}
    <2>1. curr[s] \in Slots /\ Object(curr[s])
      BY <1>1, ReqFacts DEF ReqOK
    <2> QED BY <2>1 DEF FullName, FullNames, Object, IInv, TypeOK
  <1>3. \A r \in Slots : pc'[Req(r)] = IF r = s THEN "run" ELSE pc[Req(r)]
    <2>1. pc \in [Threads -> ReqPc \cup MonPc]
      BY DEF IInv, TypeOK
    <2>2. CASE j = None
      <3>1. pc' = [pc EXCEPT ![Req(s)] = "run"]
        BY <2>2 DEF UnscheduleJob
      <3> QED BY <2>1, <3>1, ThreadFacts
    <2>3. CASE j # None
      <3>1. pc' = [pc EXCEPT ![Req(s)] = "run",
                            ![Mon(j)] = IF @ = "idle" THEN "gone" ELSE @]
        BY <2>3 DEF UnscheduleJob
      <3>2. \A r \in Slots : /\ Req(r) \in Threads /\ Req(r) # Mon(j)
                             /\ Req(r) = Req(s) <=> r = s
        BY <1>2, <2>3, ThreadFacts
      <3> HIDE DEF j
      <3> QED BY <2>1, <3>1, <3>2
    <2> QED BY <2>2, <2>3
  <1> QED BY <1>1, <1>3 DEF KeepsGate, Active

\* The health monitors neither begin nor end a request.
LEMMA MonitorKeepsGate ==
    ASSUME IInv, NEW s \in Slots, MonitorRun(s) \/ runOnSchedule(s)
    PROVE  KeepsGate
  <1>1. CASE Step(Mon(s))
    BY <1>1, StepKeepsGate, ThreadFacts
  <1>2. ASSUME NEW l, Goto(Mon(s), l), OnlyMonitor
        PROVE  KeepsGate
    <2>1. \A u \in Threads : u # Mon(s) => pc'[u] = pc[u]
      BY <1>2 DEF IInv, TypeOK, Goto
    <2> QED BY <1>2, <2>1, ThreadFacts DEF KeepsGate, Active, OnlyMonitor
  <1>3. CASE ScheduleJob(s) \/ addJob(s) \/ startMonitoring(s) \/ runOnSchedule(s)
    BY <1>2, <1>3 DEF ScheduleJob, addJob, startMonitoring, runOnSchedule
  <1>4. CASE healthCheck(s) \/ GetStatus(s) \/ relaunched(s)
    BY <1>2, <1>4 DEF healthCheck, GetStatus, relaunched
  <1> QED BY <1>1, <1>3, <1>4 DEF MonitorRun

\* filterPendingPluginRevisions lets in one request per plugin, and marks it.
LEMMA filterPendingPluginRevisionsGate ==
    ASSUME IInv, OneRequestPerPlugin, NEW s \in Slots, filterPendingPluginRevisions(s)
    PROVE  OneRequestPerPlugin'
  <1>1. PICK n \in Names : /\ n \notin inProgress
                           /\ inProgress' = inProgress \cup {n}
                           /\ req'[s].name = n
                           /\ \A x \in Slots : x # s => req'[x] = req[x]
    BY DEF filterPendingPluginRevisions, IInv, TypeOK
  <1>2. "dispatch" \in ReqPc /\ Goto(Req(s), "dispatch") /\ pc[Req(s)] = "free"
    BY DEF filterPendingPluginRevisions, ReqPc
  <1>3. \A x \in Slots : pc'[Req(x)] = IF x = s THEN "dispatch" ELSE pc[Req(x)]
    BY <1>2, MoveReq DEF IInv
  <1>4. ~Active(s) /\ Active(s)' /\ \A x \in Slots : x # s => (Active(x)' <=> Active(x))
    BY <1>2, <1>3 DEF Active
  <1> QED BY <1>1, <1>4 DEF OneRequestPerPlugin

\* The deferred function of configurePlugin takes away the mark of its request only.
LEMMA FinishGate ==
    ASSUME IInv, OneRequestPerPlugin, NEW s \in Slots, Finish(s)
    PROVE  OneRequestPerPlugin'
  <1>1. /\ pc[Req(s)] = "finish" /\ "done" \in ReqPc /\ Goto(Req(s), "done")
        /\ inProgress' = inProgress \ {req[s].name} /\ req' = req
    BY DEF Finish, ReqPc
  <1>2. \A x \in Slots : pc'[Req(x)] = IF x = s THEN "done" ELSE pc[Req(x)]
    BY <1>1, MoveReq DEF IInv
  <1>3. Active(s) /\ ~Active(s)' /\ \A x \in Slots : x # s => (Active(x)' <=> Active(x))
    BY <1>1, <1>2 DEF Active
  <1> QED BY <1>1, <1>3 DEF OneRequestPerPlugin

\* A restart marks exactly the plugins it loads.
LEMMA InitPluginManagerGate ==
    ASSUME IInv, InitPluginManager
    PROVE  OneRequestPerPlugin'
  <1>0. PICK ld \in [FileNames -> Slots] : Loads(ld)
    BY InitPluginManagerFacts
  <1> DEFINE loading == {ld[n] : n \in FileNames}
  <1>1. /\ \A m, n \in FileNames : ld[m] = ld[n] => m = n
        /\ \A n \in FileNames : req'[ld[n]].name = n
        /\ pc' = RestartedPc(loading)
        /\ inProgress' = FileNames
    BY <1>0 DEF Loads, InitPluginManager, FileNames
  <1>2. loading \in SUBSET Slots
    OBVIOUS
  <1>3. \A s \in Slots : pc'[Req(s)] = IF s \in loading THEN "check"
                                      ELSE IF pc[Req(s)] = "free" THEN "free" ELSE "done"
    BY <1>1, <1>2, RestartedPcFacts
  <1>4. \A s \in Slots : Active(s)' <=> s \in loading
    BY <1>3 DEF Active
  <1> QED BY <1>1, <1>4 DEF OneRequestPerPlugin

\* After a failed initialization nothing is marked and nothing is processed.
LEMMA InitFailsGate ==
    ASSUME IInv, InitFails
    PROVE  OneRequestPerPlugin'
  <1>1. \A t \in Threads : pc'[t] = IF t[1] = "req" THEN "done" ELSE "gone"
    BY DEF InitFails
  <1>2. \A s \in Slots : ~Active(s)'
    BY <1>1, ThreadFacts DEF Active
  <1> QED BY <1>2 DEF InitFails, OneRequestPerPlugin

\* Every step keeps OneRequestPerPlugin.
LEMMA NextGate ==
    ASSUME IInv, OneRequestPerPlugin, [Next]_vars
    PROVE  OneRequestPerPlugin'
  <1>1. ASSUME UNCHANGED <<inProgress, pc, req>> PROVE OneRequestPerPlugin'
    BY <1>1, KeepsGateInv DEF KeepsGate, Active
  <1>2. CASE UNCHANGED vars
    BY <1>1, <1>2 DEF vars, memory, control
  <1>3. ASSUME NEW s \in Slots,
               \/ filterPendingPluginRevisions(s) \/ Request(s) \/ UnscheduleJob(s)
               \/ MonitorRun(s) \/ runOnSchedule(s)
        PROVE  OneRequestPerPlugin'
    BY <1>3, filterPendingPluginRevisionsGate, FinishGate, RequestKeepsGate,
       UnscheduleJobKeepsGate, MonitorKeepsGate, KeepsGateInv
  <1>4. CASE scanLeftovers \/ removeLeftover \/ ProcessExits \/ CancelContext
    BY <1>1, <1>4 DEF scanLeftovers, removeLeftover, ProcessExits, CancelContext,
       memory, control
  <1>5. CASE InitPluginManager \/ InitFails
    BY <1>5, InitPluginManagerGate, InitFailsGate
  <1> QED BY <1>2, <1>3, <1>4, <1>5 DEF Next, Environment

\* inProgressPluginRequests is a lock on the plugin, for any number of plugins,
\* requests and restarts: two goroutines never work on requests of one plugin, and
\* a mark always belongs to a goroutine that will delete it.
THEOREM OneRequest == Spec => []OneRequestPerPlugin
  <1>1. Init => IInv /\ OneRequestPerPlugin
    <2>1. Init => \A s \in Slots : ~Active(s)
      BY ThreadFacts DEF Init, Active
    <2> QED BY <2>1, InitIInv DEF OneRequestPerPlugin, Init
  <1>2. IInv /\ OneRequestPerPlugin /\ [Next]_vars => (IInv /\ OneRequestPerPlugin)'
    BY NextIInv, NextGate
  <1> QED BY <1>1, <1>2, PTL DEF Spec

=============================================================================
