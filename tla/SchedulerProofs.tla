--------------------------- MODULE SchedulerProofs ---------------------------
(***************************************************************************)
(* The scheduler, for every set of jobs and clients: its interrupts reach  *)
(* goroutines that have not ended, whether or not calls overlap; and, when *)
(* calls for one id do not overlap, every job lives the life of            *)
(* JobLifecycle, in the hands of one goroutine at a time.                  *)
(***************************************************************************)
EXTENDS Scheduler, TLAPS

\* The types that the argument needs.
Typed ==
    /\ jobs \in [Ids -> Configs \cup {None}] /\ mu \in Clients \cup {None}
    /\ pc \in [Clients \cup Configs -> ClientPc \cup RunnerPc]
    /\ \A t \in Clients : pc[t] \in ClientPc
    /\ \A c \in Configs : pc[c] \in RunnerPc
    /\ arg \in [Clients -> Ids \cup {None}]
    /\ target \in [Clients -> Configs \cup {None}]
    /\ todo \subseteq Configs /\ id \in [Configs -> Ids \cup {None}]

\* The goroutine of c has not ended.
Open(c) == pc[c] \notin {"none", "closed"}

\* The mutex is held across every send; a call about a job knows its id.
Holding ==
    \A t \in Clients :
        /\ pc[t] \in {"send", "next", "interrupt"} <=> mu = t
        /\ pc[t] \in {"scheduled?", "enable", "first run", "add", "known?", "lock", "send"} => arg[t] \in Ids

\* A job of the map is there under its own id, and its goroutine has not ended.
MapIsOpen == \A i \in Ids : jobs[i] # None => id[jobs[i]] = i /\ Open(jobs[i])

\* Who is interrupted has not ended, nor have those that Stop has still to visit.
TargetIsOpen ==
    \A t \in Clients :
        /\ pc[t] = "send" => target[t] = jobs[arg[t]] /\ target[t] # None
        /\ pc[t] = "interrupt" => target[t] \in Configs \ todo /\ Open(target[t])
        /\ pc[t] \in {"next", "interrupt"} => \A c \in todo : Open(c)

\* Inductive: a goroutine needs the mutex to take itself out of the map before it closes its
\* channel, so while it is in the map, or the mutex is held, nobody but its sender ends it.
SendInv == Typed /\ Holding /\ MapIsOpen /\ TargetIsOpen

\* At first nothing is scheduled.
LEMMA SendInitial == Init => SendInv
<1> SUFFICES ASSUME Init PROVE SendInv
  OBVIOUS
<1> USE SchedulerAssumption DEF Init
<1>1. Typed
  <2>1. pc \in [Clients \cup Configs -> ClientPc \cup RunnerPc] BY DEF ClientPc, RunnerPc
  <2>2. \A t \in Clients : pc[t] \in ClientPc BY DEF ClientPc
  <2>3. \A c \in Configs : pc[c] \in RunnerPc BY DEF RunnerPc
  <2>4. jobs \in [Ids -> Configs \cup {None}] OBVIOUS
  <2>5. arg \in [Clients -> Ids \cup {None}] OBVIOUS
  <2>6. target \in [Clients -> Configs \cup {None}] OBVIOUS
  <2>7. id \in [Configs -> Ids \cup {None}] OBVIOUS
  <2> QED BY <2>1, <2>2, <2>3, <2>4, <2>5, <2>6, <2>7 DEF Typed
<1>2. Holding BY DEF Holding
<1>3. MapIsOpen /\ TargetIsOpen BY DEF MapIsOpen, TargetIsOpen
<1> QED BY <1>1, <1>2, <1>3 DEF SendInv

\* A client moves on to a place where it holds nothing.
LEMMA ClientMoves ==
  ASSUME SendInv, NEW t \in Clients, NEW l \in ClientPc \ {"send", "next", "interrupt"}, NEW a \in Ids \cup {None},
         mu # t, pc' = [pc EXCEPT ![t] = l], arg' = [arg EXCEPT ![t] = a],
         l \in {"scheduled?", "enable", "first run", "add", "known?", "lock"} => a \in Ids,
         UNCHANGED <<jobs, mu, target, todo, id>>
  PROVE  SendInv'
<1> USE SchedulerAssumption DEF SendInv
<1>1. /\ pc' \in [Clients \cup Configs -> ClientPc \cup RunnerPc] /\ arg' \in [Clients -> Ids \cup {None}]
      /\ pc'[t] = l /\ arg'[t] = a
      /\ \A u \in Clients \ {t} : pc'[u] = pc[u] /\ arg'[u] = arg[u]
      /\ \A c \in Configs : pc'[c] = pc[c]
  BY DEF Typed
<1>2. Typed' BY <1>1 DEF Typed
<1>3. Holding' BY <1>1 DEF Holding
<1>4. \A c \in Configs : Open(c)' = Open(c) BY <1>1 DEF Open
<1>5. MapIsOpen' BY <1>4 DEF MapIsOpen, Typed
<1>6. TargetIsOpen'
  <2>1. ASSUME NEW u \in Clients, u # t
        PROVE  /\ pc'[u] = "send" => target'[u] = jobs'[arg'[u]] /\ target'[u] # None
               /\ pc'[u] = "interrupt" => target'[u] \in Configs \ todo' /\ Open(target[u])'
               /\ pc'[u] \in {"next", "interrupt"} => \A c \in todo' : Open(c)'
    BY <1>1, <1>4, <2>1, ZenonT(40) DEF TargetIsOpen, Typed
  <2> QED BY <1>1, <2>1 DEF TargetIsOpen
<1> QED BY <1>2, <1>3, <1>5, <1>6

\* The goroutine of a job moves on without ending.
LEMMA RunnerMoves ==
  ASSUME SendInv, NEW c \in Configs, Open(c), NEW l \in {"select", "run", "remove"},
         pc' = [pc EXCEPT ![c] = l], UNCHANGED <<jobs, mu, arg, target, todo, id>>
  PROVE  SendInv'
<1> USE SchedulerAssumption DEF SendInv
<1>1. /\ pc' \in [Clients \cup Configs -> ClientPc \cup RunnerPc] /\ pc'[c] \in RunnerPc
      /\ \A u \in Clients : pc'[u] = pc[u]
      /\ \A d \in Configs \ {c} : pc'[d] = pc[d]
      /\ Open(c)'
  BY DEF Typed, RunnerPc, Open
<1>2. Typed' BY <1>1 DEF Typed
<1>3. Holding' BY <1>1 DEF Holding
<1>4. \A d \in Configs : Open(d) => Open(d)' BY <1>1 DEF Open
<1>5. MapIsOpen' BY <1>4 DEF MapIsOpen, Typed
<1>6. TargetIsOpen' BY <1>1, <1>4 DEF TargetIsOpen, Typed
<1> QED BY <1>2, <1>3, <1>5, <1>6

\* add: the job object is one that nobody refers to, so no client sends to it.
LEMMA AddPreserves ==
  ASSUME SendInv, NEW t \in Clients, add(t)
  PROVE  SendInv'
<1> USE SchedulerAssumption DEF SendInv
<1>1. PICK c \in Configs : /\ Free(c) /\ jobs' = [jobs EXCEPT ![arg[t]] = c]
                           /\ id' = [id EXCEPT ![c] = arg[t]]
                           /\ pc' = [pc EXCEPT ![c] = "select", ![t] = "ready"]
  BY DEF add
<1>2. /\ pc[t] = "add" /\ mu = None /\ arg' = [arg EXCEPT ![t] = None] /\ UNCHANGED <<mu, target, todo>>
  BY DEF add
<1>3. arg[t] \in Ids /\ c # t BY <1>2 DEF Holding
<1>4. /\ pc' \in [Clients \cup Configs -> ClientPc \cup RunnerPc] /\ arg' \in [Clients -> Ids \cup {None}]
      /\ pc'[t] = "ready" /\ pc'[c] = "select" /\ arg'[t] = None
      /\ \A u \in Clients \ {t} : pc'[u] = pc[u] /\ arg'[u] = arg[u]
      /\ \A d \in Configs \ {c} : pc'[d] = pc[d]
  BY <1>1, <1>2, <1>3 DEF Typed, ClientPc, RunnerPc
<1>5. /\ jobs' \in [Ids -> Configs \cup {None}] /\ id' \in [Configs -> Ids \cup {None}]
      /\ jobs'[arg[t]] = c /\ id'[c] = arg[t]
      /\ \A i \in Ids \ {arg[t]} : jobs'[i] = jobs[i] /\ jobs[i] # c
      /\ \A d \in Configs \ {c} : id'[d] = id[d]
  BY <1>1, <1>3 DEF Typed, Free
<1>6. Typed' BY <1>2, <1>4, <1>5 DEF Typed, ClientPc, RunnerPc
<1>7. Holding' BY <1>2, <1>4 DEF Holding
<1>8. \A d \in Configs : Open(d) => Open(d)' BY <1>4 DEF Open
<1>9. ASSUME NEW i \in Ids, jobs'[i] # None PROVE id'[jobs'[i]] = i /\ Open(jobs[i])'
  <2>1. CASE i = arg[t] BY <1>4, <1>5, <2>1 DEF Open
  <2>2. CASE i # arg[t]
    <3>1. jobs'[i] = jobs[i] /\ jobs[i] \in Configs \ {c} BY <1>5, <1>9, <2>2 DEF Typed
    <3> QED BY <1>4, <1>5, <1>9, <3>1 DEF MapIsOpen, Open
  <2> QED BY <2>1, <2>2
<1>10. \A u \in Clients : pc[u] \notin {"send", "next", "interrupt"} BY <1>2 DEF Holding
<1>11. TargetIsOpen' BY <1>4, <1>10 DEF TargetIsOpen
<1> QED BY <1>6, <1>7, <1>9, <1>11 DEF MapIsOpen

\* Lock and Stop take the mutex, and what they send to is in the map.
LEMMA LockPreserves ==
  ASSUME SendInv, NEW t \in Clients, Lock(t) \/ Stop(t)
  PROVE  SendInv'
<1> USE SchedulerAssumption DEF SendInv
<1>1. mu = None /\ UNCHANGED <<jobs, arg, id>> BY DEF Lock, Stop
<1>2. \A u \in Clients : pc[u] \notin {"send", "next", "interrupt"} /\ mu # u BY <1>1 DEF Holding
<1>3. CASE UNCHANGED <<mu, target, pc, todo>>
  BY <1>1, <1>3 DEF Typed, Holding, MapIsOpen, TargetIsOpen, Open
<1>4. ASSUME NEW l \in {"send", "next"}, pc' = [pc EXCEPT ![t] = l], mu' = t,
             \/ /\ l = "send" /\ pc[t] = "lock" /\ jobs[arg[t]] # None
                /\ target' = [target EXCEPT ![t] = jobs[arg[t]]] /\ todo' = todo
             \/ /\ l = "next" /\ UNCHANGED target
                /\ todo' = {c \in Configs : \E i \in Ids : jobs[i] = c}
      PROVE  SendInv'
  <2>1. /\ pc' \in [Clients \cup Configs -> ClientPc \cup RunnerPc] /\ pc'[t] = l /\ l \in ClientPc
        /\ \A u \in Clients \ {t} : pc'[u] = pc[u]
        /\ \A d \in Configs : pc'[d] = pc[d]
    BY <1>4 DEF Typed, ClientPc
  <2>2. pc[t] = "lock" => arg[t] \in Ids BY DEF Holding
  <2>3. target' \in [Clients -> Configs \cup {None}] /\ todo' \subseteq Configs
    BY <1>4, <2>2 DEF Typed
  <2>4. Typed' BY <1>1, <1>4, <2>1, <2>3 DEF Typed
  <2>5. Holding' BY <1>1, <1>2, <1>4, <2>1, <2>2 DEF Holding
  <2>6. \A d \in Configs : Open(d)' = Open(d) BY <2>1 DEF Open
  <2>7. MapIsOpen' BY <1>1, <2>6 DEF MapIsOpen, Typed
  <2>8. l = "send" => target'[t] = jobs[arg[t]] /\ target'[t] # None BY <1>4 DEF Typed
  <2>9. l = "next" => \A c \in todo' : Open(c)' BY <1>4, <2>6 DEF MapIsOpen
  <2>10. TargetIsOpen' BY <1>1, <1>2, <1>4, <2>1, <2>8, <2>9 DEF TargetIsOpen
  <2> QED BY <2>4, <2>5, <2>7, <2>10
<1>5. CASE Lock(t)
  BY <1>3, <1>4, <1>5 DEF Lock, Goto
<1>6. CASE Stop(t)
  BY <1>4, <1>6 DEF Stop, Goto
<1> QED BY <1>5, <1>6

\* UnscheduleJob and StopSend: the goroutine that receives ends, and its own entry of the map
\* goes with it.
LEMMA InterruptPreserves ==
  ASSUME SendInv, NEW t \in Clients, UnscheduleJob(t) \/ StopSend(t)
  PROVE  SendInv'
<1> USE SchedulerAssumption DEF SendInv
<1> DEFINE c == target[t]
<1>1. pc[t] \in {"send", "interrupt"} /\ UNCHANGED <<todo, id>> /\ target' = [target EXCEPT ![t] = None]
  BY DEF UnscheduleJob, StopSend
<1>2. mu = t BY <1>1 DEF Holding
<1>3. c \in Configs /\ c # t BY <1>1 DEF TargetIsOpen, Typed
<1>4. /\ mu' \in {t, None} /\ pc' = [pc EXCEPT ![t] = IF mu' = t THEN "next" ELSE "ready", ![c] = "closed"]
      /\ jobs' = [jobs EXCEPT ![id[c]] = None]
      /\ \E a \in Ids \cup {None} : arg' = [arg EXCEPT ![t] = a]
      /\ mu' = t => pc[t] = "interrupt"
  <2>1. CASE UnscheduleJob(t)
    <3>1. arg[t] \in Ids /\ jobs[arg[t]] = c /\ c # None BY <1>3, <2>1 DEF UnscheduleJob, Holding, TargetIsOpen
    <3>2. id[c] = arg[t] BY <3>1 DEF MapIsOpen
    <3>3. t # None OBVIOUS
    <3> QED BY <2>1, <3>2, <3>3 DEF UnscheduleJob
  <2>2. CASE StopSend(t)
    <3>1. arg' = [arg EXCEPT ![t] = arg[t]] /\ arg[t] \in Ids \cup {None} BY <2>2 DEF StopSend, Typed
    <3> QED BY <1>2, <2>2, <3>1 DEF StopSend
  <2> QED BY <2>1, <2>2
<1>a. c = target[t] OBVIOUS
<1> HIDE DEF c
<1>5. /\ pc' \in [Clients \cup Configs -> ClientPc \cup RunnerPc]
      /\ pc'[t] = (IF mu' = t THEN "next" ELSE "ready") /\ pc'[c] = "closed"
      /\ \A u \in Clients \ {t} : pc'[u] = pc[u]
      /\ \A d \in Configs \ {c} : pc'[d] = pc[d]
  BY <1>3, <1>4 DEF Typed, ClientPc, RunnerPc
<1>6. /\ jobs' \in [Ids -> Configs \cup {None}] /\ \A i \in Ids : jobs'[i] # None => jobs'[i] = jobs[i] /\ i # id[c]
      /\ arg' \in [Clients -> Ids \cup {None}] /\ \A u \in Clients \ {t} : arg'[u] = arg[u]
      /\ target' \in [Clients -> Configs \cup {None}]
  BY <1>1, <1>4 DEF Typed
<1>7. Typed' BY <1>1, <1>2, <1>4, <1>5, <1>6 DEF Typed, ClientPc, RunnerPc
<1>8. \A u \in Clients \ {t} : pc[u] \notin {"send", "next", "interrupt"} BY <1>2 DEF Holding
<1>9. Holding'
  <2>1. pc'[t] \in {"ready", "next"} /\ (pc'[t] = "next" <=> mu' = t) BY <1>5
  <2>2. \A u \in Clients \ {t} : mu' # u BY <1>4
  <2> QED BY <1>5, <1>6, <1>8, <2>1, <2>2 DEF Holding
<1>10. ASSUME NEW i \in Ids, jobs'[i] # None PROVE id'[jobs'[i]] = i /\ Open(jobs[i])'
  <2>1. jobs'[i] = jobs[i] /\ id[jobs[i]] = i /\ i # id[c] /\ jobs[i] \in Configs
    BY <1>6, <1>10 DEF MapIsOpen, Typed
  <2>2. jobs[i] # c BY <2>1
  <2> QED BY <1>1, <1>5, <1>10, <2>1, <2>2 DEF MapIsOpen, Open
<1>11. TargetIsOpen'
  <2>1. ASSUME pc'[t] = "next", NEW d \in todo' PROVE Open(d)'
    <3>1. pc[t] = "interrupt" BY <1>4, <1>5, <2>1
    <3>2. d # c /\ Open(d) /\ d \in Configs BY <1>1, <1>a, <2>1, <3>1 DEF TargetIsOpen, Typed
    <3> QED BY <1>5, <3>2 DEF Open
  <2> QED BY <1>5, <1>8, <2>1 DEF TargetIsOpen
<1> QED BY <1>7, <1>9, <1>10, <1>11 DEF MapIsOpen

\* StopNext: what the loop takes next has not ended.
LEMMA StopNextPreserves ==
  ASSUME SendInv, NEW t \in Clients, StopNext(t)
  PROVE  SendInv'
<1> USE SchedulerAssumption DEF SendInv
<1>1. pc[t] = "next" /\ UNCHANGED <<jobs, arg, id>> BY DEF StopNext
<1>2. mu = t BY <1>1 DEF Holding
<1>3. \A u \in Clients \ {t} : pc[u] \notin {"send", "next", "interrupt"} BY <1>2 DEF Holding
<1>4. ASSUME NEW l \in {"ready", "next", "interrupt"}, pc' = [pc EXCEPT ![t] = l],
             mu' = (IF l = "ready" THEN None ELSE mu), todo' \subseteq todo,
             target' \in [Clients -> Configs \cup {None}],
             l = "interrupt" => target'[t] \in todo \ todo'
      PROVE  SendInv'
  <2>1. /\ pc' \in [Clients \cup Configs -> ClientPc \cup RunnerPc] /\ pc'[t] = l /\ l \in ClientPc
        /\ \A u \in Clients \ {t} : pc'[u] = pc[u]
        /\ \A d \in Configs : pc'[d] = pc[d]
    BY <1>4 DEF Typed, ClientPc
  <2>2. Typed' BY <1>1, <1>4, <2>1 DEF Typed
  <2>3. Holding' BY <1>1, <1>2, <1>3, <1>4, <2>1 DEF Holding
  <2>4. \A d \in Configs : Open(d)' = Open(d) BY <2>1 DEF Open
  <2>5. MapIsOpen' BY <1>1, <2>4 DEF MapIsOpen, Typed
  <2>6. \A d \in todo : d \in Configs /\ Open(d)' BY <1>1, <2>4 DEF TargetIsOpen, Typed
  <2>7. ASSUME NEW u \in Clients
        PROVE  /\ pc'[u] = "send" => target'[u] = jobs'[arg'[u]] /\ target'[u] # None
               /\ pc'[u] = "interrupt" => target'[u] \in Configs \ todo' /\ Open(target[u])'
               /\ pc'[u] \in {"next", "interrupt"} => \A c \in todo' : Open(c)'
    <3>1. CASE u # t BY <1>3, <2>1, <3>1
    <3>2. CASE u = t
      <4>1. l = "interrupt" => target'[t] \in Configs \ todo' /\ Open(target[t])'
        BY <1>4, <2>6 DEF Open
      <4> QED BY <1>4, <2>1, <2>6, <3>2, <4>1
    <3> QED BY <3>1, <3>2
  <2> QED BY <2>2, <2>3, <2>5, <2>7 DEF TargetIsOpen
<1>5. CASE todo = {} /\ mu' = None /\ Goto(t, "ready") /\ UNCHANGED <<todo, target>>
  BY <1>4, <1>5 DEF Goto, Typed
<1>6. ASSUME NEW c \in todo, todo' = todo \ {c}, mu' = mu,
             IF c \in marked THEN UNCHANGED <<pc, target>>
             ELSE target' = [target EXCEPT ![t] = c] /\ Goto(t, "interrupt")
      PROVE  SendInv'
  <2>1. CASE c \in marked
    <3>1. pc' = [pc EXCEPT ![t] = "next"] BY <1>1, <1>6, <2>1 DEF Typed
    <3> QED BY <1>4, <1>6, <2>1, <3>1 DEF Typed
  <2>2. CASE c \notin marked
    <3>1. target' \in [Clients -> Configs \cup {None}] /\ target'[t] = c BY <1>6, <2>2 DEF Typed
    <3> QED BY <1>4, <1>6, <2>2, <3>1 DEF Goto
  <2> QED BY <2>1, <2>2
<1> QED BY <1>5, <1>6 DEF StopNext

\* remove, with the mutex: nobody sends, and the entry of the map goes before the channel is
\* closed.
LEMMA RemovePreserves ==
  ASSUME SendInv, NEW c \in Configs, remove(c)
  PROVE  SendInv'
<1> USE SchedulerAssumption DEF SendInv
<1>1. /\ mu = None /\ UNCHANGED <<mu, arg, target, todo, id>>
      /\ pc' = [pc EXCEPT ![c] = "closed"] /\ jobs' = [jobs EXCEPT ![id[c]] = None]
  BY DEF remove, Goto
<1>2. \A u \in Clients : pc[u] \notin {"send", "next", "interrupt"} BY <1>1 DEF Holding
<1>3. /\ pc' \in [Clients \cup Configs -> ClientPc \cup RunnerPc] /\ pc'[c] = "closed"
      /\ \A u \in Clients : pc'[u] = pc[u]
      /\ \A d \in Configs \ {c} : pc'[d] = pc[d]
  BY <1>1 DEF Typed, RunnerPc
<1>4. jobs' \in [Ids -> Configs \cup {None}] /\ \A i \in Ids : jobs'[i] # None => jobs'[i] = jobs[i] /\ i # id[c]
  BY <1>1 DEF Typed
<1>5. Typed' BY <1>1, <1>3, <1>4 DEF Typed, RunnerPc
<1>6. Holding' BY <1>1, <1>3 DEF Holding
<1>7. ASSUME NEW i \in Ids, jobs'[i] # None PROVE id'[jobs'[i]] = i /\ Open(jobs[i])'
  <2>1. jobs'[i] = jobs[i] /\ id[jobs[i]] = i /\ i # id[c] /\ jobs[i] \in Configs
    BY <1>4, <1>7 DEF MapIsOpen, Typed
  <2>2. jobs[i] # c BY <2>1
  <2> QED BY <1>1, <1>3, <1>7, <2>1, <2>2 DEF MapIsOpen, Open
<1>8. TargetIsOpen' BY <1>2, <1>3 DEF TargetIsOpen
<1> QED BY <1>5, <1>6, <1>7, <1>8 DEF MapIsOpen

\* Every step of the scheduler keeps the invariant.
LEMMA SendStepPreserves == SendInv /\ [Next]_vars => SendInv'
<1> SUFFICES ASSUME SendInv, [Next]_vars PROVE SendInv'
  OBVIOUS
<1>1. ASSUME UNCHANGED <<jobs, mu, pc, arg, target, todo, id>> PROVE SendInv'
  BY <1>1 DEF SendInv, Typed, Holding, MapIsOpen, TargetIsOpen, Open
<1>2. ASSUME NEW t \in Clients,
             \/ \E m \in Calls, i \in Ids : Call(t, m, i)
             \/ IsScheduled(t) \/ ShouldEnable(t) \/ FirstRun(t) \/ Known(t)
      PROVE  SendInv'
  <2>1. /\ UNCHANGED <<jobs, mu, target, todo, id>>
        /\ pc[t] \in {"ready", "scheduled?", "enable", "first run", "known?"}
    BY <1>2 DEF Call, IsScheduled, ShouldEnable, FirstRun, Known
  <2>2. mu # t BY <2>1 DEF SendInv, Holding
  <2>3. ASSUME NEW l \in {"enable", "first run", "add", "lock"}, Goto(t, l), UNCHANGED arg, pc[t] # "ready"
        PROVE  SendInv'
    <3>1. arg' = [arg EXCEPT ![t] = arg[t]] /\ arg[t] \in Ids BY <2>1, <2>3 DEF SendInv, Typed, Holding
    <3> QED BY <2>1, <2>2, <2>3, <3>1, ClientMoves DEF Goto, ClientPc
  <2>4. ASSUME Return(t) PROVE SendInv' BY <2>1, <2>2, <2>4, ClientMoves DEF Return, Goto, ClientPc
  <2>5. ASSUME NEW m \in Calls, NEW i \in Ids, Call(t, m, i) PROVE SendInv'
    <3>1. m \in {"ScheduleJob", "UnscheduleJob", "Stop"} BY SchedulerAssumption
    <3>2. \/ pc' = [pc EXCEPT ![t] = "scheduled?"] /\ arg' = [arg EXCEPT ![t] = i]
          \/ pc' = [pc EXCEPT ![t] = "known?"] /\ arg' = [arg EXCEPT ![t] = i]
          \/ pc' = [pc EXCEPT ![t] = "stop"] /\ arg' = [arg EXCEPT ![t] = None]
      BY <2>5, <3>1 DEF Call, Goto
    <3> QED BY <2>1, <2>2, <3>2, ClientMoves DEF ClientPc
  <2> QED BY <1>2, <2>3, <2>4, <2>5 DEF IsScheduled, ShouldEnable, FirstRun, Known
<1>3. ASSUME NEW c \in Configs, Tick(c) \/ RunReturns(c) \/ ContextDone(c) PROVE SendInv'
  <2>1. /\ UNCHANGED <<jobs, mu, arg, target, todo, id>> /\ Open(c)
        /\ \E l \in {"select", "run", "remove"} : pc' = [pc EXCEPT ![c] = l]
    BY <1>3 DEF Tick, RunReturns, ContextDone, Goto, Open
  <2> QED BY <2>1, RunnerMoves
<1>4. CASE CancelContext \/ UNCHANGED vars BY <1>1, <1>4 DEF CancelContext, vars
<1> QED BY <1>2, <1>3, <1>4, AddPreserves, LockPreserves, InterruptPreserves, StopNextPreserves, RemovePreserves
        DEF Next, ClientStep, Interrupt, RunnerStep

\* UnscheduleJob, Stop, runOnSchedule: an interrupt is never sent to a goroutine that has
\* closed its channel, nor to a job that has none, although jobs end by themselves and by
\* their context while clients schedule, unschedule and stop them at the same time.
THEOREM NoPanicOnSend == Spec => []NoSendOnClosed
<1>1. Init => SendInv BY SendInitial
<1>2. SendInv => NoSendOnClosed
  <2> SUFFICES ASSUME SendInv, NEW t \in Clients, pc[t] \in {"send", "interrupt"} PROVE Open(target[t])
    BY DEF NoSendOnClosed, Open
  <2>1. CASE pc[t] = "send" BY <2>1 DEF SendInv, TargetIsOpen, Holding, MapIsOpen
  <2>2. CASE pc[t] = "interrupt" BY <2>2 DEF SendInv, TargetIsOpen
  <2> QED BY <2>1, <2>2
<1> QED BY <1>1, <1>2, SendStepPreserves, PTL DEF Spec


-----------------------------------------------------------------------------
(***************************************************************************)
(* One goroutine for every job, when calls for one id do not overlap.      *)
(***************************************************************************)

\* A goroutine that has not ended is the one of the map under its id.
OneRunner == \A c \in Configs : Open(c) => id[c] \in Ids /\ jobs[id[c]] = c

\* What IsScheduled has answered still holds when the job is added.
Adding == \A t \in Clients : pc[t] \in {"enable", "first run", "add"} => jobs[arg[t]] = None

\* No two calls are about one job.
NoOverlap == \A t, u \in Clients : arg[t] # None /\ arg[t] = arg[u] => t = u

\* Inductive together with SendInv, under Exclusive: between IsScheduled and add nobody else
\* adds the job, so a goroutine that has not ended is never lost from the map.
LifeInv == OneRunner /\ Adding /\ NoOverlap

\* At first no goroutine has been started.
LEMMA LifeInitial == Init => LifeInv
<1> SUFFICES ASSUME Init PROVE LifeInv
  OBVIOUS
<1> USE SchedulerAssumption DEF Init
<1>1. \A c \in Configs : pc[c] = "none" OBVIOUS
<1>2. \A t \in Clients : pc[t] = "ready" /\ arg[t] = None OBVIOUS
<1> QED BY <1>1, <1>2 DEF LifeInv, OneRunner, Adding, NoOverlap, Open

\* A client moves, and the jobs stay as they are.
LEMMA ClientKeepsLife ==
  ASSUME LifeInv, NEW t \in Clients, UNCHANGED <<jobs, id>>,
         \A c \in Configs : pc'[c] = pc[c],
         \A u \in Clients \ {t} : pc'[u] = pc[u] /\ arg'[u] = arg[u],
         pc'[t] \in {"enable", "first run", "add"} => jobs[arg'[t]] = None,
         arg'[t] \in {None, arg[t]} \/ \A u \in Clients : arg[u] # arg'[t]
  PROVE  LifeInv'
<1>1. OneRunner' BY DEF LifeInv, OneRunner, Open
<1>2. Adding' BY DEF LifeInv, Adding
<1>3. ASSUME NEW u \in Clients, NEW v \in Clients, arg'[u] # None, arg'[u] = arg'[v] PROVE u = v
  <2>1. CASE u # t /\ v # t BY <1>3, <2>1 DEF LifeInv, NoOverlap
  <2>2. CASE u = t /\ v # t BY <1>3, <2>2 DEF LifeInv, NoOverlap
  <2>3. CASE u # t /\ v = t BY <1>3, <2>3 DEF LifeInv, NoOverlap
  <2> QED BY <2>1, <2>2, <2>3
<1> QED BY <1>1, <1>2, <1>3 DEF LifeInv, NoOverlap

\* A goroutine moves on without ending.
LEMMA RunnerKeepsLife ==
  ASSUME LifeInv, NEW c \in Configs, Open(c), UNCHANGED <<jobs, id, arg>>,
         \A d \in Configs \ {c} : pc'[d] = pc[d], \A u \in Clients : pc'[u] = pc[u]
  PROVE  LifeInv'
<1>1. OneRunner' BY DEF LifeInv, OneRunner, Open
<1>2. Adding' /\ NoOverlap' BY DEF LifeInv, Adding, NoOverlap
<1> QED BY <1>1, <1>2 DEF LifeInv

\* A goroutine ends, and its entry of the map goes with it.
LEMMA EndKeepsLife ==
  ASSUME SendInv, LifeInv, NEW c \in Configs, Open(c), UNCHANGED id,
         jobs' = [jobs EXCEPT ![id[c]] = None], pc'[c] = "closed",
         \A d \in Configs \ {c} : pc'[d] = pc[d],
         \A u \in Clients : /\ pc'[u] \in {"enable", "first run", "add"} => pc'[u] = pc[u] /\ arg'[u] = arg[u]
                            /\ arg'[u] \in {None, arg[u]}
  PROVE  LifeInv'
<1> USE SchedulerAssumption DEF SendInv, LifeInv
<1>1. id[c] \in Ids /\ jobs[id[c]] = c BY DEF OneRunner
<1>2. /\ \A i \in Ids \ {id[c]} : jobs'[i] = jobs[i]
      /\ jobs'[id[c]] = None
  BY <1>1 DEF Typed
<1>3. ASSUME NEW d \in Configs, Open(d)' PROVE id'[d] \in Ids /\ jobs'[id'[d]] = d
  <2>1. d # c BY <1>3 DEF Open
  <2>2. Open(d) /\ id[d] \in Ids /\ jobs[id[d]] = d BY <1>3, <2>1 DEF Open, OneRunner
  <2>3. id[d] # id[c] BY <1>1, <2>1, <2>2
  <2> QED BY <1>2, <2>2, <2>3
<1>4. Adding'
  <2> SUFFICES ASSUME NEW u \in Clients, pc'[u] \in {"enable", "first run", "add"} PROVE jobs'[arg'[u]] = None
    BY DEF Adding
  <2>1. pc'[u] = pc[u] /\ arg'[u] = arg[u] /\ arg[u] \in Ids /\ jobs[arg[u]] = None BY DEF Adding, Holding
  <2> QED BY <1>2, <2>1
<1>5. NoOverlap' BY DEF NoOverlap
<1> QED BY <1>3, <1>4, <1>5 DEF OneRunner

\* add: the job was in nobody's hands.
LEMMA AddKeepsLife ==
  ASSUME SendInv, LifeInv, NEW t \in Clients, add(t)
  PROVE  LifeInv'
<1> USE SchedulerAssumption DEF SendInv, LifeInv
<1>1. PICK c \in Configs : /\ Free(c) /\ jobs' = [jobs EXCEPT ![arg[t]] = c]
                           /\ id' = [id EXCEPT ![c] = arg[t]]
                           /\ pc' = [pc EXCEPT ![c] = "select", ![t] = "ready"]
  BY DEF add
<1>2. pc[t] = "add" /\ arg' = [arg EXCEPT ![t] = None] BY DEF add
<1>3. arg[t] \in Ids /\ c # t /\ jobs[arg[t]] = None BY <1>2 DEF Holding, Adding
<1>4. /\ pc'[t] = "ready" /\ arg'[t] = None
      /\ \A u \in Clients \ {t} : pc'[u] = pc[u] /\ arg'[u] = arg[u]
      /\ \A d \in Configs \ {c} : pc'[d] = pc[d] /\ id'[d] = id[d]
      /\ jobs'[arg[t]] = c /\ id'[c] = arg[t]
      /\ \A i \in Ids \ {arg[t]} : jobs'[i] = jobs[i]
  BY <1>1, <1>2, <1>3 DEF Typed
<1>5. ASSUME NEW d \in Configs, Open(d)' PROVE id'[d] \in Ids /\ jobs'[id'[d]] = d
  <2>1. CASE d = c BY <1>3, <1>4, <2>1
  <2>2. CASE d # c
    <3>1. Open(d) /\ id[d] \in Ids /\ jobs[id[d]] = d BY <1>4, <1>5, <2>2 DEF Open, OneRunner
    <3>2. id[d] # arg[t] BY <1>3, <3>1
    <3> QED BY <1>4, <2>2, <3>1, <3>2
  <2> QED BY <2>1, <2>2
<1>6. Adding'
  <2> SUFFICES ASSUME NEW u \in Clients, pc'[u] \in {"enable", "first run", "add"} PROVE jobs'[arg'[u]] = None
    BY DEF Adding
  <2>1. u # t /\ pc'[u] = pc[u] /\ arg'[u] = arg[u] BY <1>4
  <2>2. arg[u] \in Ids /\ jobs[arg[u]] = None BY <2>1 DEF Adding, Holding
  <2>3. arg[u] # arg[t] BY <1>3, <2>1 DEF NoOverlap
  <2>4. jobs'[arg[u]] = jobs[arg[u]] BY <1>4, <2>2, <2>3
  <2> QED BY <2>1, <2>2, <2>4, Zenon
<1>7. NoOverlap' BY <1>4 DEF NoOverlap
<1> QED BY <1>5, <1>6, <1>7 DEF OneRunner

\* What a client's step does that neither adds a job nor ends one.
LEMMA ClientFrame ==
  ASSUME SendInv, NEW t \in Clients,
         \/ \E m \in Calls, i \in Ids : Call(t, m, i)
         \/ IsScheduled(t) \/ ShouldEnable(t) \/ FirstRun(t) \/ Known(t) \/ Lock(t) \/ Stop(t) \/ StopNext(t)
  PROVE  /\ UNCHANGED <<jobs, id>>
         /\ \A c \in Configs : pc'[c] = pc[c]
         /\ \A u \in Clients \ {t} : pc'[u] = pc[u] /\ arg'[u] = arg[u]
<1> USE SchedulerAssumption DEF SendInv
<1>1. /\ UNCHANGED <<jobs, id>>
      /\ pc' = pc \/ \E l \in ClientPc : pc' = [pc EXCEPT ![t] = l]
      /\ arg' = arg \/ \E a \in Ids \cup {None} : arg' = [arg EXCEPT ![t] = a]
  <2>1. ASSUME NEW m \in Calls, NEW i \in Ids, Call(t, m, i)
        PROVE  /\ UNCHANGED <<jobs, id>>
               /\ \E l \in ClientPc : pc' = [pc EXCEPT ![t] = l]
               /\ \E a \in Ids \cup {None} : arg' = [arg EXCEPT ![t] = a]
    <3>1. m \in {"ScheduleJob", "UnscheduleJob", "Stop"} OBVIOUS
    <3> QED BY <2>1, <3>1 DEF Call, Goto, ClientPc
  <2> QED BY <2>1 DEF IsScheduled, ShouldEnable, FirstRun, Known, Lock, Stop, StopNext, Goto, Return, ClientPc
<1>2. \A c \in Configs : c # t OBVIOUS
<1> QED BY <1>1, <1>2 DEF Typed

\* Every interrupt ends a goroutine, and takes its entry out of the map.
LEMMA InterruptFrame ==
  ASSUME SendInv, NEW t \in Clients, UnscheduleJob(t) \/ StopSend(t)
  PROVE  \E c \in Configs :
            /\ c = target[t] /\ pc[c] = "select" /\ pc'[c] = "closed" /\ UNCHANGED id
            /\ jobs' = [jobs EXCEPT ![id[c]] = None]
            /\ \A d \in Configs \ {c} : pc'[d] = pc[d]
            /\ \A u \in Clients \ {t} : pc'[u] = pc[u] /\ arg'[u] = arg[u]
            /\ pc'[t] \in {"ready", "next"} /\ arg'[t] \in {None, arg[t]}
            /\ pc[t] \in {"send", "interrupt"}
<1> USE SchedulerAssumption DEF SendInv
<1> DEFINE c == target[t]
<1>1. pc[t] \in {"send", "interrupt"} BY DEF UnscheduleJob, StopSend
<1>2. c \in Configs /\ c # t BY <1>1 DEF TargetIsOpen, Typed
<1>3. /\ UNCHANGED id /\ pc[c] = "select"
      /\ \E l \in {"ready", "next"} : pc' = [pc EXCEPT ![t] = l, ![c] = "closed"]
      /\ jobs' = [jobs EXCEPT ![id[c]] = None]
      /\ arg' = arg \/ arg' = [arg EXCEPT ![t] = None]
  <2>1. CASE UnscheduleJob(t)
    <3>1. arg[t] \in Ids /\ jobs[arg[t]] = c /\ c # None BY <1>2, <2>1 DEF UnscheduleJob, Holding, TargetIsOpen
    <3>2. id[c] = arg[t] BY <3>1 DEF MapIsOpen
    <3> QED BY <2>1, <3>2 DEF UnscheduleJob
  <2>2. CASE StopSend(t) BY <2>2 DEF StopSend
  <2> QED BY <2>1, <2>2
<1>a. c = target[t] OBVIOUS
<1> HIDE DEF c
<1>4. pc'[c] = "closed" /\ (\A d \in Configs \ {c} : pc'[d] = pc[d]) /\ pc'[t] \in {"ready", "next"}
  BY <1>2, <1>3 DEF Typed
<1>5. (\A u \in Clients \ {t} : pc'[u] = pc[u] /\ arg'[u] = arg[u]) /\ arg'[t] \in {None, arg[t]}
  BY <1>2, <1>3 DEF Typed
<1> QED BY <1>1, <1>2, <1>3, <1>4, <1>5, <1>a

\* Every step keeps the invariant, when calls for one id do not overlap.
LEMMA LifeStepPreserves == Exclusive /\ SendInv /\ LifeInv /\ [Next]_vars => LifeInv'
<1> SUFFICES ASSUME Exclusive, SendInv, LifeInv, [Next]_vars PROVE LifeInv'
  OBVIOUS
<1>1. ASSUME NEW t \in Clients, NEW m \in Calls, NEW i \in Ids, Call(t, m, i) PROVE LifeInv'
  <2>1. m \in {"ScheduleJob", "UnscheduleJob", "Stop"} BY SchedulerAssumption
  <2>2. pc'[t] \notin {"enable", "first run", "add"} BY <1>1, <2>1 DEF Call, Goto, SendInv, Typed
  <2>3. arg'[t] = None \/ \A u \in Clients : arg[u] # arg'[t] BY <1>1, <2>1 DEF Call, SendInv, Typed
  <2> QED BY <1>1, <2>2, <2>3, ClientFrame, ClientKeepsLife
<1>2. ASSUME NEW t \in Clients, IsScheduled(t) \/ ShouldEnable(t) \/ FirstRun(t) PROVE LifeInv'
  <2>1. arg'[t] \in {None, arg[t]} BY <1>2 DEF IsScheduled, ShouldEnable, FirstRun, Return, SendInv, Typed
  <2>2. pc'[t] \in {"enable", "first run", "add"} => arg' = arg
    BY <1>2 DEF IsScheduled, ShouldEnable, FirstRun, Return, Goto, SendInv, Typed
  <2>3. pc'[t] \in {"enable", "first run", "add"} => jobs[arg[t]] = None
    BY <1>2 DEF IsScheduled, ShouldEnable, FirstRun, Return, Goto, SendInv, Typed, LifeInv, Adding
  <2> QED BY <1>2, <2>1, <2>2, <2>3, ClientFrame, ClientKeepsLife
<1>3. ASSUME NEW t \in Clients, Known(t) \/ Lock(t) \/ Stop(t) \/ StopNext(t) PROVE LifeInv'
  <2>1. arg'[t] \in {None, arg[t]} BY <1>3 DEF Known, Lock, Stop, StopNext, Return, SendInv, Typed
  <2>2. pc'[t] \notin {"enable", "first run", "add"}
    BY <1>3 DEF Known, Lock, Stop, StopNext, Return, Goto, SendInv, Typed
  <2> QED BY <1>3, <2>1, <2>2, ClientFrame, ClientKeepsLife
<1>4. ASSUME NEW t \in Clients, UnscheduleJob(t) \/ StopSend(t) PROVE LifeInv'
  BY <1>4, InterruptFrame, EndKeepsLife DEF Open
<1>5. ASSUME NEW c \in Configs, Tick(c) \/ RunReturns(c) \/ ContextDone(c) PROVE LifeInv'
  <2>1. /\ UNCHANGED <<jobs, arg, id>> /\ Open(c) /\ \E l \in {"select", "run", "remove"} : pc' = [pc EXCEPT ![c] = l]
    BY <1>5 DEF Tick, RunReturns, ContextDone, Goto, Open
  <2>2. (\A d \in Configs \ {c} : pc'[d] = pc[d]) /\ \A u \in Clients : pc'[u] = pc[u]
    BY <2>1, SchedulerAssumption DEF SendInv, Typed
  <2> QED BY <2>1, <2>2, RunnerKeepsLife
<1>6. ASSUME NEW c \in Configs, remove(c) PROVE LifeInv'
  <2>1. /\ UNCHANGED <<arg, id>> /\ Open(c) /\ pc' = [pc EXCEPT ![c] = "closed"]
        /\ jobs' = [jobs EXCEPT ![id[c]] = None]
    BY <1>6 DEF remove, Goto, Open
  <2>2. pc'[c] = "closed" /\ (\A d \in Configs \ {c} : pc'[d] = pc[d]) /\ \A u \in Clients : pc'[u] = pc[u]
    BY <2>1, SchedulerAssumption DEF SendInv, Typed
  <2> QED BY <2>1, <2>2, EndKeepsLife
<1>7. CASE CancelContext \/ UNCHANGED vars
  BY <1>7 DEF CancelContext, vars, LifeInv, OneRunner, Adding, NoOverlap, Open
<1> QED BY <1>1, <1>2, <1>3, <1>4, <1>5, <1>6, <1>7, AddKeepsLife DEF Next, ClientStep, Interrupt, RunnerStep

\* The invariant leaves one goroutine for a job.
LEMMA LifeIsExclusive == SendInv /\ LifeInv => OneRunPerJob
<1> SUFFICES ASSUME SendInv, LifeInv, NEW i \in Ids, NEW x \in Goroutines(i), NEW y \in Goroutines(i) PROVE x = y
  BY DEF OneRunPerJob
<1> USE SchedulerAssumption
<1>1. ASSUME NEW z \in Goroutines(i)
      PROVE  \/ z \in Configs /\ jobs[i] = z
             \/ z \in Clients /\ arg[z] = i /\ jobs[i] = None
  BY <1>1 DEF Goroutines, LifeInv, OneRunner, Adding, Open
<1> QED BY <1>1 DEF LifeInv, NoOverlap

\* ScheduleJob, runOnSchedule: when calls for one id do not overlap, no job is ever in the hands
\* of two goroutines, so no job runs twice at the same time, although its goroutine leaves the
\* map by itself while other clients schedule and unschedule and Stop goes through the map.
THEOREM JobsRunAlone == Exclusive => (Spec => []OneRunPerJob)
<1> SUFFICES ASSUME Exclusive PROVE Spec => []OneRunPerJob
  OBVIOUS
<1>1. Init => SendInv /\ LifeInv BY SendInitial, LifeInitial
<1>2. SendInv /\ LifeInv /\ [Next]_vars => (SendInv /\ LifeInv)' BY SendStepPreserves, LifeStepPreserves
<1> QED BY <1>1, <1>2, LifeIsExclusive, PTL DEF Spec


-----------------------------------------------------------------------------
(***************************************************************************)
(* The scheduler implements JobLifecycle.                                  *)
(***************************************************************************)

\* The states of all the jobs.
States == [i \in Ids |-> JobState(i)]

\* What may become of a job in one step of JobLifecycle.
Moves ==
    {<<"idle", "first run">>, <<"first run", "idle">>, <<"idle", "select">>, <<"select", "run">>,
     <<"run", "select">>, <<"run", "remove">>, <<"select", "remove">>, <<"select", "idle">>, <<"remove", "idle">>}

\* The only element of a set is the one that CHOOSE takes.
LEMMA ChooseOnly ==
  ASSUME NEW S, NEW x \in S, \A y, z \in S : y = z
  PROVE  (CHOOSE y \in S : TRUE) = x
OBVIOUS

\* The state of a job is where its only goroutine is.
LEMMA StateOf ==
  ASSUME OneRunPerJob, NEW i \in Ids, NEW x \in Goroutines(i)
  PROVE  JobState(i) = pc[x]
<1>1. (CHOOSE y \in Goroutines(i) : TRUE) = x BY ChooseOnly DEF OneRunPerJob
<1> QED BY <1>1 DEF JobState

\* The same, of the next state.
LEMMA StateOfNext ==
  ASSUME OneRunPerJob', NEW i \in Ids, NEW x \in Goroutines(i)'
  PROVE  JobState(i)' = pc'[x]
<1>1. \A y, z \in Goroutines(i)' : y = z BY DEF OneRunPerJob
<1>2. (CHOOSE y \in Goroutines(i)' : TRUE) = x BY <1>1, ChooseOnly
<1> QED BY <1>2 DEF JobState

\* A job that nobody has in hand, and whose goroutine stays where it is, keeps its state.
LEMMA StateStays ==
  ASSUME OneRunPerJob, OneRunPerJob', NEW i \in Ids, Goroutines(i)' = Goroutines(i),
         \A x \in Goroutines(i) : pc'[x] = pc[x]
  PROVE  JobState(i)' = JobState(i)
<1>1. CASE Goroutines(i) = {} BY <1>1 DEF JobState
<1>2. CASE Goroutines(i) # {}
  <2>1. PICK x \in Goroutines(i) : TRUE BY <1>2
  <2>2. JobState(i) = pc[x] BY <2>1, StateOf
  <2>3. JobState(i)' = pc'[x] BY <2>1, StateOfNext
  <2> QED BY <2>1, <2>2, <2>3
<1> QED BY <1>1, <1>2

\* When one job moves as it may and the others stay, that is a step of JobLifecycle.
LEMMA OneJobMoves ==
  ASSUME NEW i \in Ids, NEW a, NEW b, JobState(i) = a, JobState(i)' = b, <<a, b>> \in Moves,
         \A j \in Ids \ {i} : JobState(j)' = JobState(j)
  PROVE  Lifecycle!Next
<1>1. States' = [States EXCEPT ![i] = b] BY DEF States
<1>2. States[i] = a BY DEF States
<1>3. Lifecycle!Move(i, a, b) BY <1>1, <1>2 DEF Lifecycle!Move, States
<1>4. \/ Lifecycle!Move(i, "idle", "first run") \/ Lifecycle!Move(i, "first run", "idle")
      \/ Lifecycle!Move(i, "idle", "select") \/ Lifecycle!Move(i, "select", "run")
      \/ Lifecycle!Move(i, "run", "select") \/ Lifecycle!Move(i, "run", "remove")
      \/ Lifecycle!Move(i, "select", "remove") \/ Lifecycle!Move(i, "select", "idle")
      \/ Lifecycle!Move(i, "remove", "idle")
  BY <1>3 DEF Moves
<1> QED BY <1>4 DEF Lifecycle!Next, Lifecycle!FirstRun, Lifecycle!Schedule, Lifecycle!Run, Lifecycle!RunReturns,
                    Lifecycle!ContextDone, Lifecycle!Unschedule, Lifecycle!Removed

\* When no job moves, nothing happens in JobLifecycle.
LEMMA NoJobMoves ==
  ASSUME \A j \in Ids : JobState(j)' = JobState(j)
  PROVE  States' = States
BY DEF States

\* A client's step that neither adds a job nor ends one: only the job of its first run moves.
LEMMA ClientImplements ==
  ASSUME SendInv, LifeInv, OneRunPerJob, OneRunPerJob', NEW t \in Clients,
         \/ \E m \in Calls, i \in Ids : Call(t, m, i)
         \/ IsScheduled(t) \/ ShouldEnable(t) \/ FirstRun(t) \/ Known(t) \/ Lock(t) \/ Stop(t) \/ StopNext(t)
  PROVE  Lifecycle!Next \/ States' = States
<1> USE SchedulerAssumption
<1>1. /\ UNCHANGED <<jobs, id>>
      /\ \A c \in Configs : pc'[c] = pc[c]
      /\ \A u \in Clients \ {t} : pc'[u] = pc[u] /\ arg'[u] = arg[u]
  BY ClientFrame
<1>2. ASSUME NEW j \in Ids, pc[t] # "first run" \/ arg[t] # j, pc'[t] # "first run" \/ arg'[t] # j
      PROVE  JobState(j)' = JobState(j)
  <2>1. Goroutines(j)' = Goroutines(j) BY <1>1, <1>2 DEF Goroutines
  <2>2. \A x \in Goroutines(j) : pc'[x] = pc[x] BY <1>1, <1>2 DEF Goroutines
  <2> QED BY <2>1, <2>2, StateStays
<1>3. CASE pc[t] # "first run" /\ pc'[t] # "first run" BY <1>2, <1>3, NoJobMoves
<1>4. CASE pc[t] = "first run"
  <2>1. FirstRun(t)
    <3>1. ASSUME NEW m \in Calls, NEW i \in Ids, Call(t, m, i) PROVE FALSE BY <1>4, <3>1 DEF Call
    <3> QED BY <1>4, <3>1 DEF IsScheduled, ShouldEnable, Known, Lock, Stop, StopNext
  <2>i. PICK i \in Ids : i = arg[t] BY <1>4 DEF SendInv, Holding
  <2>2. t \in Goroutines(i) BY <1>4, <2>i DEF Goroutines
  <2>3. pc'[t] # "first run" BY <2>1 DEF FirstRun, Return, Goto, SendInv, Typed
  <2>4. JobState(i) = "first run" BY <1>4, <2>2, StateOf
  <2>5. Goroutines(i)' = {}
    <3>1. \A x \in Goroutines(i) : x = t BY <2>2 DEF OneRunPerJob
    <3>2. ASSUME NEW x \in Goroutines(i)' PROVE x \in Goroutines(i) /\ x # t
      BY <1>1, <2>3, <3>2 DEF Goroutines
    <3> QED BY <3>1, <3>2
  <2>6. JobState(i)' = "idle" BY <2>5 DEF JobState
  <2>7. \A j \in Ids \ {i} : JobState(j)' = JobState(j) BY <1>2, <2>3, <2>i
  <2>8. <<"first run", "idle">> \in Moves BY DEF Moves
  <2> QED BY <2>2, <2>4, <2>6, <2>7, <2>8, OneJobMoves
<1>5. CASE pc'[t] = "first run" /\ pc[t] # "first run"
  <2>1. ShouldEnable(t)
    <3>1. ASSUME NEW m \in Calls, NEW i \in Ids, Call(t, m, i) PROVE FALSE
      BY <1>5, <3>1 DEF Call, Goto, SendInv, Typed
    <3> QED BY <1>5, <3>1 DEF IsScheduled, FirstRun, Known, Lock, Stop, StopNext, Return, Goto, SendInv, Typed
  <2>2. pc[t] = "enable" /\ arg' = arg BY <1>5, <2>1 DEF ShouldEnable, Return, Goto, SendInv, Typed
  <2>3. PICK i \in Ids : i = arg[t] /\ jobs[i] = None BY <2>2 DEF SendInv, Holding, LifeInv, Adding
  <2>4. Goroutines(i) = {}
    <3>1. ASSUME NEW x \in Goroutines(i) PROVE FALSE
      <4>1. CASE x \in Configs BY <2>3, <3>1, <4>1 DEF Goroutines, LifeInv, OneRunner, Open
      <4>2. CASE x \in Clients BY <2>2, <2>3, <3>1, <4>2 DEF Goroutines, LifeInv, NoOverlap
      <4> QED BY <3>1, <4>1, <4>2 DEF Goroutines
    <3> QED BY <3>1
  <2>5. t \in Goroutines(i)' BY <1>5, <2>2, <2>3 DEF Goroutines
  <2>6. \A j \in Ids \ {i} : JobState(j)' = JobState(j) BY <1>2, <2>2, <2>3
  <2>7. JobState(i) = "idle" BY <2>4 DEF JobState
  <2>8. JobState(i)' = "first run" BY <1>5, <2>3, <2>5, StateOfNext
  <2>9. <<"idle", "first run">> \in Moves BY DEF Moves
  <2> QED BY <2>3, <2>6, <2>7, <2>8, <2>9, OneJobMoves
<1> QED BY <1>3, <1>4, <1>5

\* A goroutine moves on: its job does.
LEMMA RunnerImplements ==
  ASSUME SendInv, LifeInv, OneRunPerJob, OneRunPerJob', NEW c \in Configs,
         Tick(c) \/ RunReturns(c) \/ ContextDone(c)
  PROVE  Lifecycle!Next
<1> USE SchedulerAssumption
<1>1. /\ UNCHANGED <<jobs, arg, id>> /\ Open(c)
      /\ \E l \in {"select", "run", "remove"} : pc' = [pc EXCEPT ![c] = l] /\ <<pc[c], l>> \in Moves
  BY DEF Tick, RunReturns, ContextDone, Goto, Open, Moves
<1>2. /\ <<pc[c], pc'[c]>> \in Moves /\ pc'[c] \in {"select", "run", "remove"}
      /\ \A x \in (Clients \cup Configs) \ {c} : pc'[x] = pc[x]
  BY <1>1 DEF SendInv, Typed
<1>3. PICK i \in Ids : i = id[c] BY <1>1 DEF LifeInv, OneRunner
<1>4. c \in Goroutines(i) BY <1>1, <1>3 DEF Goroutines, Open
<1>5. c \in Goroutines(i)' BY <1>1, <1>2, <1>3 DEF Goroutines
<1>6. ASSUME NEW j \in Ids \ {i} PROVE JobState(j)' = JobState(j)
  <2>1. Goroutines(j)' = Goroutines(j) BY <1>1, <1>2, <1>3 DEF Goroutines
  <2>2. \A x \in Goroutines(j) : pc'[x] = pc[x] BY <1>2, <1>3 DEF Goroutines
  <2> QED BY <2>1, <2>2, StateStays
<1>7. JobState(i) = pc[c] /\ JobState(i)' = pc'[c] BY <1>3, <1>4, <1>5, StateOf, StateOfNext
<1> QED BY <1>2, <1>3, <1>6, <1>7, OneJobMoves

\* A goroutine ends: its job is idle again.
LEMMA EndImplements ==
  ASSUME LifeInv, OneRunPerJob, OneRunPerJob', NEW c \in Configs, pc[c] \in {"select", "remove"},
         UNCHANGED id, pc'[c] = "closed", \A d \in Configs \ {c} : pc'[d] = pc[d],
         \A u \in Clients : \/ pc'[u] = pc[u] /\ arg'[u] = arg[u]
                            \/ pc[u] # "first run" /\ pc'[u] # "first run"
  PROVE  Lifecycle!Next
<1> USE SchedulerAssumption
<1>i. PICK i \in Ids : i = id[c] BY DEF LifeInv, OneRunner, Open
<1>1. c \in Goroutines(i) BY <1>i DEF Goroutines
<1>2. Goroutines(i)' = {}
  <2>1. \A x \in Goroutines(i) : x = c BY <1>1 DEF OneRunPerJob
  <2>2. ASSUME NEW x \in Goroutines(i)' PROVE x \in Goroutines(i) /\ x # c BY <2>2, <1>i DEF Goroutines
  <2> QED BY <2>1, <2>2
<1>3. ASSUME NEW j \in Ids \ {i} PROVE JobState(j)' = JobState(j)
  <2>1. Goroutines(j)' = Goroutines(j) BY <1>i DEF Goroutines
  <2>2. \A x \in Goroutines(j) : pc'[x] = pc[x] BY <1>i DEF Goroutines
  <2> QED BY <2>1, <2>2, StateStays
<1>4. JobState(i) = pc[c] BY <1>1, StateOf
<1>5. JobState(i)' = "idle" BY <1>2 DEF JobState
<1>6. <<pc[c], "idle">> \in Moves BY DEF Moves
<1> QED BY <1>1, <1>3, <1>4, <1>5, <1>6, OneJobMoves

\* add: a job that nobody has in hand gets its goroutine.
LEMMA AddImplements ==
  ASSUME SendInv, LifeInv, OneRunPerJob, OneRunPerJob', NEW t \in Clients, add(t)
  PROVE  Lifecycle!Next
<1> USE SchedulerAssumption
<1>1. PICK c \in Configs : /\ Free(c) /\ id' = [id EXCEPT ![c] = arg[t]]
                           /\ pc' = [pc EXCEPT ![c] = "select", ![t] = "ready"]
  BY DEF add
<1>2. pc[t] = "add" /\ arg' = [arg EXCEPT ![t] = None] BY DEF add
<1>3. PICK i \in Ids : i = arg[t] /\ jobs[i] = None BY <1>2 DEF SendInv, Holding, LifeInv, Adding
<1>4. /\ pc'[t] = "ready" /\ arg'[t] = None /\ pc'[c] = "select" /\ id'[c] = i
      /\ \A u \in Clients \ {t} : pc'[u] = pc[u] /\ arg'[u] = arg[u]
      /\ \A d \in Configs \ {c} : pc'[d] = pc[d] /\ id'[d] = id[d]
  <2>1. c # t OBVIOUS
  <2> QED BY <1>1, <1>2, <1>3, <2>1 DEF SendInv, Typed
<1>5. pc[c] \in {"none", "closed"} BY <1>1 DEF Free
<1>6. Goroutines(i) = {}
  <2>1. ASSUME NEW x \in Goroutines(i) PROVE FALSE
    <3>1. CASE x \in Configs BY <1>3, <2>1, <3>1 DEF Goroutines, LifeInv, OneRunner, Open
    <3>2. CASE x \in Clients BY <1>2, <1>3, <2>1, <3>2 DEF Goroutines, LifeInv, NoOverlap
    <3> QED BY <2>1, <3>1, <3>2 DEF Goroutines
  <2> QED BY <2>1
<1>7. JobState(i) = "idle" BY <1>6 DEF JobState
<1>8. c \in Goroutines(i)' BY <1>4 DEF Goroutines
<1>9. JobState(i)' = "select" BY <1>4, <1>8, StateOfNext
<1>10. ASSUME NEW j \in Ids \ {i} PROVE JobState(j)' = JobState(j)
  <2>1. Goroutines(j)' = Goroutines(j)
    <3>1. \A d \in Configs : (id'[d] = j /\ pc'[d] \notin {"none", "closed"}) <=> (id[d] = j /\ pc[d] \notin {"none", "closed"})
      BY <1>4, <1>5
    <3>2. \A u \in Clients : (arg'[u] = j /\ pc'[u] = "first run") <=> (arg[u] = j /\ pc[u] = "first run")
      BY <1>2, <1>4
    <3> QED BY <3>1, <3>2 DEF Goroutines
  <2>2. \A x \in Goroutines(j) : pc'[x] = pc[x] BY <1>2, <1>4, <1>5 DEF Goroutines
  <2> QED BY <2>1, <2>2, StateStays
<1>11. <<"idle", "select">> \in Moves BY DEF Moves
<1> QED BY <1>7, <1>9, <1>10, <1>11, OneJobMoves

\* Every step of the scheduler is a step of JobLifecycle, or none.
LEMMA StepImplements ==
  ASSUME SendInv, LifeInv, OneRunPerJob, OneRunPerJob', [Next]_vars
  PROVE  Lifecycle!Next \/ States' = States
<1> USE SchedulerAssumption
<1>1. ASSUME NEW t \in Clients, UnscheduleJob(t) \/ StopSend(t) PROVE Lifecycle!Next
  BY <1>1, InterruptFrame, EndImplements
<1>2. ASSUME NEW c \in Configs, remove(c) PROVE Lifecycle!Next
  <2>1. pc[c] = "remove" /\ UNCHANGED <<id, arg>> /\ pc' = [pc EXCEPT ![c] = "closed"] BY <1>2 DEF remove, Goto
  <2>2. /\ pc'[c] = "closed" /\ \A d \in Configs \ {c} : pc'[d] = pc[d]
        /\ \A u \in Clients : pc'[u] = pc[u]
    BY <2>1 DEF SendInv, Typed
  <2> QED BY <2>1, <2>2, EndImplements
<1>3. ASSUME UNCHANGED <<pc, arg, id>> PROVE States' = States
  <2>1. ASSUME NEW j \in Ids PROVE JobState(j)' = JobState(j) BY <1>3 DEF JobState, Goroutines
  <2> QED BY <2>1, NoJobMoves
<1>4. CASE CancelContext \/ UNCHANGED vars BY <1>3, <1>4 DEF CancelContext, vars
<1> QED BY <1>1, <1>2, <1>4, ClientImplements, RunnerImplements, AddImplements
        DEF Next, ClientStep, Interrupt, RunnerStep

\* ScheduleJob, UnscheduleJob, Stop, runOnSchedule: when calls for one id do not overlap, every
\* job lives the life of JobLifecycle, whatever the other clients and goroutines do: it is
\* interrupted between two runs and never in one, and it is scheduled, or run for the first
\* time, only when nobody else has it.
THEOREM SchedulerImplementsLifecycle == Exclusive => (Spec => JobsFollowLifecycle)
<1> SUFFICES ASSUME Exclusive PROVE Spec => JobsFollowLifecycle
  OBVIOUS
<1>1. Init => SendInv /\ LifeInv /\ OneRunPerJob BY SendInitial, LifeInitial, LifeIsExclusive
<1>2. SendInv /\ LifeInv /\ [Next]_vars => (SendInv /\ LifeInv)' BY SendStepPreserves, LifeStepPreserves
<1>3. Init => Lifecycle!Init
  <2> SUFFICES ASSUME Init PROVE Lifecycle!Init
    OBVIOUS
  <2>1. ASSUME NEW i \in Ids PROVE JobState(i) = "idle"
    <3>1. Goroutines(i) = {} BY SchedulerAssumption DEF Init, Goroutines
    <3> QED BY <3>1 DEF JobState
  <2> QED BY <2>1 DEF Lifecycle!Init
<1>4. SendInv /\ LifeInv /\ OneRunPerJob /\ OneRunPerJob' /\ [Next]_vars => [Lifecycle!Next]_States
  BY StepImplements
<1>5. States = [i \in Ids |-> JobState(i)] BY DEF States
<1> QED BY <1>1, <1>2, <1>3, <1>4, LifeIsExclusive, PTL DEF Spec, JobsFollowLifecycle, Lifecycle!Spec, States

=============================================================================
