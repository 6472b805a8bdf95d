------------------------------ MODULE Scheduler ------------------------------
(***************************************************************************)
(* The job scheduler (internal/scheduler/scheduler.go): clients schedule   *)
(* and unschedule jobs by id; every scheduled job has a goroutine          *)
(* (runOnSchedule) that runs it on a ticker until it is interrupted, its   *)
(* context is cancelled, or the job says that it is done.                  *)
(*                                                                         *)
(* UnscheduleJob and Stop hold the mutex while they send on the unbuffered *)
(* interrupt channel of a job, and a goroutine that ends by itself needs   *)
(* the same mutex to take its job out of the map: this is where the        *)
(* scheduler can go wrong.                                                 *)
(***************************************************************************)
EXTENDS Naturals, FiniteSets

CONSTANTS
    Ids,        \* job ids
    Configs,    \* jobConfig objects, each with its runOnSchedule goroutine
    Clients,    \* goroutines that call the scheduler
    None,       \* nil
    Calls,      \* the methods they call: \subseteq {"ScheduleJob", "UnscheduleJob", "Stop"}
    MayEnd,     \* whether Run of a job may return false
    Cancels,    \* whether the context of the jobs may be cancelled
    Exclusive   \* whether the calls for one id, and Stop with any, do not overlap

ASSUME SchedulerAssumption ==
    /\ Calls \subseteq {"ScheduleJob", "UnscheduleJob", "Stop"}
    /\ {MayEnd, Cancels, Exclusive} \subseteq BOOLEAN
    /\ None \notin Configs \cup Clients \cup Ids
    /\ Configs \cap Clients = {}

VARIABLES
    jobs,       \* Scheduler.jobs: id -> jobConfig
    mu,         \* the client that holds Scheduler.mu across a send, if any
    pc,         \* where each client and each runOnSchedule is
    arg,        \* the job id a client's call is about
    target,     \* the jobConfig a client sends an interrupt to
    todo,       \* what the range loop of Stop has still to visit
    id,         \* the id of each jobConfig
    marked,     \* jobConfigs with markedRemoved
    cancelled,  \* the context is done
    panicked    \* the process is gone: a nil jobConfig was dereferenced

vars == <<jobs, mu, pc, arg, target, todo, id, marked, cancelled, panicked>>

ClientPc == {"ready", "scheduled?", "enable", "first run", "add",
             "known?", "lock", "send", "stop", "next", "interrupt"}
RunnerPc == {"none", "select", "run", "remove", "closed"}

\* Clients, runOnSchedule goroutines and the maps keep their types; a client has a
\* jobConfig in its hands exactly while it sends to it (UnscheduleJob, Stop).
TypeOK ==
    /\ jobs \in [Ids -> Configs \cup {None}]
    /\ mu \in Clients \cup {None}
    /\ pc \in [Clients \cup Configs -> ClientPc \cup RunnerPc]
    /\ \A t \in Clients : pc[t] \in ClientPc
    /\ \A c \in Configs : pc[c] \in RunnerPc
    /\ arg \in [Clients -> Ids \cup {None}]
    /\ target \in [Clients -> Configs \cup {None}]
    /\ \A t \in Clients : pc[t] \in {"send", "interrupt"} <=> target[t] # None
    /\ todo \subseteq Configs
    /\ id \in [Configs -> Ids \cup {None}]
    /\ marked \subseteq Configs
    /\ cancelled \in BOOLEAN
    /\ panicked \in BOOLEAN

Init ==
    /\ jobs = [i \in Ids |-> None]
    /\ mu = None
    /\ pc = [x \in Clients \cup Configs |-> IF x \in Clients THEN "ready" ELSE "none"]
    /\ arg = [t \in Clients |-> None]
    /\ target = [t \in Clients |-> None]
    /\ todo = {}
    /\ id = [c \in Configs |-> None]
    /\ marked = {}
    /\ cancelled = FALSE
    /\ panicked = FALSE

-----------------------------------------------------------------------------
Goto(x, l) == pc' = [pc EXCEPT ![x] = l]

Return(t) == /\ Goto(t, "ready")
             /\ arg' = [arg EXCEPT ![t] = None]

\* A jobConfig nobody refers to any more (or that was never allocated).
Free(c) == /\ pc[c] \in {"none", "closed"}
           /\ \A i \in Ids : jobs[i] # c

\* A client calls the scheduler; exclusive calls wait for the calls they conflict with.
Call(t, m, i) ==
    /\ pc[t] = "ready" /\ m \in Calls
    /\ Exclusive => \A u \in Clients :
          IF m = "Stop" THEN pc[u] = "ready"
          ELSE arg[u] # i /\ pc[u] \notin {"stop", "next", "interrupt"}
    /\ arg' = [arg EXCEPT ![t] = IF m = "Stop" THEN None ELSE i]
    /\ Goto(t, CASE m = "ScheduleJob" -> "scheduled?"
                 [] m = "UnscheduleJob" -> "known?"
                 [] m = "Stop" -> "stop")
    /\ UNCHANGED <<jobs, mu, target, todo, id, marked, cancelled, panicked>>

-----------------------------------------------------------------------------
(***************************************************************************)
(* ScheduleJob.                                                            *)
(***************************************************************************)

\* IsScheduled under the lock: a job that is scheduled is left alone.
IsScheduled(t) ==
    /\ pc[t] = "scheduled?" /\ mu = None
    /\ IF jobs[arg[t]] # None THEN Return(t)
       ELSE Goto(t, "enable") /\ UNCHANGED arg
    /\ UNCHANGED <<jobs, mu, target, todo, id, marked, cancelled, panicked>>

\* ShouldEnable may refuse; Interval may ask for a first run right away.
ShouldEnable(t) ==
    /\ pc[t] = "enable"
    /\ \/ Return(t)
       \/ \E l \in {"first run", "add"} : Goto(t, l) /\ UNCHANGED arg
    /\ UNCHANGED <<jobs, mu, target, todo, id, marked, cancelled, panicked>>

\* The first run, in the goroutine of the caller.
FirstRun(t) ==
    /\ pc[t] = "first run"
    /\ \/ Goto(t, "add") /\ UNCHANGED arg
       \/ MayEnd /\ Return(t)
    /\ UNCHANGED <<jobs, mu, target, todo, id, marked, cancelled, panicked>>

\* add, and the goroutine of the new job.
add(t) ==
    /\ pc[t] = "add" /\ mu = None
    /\ \E c \in Configs :
          /\ Free(c)
          /\ jobs' = [jobs EXCEPT ![arg[t]] = c]
          /\ id' = [id EXCEPT ![c] = arg[t]]
          /\ marked' = marked \ {c}
          /\ pc' = [pc EXCEPT ![c] = "select", ![t] = "ready"]
    /\ arg' = [arg EXCEPT ![t] = None]
    /\ UNCHANGED <<mu, target, todo, cancelled, panicked>>

-----------------------------------------------------------------------------
(***************************************************************************)
(* UnscheduleJob and Stop.                                                 *)
(***************************************************************************)

\* UnscheduleJob asks IsScheduled first, and gives the lock back ...
Known(t) ==
    /\ pc[t] = "known?" /\ mu = None
    /\ IF jobs[arg[t]] = None THEN Return(t)
       ELSE Goto(t, "lock") /\ UNCHANGED arg
    /\ UNCHANGED <<jobs, mu, target, todo, id, marked, cancelled, panicked>>

\* ... and then takes it to fetch the jobConfig, which may be gone by now.
Lock(t) ==
    /\ pc[t] = "lock" /\ mu = None
    /\ IF jobs[arg[t]] = None
         THEN panicked' = TRUE /\ UNCHANGED <<mu, target, pc>>
         ELSE /\ mu' = t
              /\ target' = [target EXCEPT ![t] = jobs[arg[t]]]
              /\ Goto(t, "send")
              /\ UNCHANGED panicked
    /\ UNCHANGED <<jobs, arg, todo, id, marked, cancelled>>

\* The interrupt is received by the select of runOnSchedule; the map forgets
\* the job and the lock is given back.
UnscheduleJob(t) ==
    /\ pc[t] = "send" /\ pc[target[t]] = "select"
    /\ pc' = [pc EXCEPT ![t] = "ready", ![target[t]] = "closed"]
    /\ jobs' = [jobs EXCEPT ![arg[t]] = None]
    /\ mu' = None
    /\ arg' = [arg EXCEPT ![t] = None]
    /\ target' = [target EXCEPT ![t] = None]
    /\ UNCHANGED <<todo, id, marked, cancelled, panicked>>

\* Stop takes the lock for all of its loop over the jobs.
Stop(t) ==
    /\ pc[t] = "stop" /\ mu = None
    /\ mu' = t
    /\ todo' = {c \in Configs : \E i \in Ids : jobs[i] = c}
    /\ Goto(t, "next")
    /\ UNCHANGED <<jobs, arg, target, id, marked, cancelled, panicked>>

\* One job of the loop: one that is marked as removed is skipped.
StopNext(t) ==
    /\ pc[t] = "next"
    /\ \/ /\ todo = {}
          /\ mu' = None
          /\ Goto(t, "ready")
          /\ UNCHANGED <<todo, target>>
       \/ \E c \in todo :
             /\ todo' = todo \ {c}
             /\ IF c \in marked THEN UNCHANGED <<pc, target>>
                ELSE /\ target' = [target EXCEPT ![t] = c]
                     /\ Goto(t, "interrupt")
             /\ UNCHANGED mu
    /\ UNCHANGED <<jobs, arg, id, marked, cancelled, panicked>>

StopSend(t) ==
    LET c == target[t] IN
    /\ pc[t] = "interrupt" /\ pc[c] = "select"
    /\ pc' = [pc EXCEPT ![t] = "next", ![c] = "closed"]
    /\ jobs' = [jobs EXCEPT ![id[c]] = None]
    /\ target' = [target EXCEPT ![t] = None]
    /\ UNCHANGED <<mu, arg, todo, id, marked, cancelled, panicked>>

-----------------------------------------------------------------------------
(***************************************************************************)
(* runOnSchedule.                                                          *)
(***************************************************************************)

\* The ticker.
Tick(c) ==
    /\ pc[c] = "select"
    /\ Goto(c, "run")
    /\ UNCHANGED <<jobs, mu, arg, target, todo, id, marked, cancelled, panicked>>

\* Faulty variant: the job is run again and again, without a look at the interrupt.
runAgain(c) ==
    /\ pc[c] = "run"
    /\ UNCHANGED vars

\* run returns: another round, or the job is done.
RunReturns(c) ==
    /\ pc[c] = "run"
    /\ \/ Goto(c, "select") /\ UNCHANGED marked
       \/ MayEnd /\ Goto(c, "remove") /\ marked' = marked \cup {c}
    /\ UNCHANGED <<jobs, mu, arg, target, todo, id, cancelled, panicked>>

\* ctx.Done().
ContextDone(c) ==
    /\ pc[c] = "select" /\ cancelled
    /\ Goto(c, "remove")
    /\ UNCHANGED <<jobs, mu, arg, target, todo, id, marked, cancelled, panicked>>

\* Faulty variant: the goroutine ends and its job stays in the map.
removeNothing(c) ==
    /\ pc[c] = "remove" /\ mu = None
    /\ Goto(c, "closed")
    /\ UNCHANGED <<jobs, mu, arg, target, todo, id, marked, cancelled, panicked>>

\* remove, by id, under the lock; the goroutine closes its channel and ends.
remove(c) ==
    /\ pc[c] = "remove" /\ mu = None
    /\ jobs' = [jobs EXCEPT ![id[c]] = None]
    /\ Goto(c, "closed")
    /\ UNCHANGED <<mu, arg, target, todo, id, marked, cancelled, panicked>>

CancelContext ==
    /\ Cancels /\ ~cancelled
    /\ cancelled' = TRUE
    /\ UNCHANGED <<jobs, mu, pc, arg, target, todo, id, marked, panicked>>

-----------------------------------------------------------------------------
ClientStep(t) ==
    \/ IsScheduled(t) \/ ShouldEnable(t) \/ FirstRun(t) \/ add(t)
    \/ Known(t) \/ Lock(t)
    \/ Stop(t) \/ StopNext(t)

Interrupt(t) == UnscheduleJob(t) \/ StopSend(t)

RunnerStep(c) == RunReturns(c) \/ ContextDone(c) \/ remove(c)

\* A process that has panicked takes no step.
Next ==
    /\ ~panicked
    /\ \/ \E t \in Clients :
             \/ \E m \in Calls, i \in Ids : Call(t, m, i)
             \/ ClientStep(t) \/ Interrupt(t)
       \/ \E c \in Configs : Tick(c) \/ RunnerStep(c)
       \/ CancelContext

Spec == Init /\ [][Next]_vars

\* Goroutines that can run do run; a mutex that is free again and again is taken
\* in the end, and the select of runOnSchedule does not prefer its ticker forever.
Fairness ==
    /\ \A t \in Clients : SF_vars(ClientStep(t)) /\ SF_vars(Interrupt(t))
    /\ \A c \in Configs : /\ WF_vars(Tick(c)) /\ WF_vars(RunReturns(c))
                          /\ SF_vars(ContextDone(c)) /\ SF_vars(remove(c))

FairSpec == Spec /\ Fairness

-----------------------------------------------------------------------------
(***************************************************************************)
(* Properties.                                                             *)
(***************************************************************************)

\* An interrupt is sent to a goroutine that has not closed its channel.
NoSendOnClosed ==
    \A t \in Clients :
        pc[t] \in {"send", "interrupt"} => pc[target[t]] \notin {"none", "closed"}

\* The goroutines that have job i in their hands: its runOnSchedule, and a client at its
\* first run.
Goroutines(i) ==
    {c \in Configs : id[c] = i /\ pc[c] \notin {"none", "closed"}}
        \cup {t \in Clients : arg[t] = i /\ pc[t] = "first run"}

\* A job is never in the hands of two goroutines (ScheduleJob asks IsScheduled first), so that
\* no job runs twice at the same time.  Calls for one id must not overlap: without Exclusive
\* it is refuted.
OneRunPerJob == \A i \in Ids : \A x, y \in Goroutines(i) : x = y

\* What becomes of a job: the scheduler implements JobLifecycle.
JobState(i) == IF Goroutines(i) = {} THEN "idle" ELSE pc[CHOOSE x \in Goroutines(i) : TRUE]

Lifecycle == INSTANCE JobLifecycle WITH state <- [i \in Ids |-> JobState(i)]

\* runOnSchedule, UnscheduleJob and Stop follow the life of a job: it is interrupted between
\* two runs and never during one, and a job that ends leaves the map before it is scheduled again.
JobsFollowLifecycle == Lifecycle!Spec

\* Every call of the scheduler returns.
CallsReturn == \A t \in Clients : pc[t] # "ready" ~> pc[t] = "ready"

=============================================================================
