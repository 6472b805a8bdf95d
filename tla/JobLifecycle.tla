---------------------------- MODULE JobLifecycle ----------------------------
(***************************************************************************)
(* What the scheduler promises of every job, whoever calls it: one         *)
(* goroutine at a time has the job in its hands.  A job may have a first   *)
(* run in the goroutine of the caller; once it is scheduled it waits for   *)
(* its ticker, runs to the end, and waits again; it is taken off the       *)
(* schedule by an interrupt only while it waits, or by itself, when it is  *)
(* done or its context is.                                                 *)
(***************************************************************************)
CONSTANT Ids

VARIABLE state      \* what the goroutine that has the job is doing

Init == state = [i \in Ids |-> "idle"]

Move(i, from, to) ==
    /\ state[i] = from
    /\ state' = [state EXCEPT ![i] = to]

FirstRun(i)     == Move(i, "idle", "first run") \/ Move(i, "first run", "idle")
Schedule(i)     == Move(i, "idle", "select")
Run(i)          == Move(i, "select", "run")
RunReturns(i)   == Move(i, "run", "select") \/ Move(i, "run", "remove")
ContextDone(i)  == Move(i, "select", "remove")
Unschedule(i)   == Move(i, "select", "idle")
Removed(i)      == Move(i, "remove", "idle")

Next ==
    \E i \in Ids :
        \/ FirstRun(i) \/ Schedule(i) \/ Run(i) \/ RunReturns(i)
        \/ ContextDone(i) \/ Unschedule(i) \/ Removed(i)

Spec == Init /\ [][Next]_state
=============================================================================
