---------------------------- MODULE AgentService ----------------------------
(***************************************************************************)
(* The service management of the agent (internal/service): a goroutine     *)
(* that waits for signals, for the context and for the service manager,    *)
(* and on Windows the Execute callback, which the application instructs    *)
(* over an unbuffered channel.  Under systemd, or outside of a service     *)
(* manager, setState does not wait for anyone.                             *)
(***************************************************************************)
EXTENDS Naturals

VARIABLES
    winService, \* Windows service, systemd unit, or no service at all
    appPc,      \* the application: registers, calls SetState(StateRunning), works
    sigPc,      \* the goroutine of Init
    execPc,     \* Execute
    accepts,    \* the service manager may send Stop and Shutdown
    scmCmd,     \* what the service manager sends
    pendingSig, \* the signal in sigChan (capacity 1)
    ctxDone     \* the context is cancelled

vars == <<winService, appPc, sigPc, execPc, accepts, scmCmd, pendingSig, ctxDone>>

Signals == {"SIGTERM", "SIGINT"}    \* SIGQUIT and SIGHUP are like SIGINT

Init ==
    /\ winService \in {"windows", "systemd", "none"}
    /\ appPc = "register" /\ sigPc = "none" /\ execPc = "none"
    /\ accepts = FALSE /\ scmCmd = "none" /\ pendingSig = "none" /\ ctxDone = FALSE

\* Faulty variant: Stop is accepted from the start.
startPending_Accepts == TRUE

\* What Execute accepts in its first status: nothing.
startPending == FALSE

\* Init starts the goroutine and registers; a failed registration ends the agent.
register ==
    /\ appPc = "register"
    /\ sigPc' = "select"
    /\ appPc' \in IF winService = "none" THEN {"starting"} ELSE {"starting", "exited"}
    /\ execPc' = IF winService = "windows" THEN "select" ELSE "none"
    /\ accepts' = (winService = "windows" /\ startPending)
    /\ UNCHANGED <<winService, scmCmd, pendingSig, ctxDone>>

\* SetState(StateRunning): on Windows it waits until Execute takes the state.
setState ==
    /\ appPc = "starting"
    /\ winService = "windows" => execPc = "select"
    /\ accepts' = (winService = "windows")
    /\ appPc' = "running"
    /\ UNCHANGED <<winService, sigPc, execPc, scmCmd, pendingSig, ctxDone>>

\* The application ends with its context, once setup is through.
leave ==
    /\ appPc = "running" /\ ctxDone
    /\ appPc' = "exited"
    /\ UNCHANGED <<winService, sigPc, execPc, accepts, scmCmd, pendingSig, ctxDone>>

\* External: the service manager sends a command that the service accepts.
serviceManager ==
    /\ winService = "windows" /\ scmCmd = "none" /\ execPc = "select" /\ appPc # "exited"
    /\ \/ scmCmd' = "interrogate"
       \/ accepts /\ scmCmd' = "stop"
    /\ UNCHANGED <<winService, appPc, sigPc, execPc, accepts, pendingSig, ctxDone>>

\* Execute: Interrogate and ParamChange are answered; Stop and Shutdown are passed on.
Execute ==
    /\ execPc = "select" /\ scmCmd # "none"
    /\ execPc' = IF scmCmd = "stop" THEN "signal" ELSE "select"
    /\ accepts' = (accepts /\ scmCmd # "stop")
    /\ scmCmd' = "none"
    /\ UNCHANGED <<winService, appPc, sigPc, pendingSig, ctxDone>>

\* serviceManagerSignal is unbuffered: the goroutine of Init takes the signal and
\* cancels the context.
serviceManagerSignal ==
    /\ execPc = "signal" /\ sigPc = "select"
    /\ execPc' = "returned" /\ sigPc' = "returned" /\ ctxDone' = TRUE
    /\ UNCHANGED <<winService, appPc, accepts, scmCmd, pendingSig>>

\* External: a signal is delivered, or dropped when one is pending already.
signal ==
    /\ appPc \in {"starting", "running"} /\ sigPc = "select" /\ pendingSig = "none"
    /\ pendingSig' \in Signals
    /\ UNCHANGED <<winService, appPc, sigPc, execPc, accepts, scmCmd, ctxDone>>

\* A Windows service leaves SIGTERM to the service manager's Shutdown.
shouldHandleSignal(s) == ~(s = "SIGTERM" /\ winService = "windows")

handleSignal ==
    /\ sigPc = "select" /\ pendingSig # "none"
    /\ IF shouldHandleSignal(pendingSig)
       THEN sigPc' = "returned" /\ ctxDone' = TRUE
       ELSE UNCHANGED <<sigPc, ctxDone>>
    /\ pendingSig' = "none"
    /\ UNCHANGED <<winService, appPc, execPc, accepts, scmCmd>>

Next ==
    \/ register \/ setState \/ leave
    \/ serviceManager \/ Execute \/ serviceManagerSignal
    \/ signal \/ handleSignal

\* Goroutines go on when they can; the goroutine of Init may prefer a pending signal
\* to the service manager, but not forever.
Fairness ==
    /\ WF_vars(register) /\ WF_vars(setState) /\ WF_vars(leave)
    /\ WF_vars(Execute) /\ SF_vars(serviceManagerSignal) /\ WF_vars(handleSignal)

Spec == Init /\ [][Next]_vars /\ Fairness

-----------------------------------------------------------------------------
\* A stop that the service manager sends, or a signal that the agent handles, ends the
\* agent: nobody is left waiting on the other end of a channel (setState, Execute, Init).
StopEndsAgent ==
    scmCmd = "stop" \/ (pendingSig # "none" /\ shouldHandleSignal(pendingSig)) ~> appPc = "exited"

=============================================================================
