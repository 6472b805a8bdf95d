---------------------------- MODULE PipeWatcher ----------------------------
(***************************************************************************)
(* The watcher of a named pipe (internal/pipewatcher) with the subscriber  *)
(* of OS Login that answers on it (oslogin_sshca_linux.go).  Run waits for *)
(* a reader (sshd), hands the open write end to the subscriber as an       *)
(* event, and is called again by the event manager; it must not open the   *)
(* pipe again before the answer is written and closed.  A goroutine of     *)
(* Run frees the blocked open when the watcher is removed.                 *)
(***************************************************************************)
EXTENDS Naturals, FiniteSets

CONSTANTS
    MaxReads,       \* bound: how often sshd opens the pipe
    MaxPipeErrors,  \* bound: failures to create or open the pipe
    MayRemove       \* the watcher may be removed (OS Login is disabled)

VARIABLES
    runPc,          \* Run: wait, create, open, check, send; out of it: event, error (it returned),
                    \* queued, failing (to be dispatched), removed
    cancelPc,       \* its goroutine: none, select, opening, done
    canceled,       \* the flag of this call of Run
    ctxCancelled,   \* the context of the watcher is done
    waitingWrite,   \* Handle.waitingWrite
    pipeExists,
    readers,        \* sshd processes that have the pipe open, or wait to
    writeEnds,      \* write ends that are open
    handlerPc,      \* the subscriber: none (not subscribed), idle, or at work on an event
    readsLeft, pipeErrors

vars == <<runPc, cancelPc, canceled, ctxCancelled, waitingWrite, pipeExists, readers, writeEnds,
          handlerPc, readsLeft, pipeErrors>>

Init ==
    /\ runPc = "wait" /\ cancelPc = "none" /\ canceled = FALSE /\ ctxCancelled = FALSE
    /\ waitingWrite = FALSE /\ pipeExists = FALSE /\ readers = 0 /\ writeEnds = 0
    /\ handlerPc = "idle" /\ readsLeft = MaxReads /\ pipeErrors = MaxPipeErrors

\* Faulty variant: the pipe is opened while the last answer is still being written.
waitWrite_Not ==
    /\ runPc = "wait"
    /\ runPc' = "create" /\ canceled' = FALSE /\ cancelPc' = "select"
    /\ UNCHANGED <<ctxCancelled, waitingWrite, pipeExists, readers, writeEnds, handlerPc,
                   readsLeft, pipeErrors>>

\* Run polls until the last answer is finished, then starts its goroutine.
waitWrite ==
    /\ runPc = "wait" /\ ~waitingWrite
    /\ runPc' = "create" /\ canceled' = FALSE /\ cancelPc' = "select"
    /\ UNCHANGED <<ctxCancelled, waitingWrite, pipeExists, readers, writeEnds, handlerPc,
                   readsLeft, pipeErrors>>

\* The goroutine sees the context end and opens the pipe for reading, which frees an open
\* for writing; then it closes and removes the pipe.
onContextDone ==
    /\ \/ /\ cancelPc = "select" /\ ctxCancelled /\ canceled' = TRUE
          /\ cancelPc' = IF pipeExists THEN "opening" ELSE "done"
          /\ UNCHANGED pipeExists
       \/ /\ cancelPc = "opening" /\ writeEnds > 0
          /\ cancelPc' = "done" /\ pipeExists' = FALSE
          /\ UNCHANGED canceled
    /\ UNCHANGED <<runPc, ctxCancelled, waitingWrite, readers, writeEnds, handlerPc, readsLeft, pipeErrors>>

\* Run returns and closes the channel, which ends a goroutine that still selects.
runReturns(to) ==
    /\ runPc' = to
    /\ cancelPc' = IF cancelPc = "select" THEN "done" ELSE cancelPc

createNamedPipe ==
    /\ runPc = "create"
    /\ \/ pipeExists' = TRUE /\ runPc' = "open" /\ UNCHANGED <<cancelPc, pipeErrors>>
       \/ pipeErrors > 0 /\ pipeErrors' = pipeErrors - 1 /\ runReturns("error") /\ UNCHANGED pipeExists
    /\ UNCHANGED <<canceled, ctxCancelled, waitingWrite, readers, writeEnds, handlerPc, readsLeft>>

\* The open for writing blocks until there is a reader; it fails if the pipe is gone, or for
\* another reason.
openPipe ==
    /\ runPc = "open"
    /\ \/ (readers > 0 \/ cancelPc = "opening") /\ pipeExists /\ writeEnds' = writeEnds + 1 /\ runPc' = "check"
          /\ UNCHANGED <<cancelPc, pipeErrors>>
       \/ ~pipeExists /\ runReturns("error") /\ UNCHANGED <<writeEnds, pipeErrors>>
       \/ pipeErrors > 0 /\ pipeErrors' = pipeErrors - 1 /\ runReturns("error") /\ UNCHANGED writeEnds
    /\ UNCHANGED <<canceled, ctxCancelled, waitingWrite, pipeExists, readers, handlerPc, readsLeft>>

checkCanceled ==
    /\ runPc = "check"
    /\ IF canceled
       THEN writeEnds' = writeEnds - 1 /\ runReturns("removed")
       ELSE runPc' = "send" /\ UNCHANGED <<writeEnds, cancelPc>>
    /\ UNCHANGED <<canceled, ctxCancelled, waitingWrite, pipeExists, readers, handlerPc, readsLeft, pipeErrors>>

\* The send on cancelContext needs the goroutine at its select.
returnEvent ==
    /\ runPc = "send" /\ cancelPc = "select"
    /\ cancelPc' = "done" /\ waitingWrite' = TRUE /\ runPc' = "event"
    /\ UNCHANGED <<canceled, ctxCancelled, pipeExists, readers, writeEnds, handlerPc, readsLeft, pipeErrors>>

-----------------------------------------------------------------------------
\* runWatcher of the event manager: when Run has returned and the context is done, the event
\* is dropped and the watcher is finished; else the event goes to the data bus.
runWatcher ==
    /\ runPc \in {"event", "error"}
    /\ runPc' = IF ctxCancelled THEN "removed" ELSE IF runPc = "event" THEN "queued" ELSE "failing"
    /\ UNCHANGED <<cancelPc, canceled, ctxCancelled, waitingWrite, pipeExists, readers, writeEnds,
                   handlerPc, readsLeft, pipeErrors>>

\* The event is dispatched, to a subscriber or to nobody, and Run is called again, also when
\* the context has been cancelled since.  An event with an error ends the subscription.
dispatch ==
    /\ runPc \in {"queued", "failing"} /\ runPc' = "wait"
    /\ handlerPc' = IF handlerPc # "idle" THEN handlerPc ELSE IF runPc = "failing" THEN "none" ELSE "write"
    /\ UNCHANGED <<cancelPc, canceled, ctxCancelled, waitingWrite, pipeExists, readers, writeEnds,
                   readsLeft, pipeErrors>>

\* writeFile: the certificates are written, or could not be had; the pipe is closed, sshd
\* reads to the end, and then the watcher is told.
writeFile ==
    /\ \/ /\ handlerPc = "write" /\ handlerPc' = "closed"
          /\ writeEnds' = writeEnds - 1 /\ readers' = 0
          /\ UNCHANGED waitingWrite
       \/ /\ handlerPc = "closed" /\ handlerPc' = "idle" /\ waitingWrite' = FALSE
          /\ UNCHANGED <<writeEnds, readers>>
    /\ UNCHANGED <<runPc, cancelPc, canceled, ctxCancelled, pipeExists, readsLeft, pipeErrors>>

\* sshd opens the pipe to verify a certificate, and waits.
readPipe ==
    /\ pipeExists /\ readsLeft > 0 /\ readsLeft' = readsLeft - 1
    /\ readers' = readers + 1
    /\ UNCHANGED <<runPc, cancelPc, canceled, ctxCancelled, waitingWrite, pipeExists, writeEnds,
                   handlerPc, pipeErrors>>

\* disableOSLogin: the subscription goes first, then the watcher is removed.
Close ==
    /\ MayRemove /\ handlerPc = "idle" /\ ~ctxCancelled
    /\ handlerPc' = "none"
    /\ UNCHANGED <<runPc, cancelPc, canceled, ctxCancelled, waitingWrite, pipeExists, readers,
                   writeEnds, readsLeft, pipeErrors>>

removeWatcher ==
    /\ MayRemove /\ handlerPc = "none" /\ ~ctxCancelled
    /\ ctxCancelled' = TRUE
    /\ UNCHANGED <<runPc, cancelPc, canceled, waitingWrite, pipeExists, readers, writeEnds,
                   handlerPc, readsLeft, pipeErrors>>

Run == waitWrite \/ onContextDone \/ createNamedPipe \/ openPipe \/ checkCanceled \/ returnEvent

Next == Run \/ runWatcher \/ dispatch \/ writeFile \/ readPipe \/ Close \/ removeWatcher

\* The goroutines of the watcher, the event manager and the subscriber go on.
Fairness == WF_vars(Run) /\ WF_vars(runWatcher) /\ WF_vars(dispatch) /\ WF_vars(writeFile)

Spec == Init /\ [][Next]_vars /\ Fairness

-----------------------------------------------------------------------------
\* One answer at a time: there is never a second write end, so what one reader gets is
\* neither mixed with nor cut short by the answer for the next (Run, writeFile).
OneAnswerAtATime == writeEnds <= 1

\* "Have we got a ctx.Done()? if so lets just return from here and unregister the watcher":
\* once the watcher is removed, Run returns.
RemovedRunReturns == ctxCancelled ~> (runPc = "removed")

\* sshd is not left waiting on the pipe while the watcher is in place (Run, writeFile).
ReadersAreAnswered == (readers > 0) ~> (readers = 0 \/ ctxCancelled)

=============================================================================
