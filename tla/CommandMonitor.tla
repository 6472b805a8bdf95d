--------------------------- MODULE CommandMonitor ---------------------------
(***************************************************************************)
(* The command monitor (internal/command): a server on a pipe that routes  *)
(* requests to registered handlers.  A connection holds the read lock of   *)
(* the handler map from the lookup until it has answered; registering and  *)
(* unregistering take the write lock, which also holds new readers back.   *)
(* The process may die and leave its socket file behind.                   *)
(***************************************************************************)
EXTENDS Naturals, FiniteSets

CONSTANTS
    Commands,       \* commands that components register, VmEvent among them
    VmEvent,        \* VMEventCmd, the command of the plugin manager
    GetOption,      \* getOptionCommand, which Setup and Close register and unregister
    UnknownCommand, \* a command without a handler
    Conns,          \* connections of clients
    Plugins         \* plugins that are told about a VM event

VARIABLES
    cmdSrv,     \* cmdMonitor.srv: nil, made but without a listener, or listening
    handlers,   \* cmdMonitor.handlers
    owner,      \* where the component is that registers and unregisters a command
    connPc,     \* where the goroutine of a connection is
    connCmd,    \* the command a connection asks for
    answer,     \* what a client got
    pipeFile    \* the socket file

vars == <<cmdSrv, handlers, owner, connPc, connCmd, answer, pipeFile>>

AllCommands == Commands \cup {GetOption}

Init ==
    /\ cmdSrv = "nil" /\ handlers = {}
    /\ owner = [c \in AllCommands |-> "out"]
    /\ connPc = [k \in Conns |-> "none"]
    /\ connCmd = [k \in Conns |-> UnknownCommand]
    /\ answer = [k \in Conns |-> "none"]
    /\ pipeFile \in {"absent", "stale"}

\* Faulty variant: the read lock is given up before the handler is called.
Readers_Early == {}

\* The connections that hold the read lock.
Readers == {k \in Conns : connPc[k] = "handling"}

\* RegisterHandler and UnregisterHandler, called and then carried out under the lock; a
\* second registration of a command, or one that is not there, is an error.
RegisterHandler(c, back) ==
    /\ owner[c] = "registering" /\ Readers = {}
    /\ handlers' = handlers \cup {c}
    /\ owner' = [owner EXCEPT ![c] = back]

UnregisterHandler(c, back) ==
    /\ owner[c] = "unregistering" /\ Readers = {}
    /\ handlers' = handlers \ {c}
    /\ owner' = [owner EXCEPT ![c] = back]

call(c, from, to) ==
    /\ c \in Commands /\ owner[c] = from
    /\ owner' = [owner EXCEPT ![c] = to]
    /\ UNCHANGED <<cmdSrv, handlers, connPc, connCmd, answer, pipeFile>>

register(c) ==
    /\ c \in Commands /\ RegisterHandler(c, "in")
    /\ UNCHANGED <<cmdSrv, connPc, connCmd, answer, pipeFile>>

unregister(c) ==
    /\ c \in Commands /\ UnregisterHandler(c, "out")
    /\ UNCHANGED <<cmdSrv, connPc, connCmd, answer, pipeFile>>

-----------------------------------------------------------------------------
\* Setup: getOption is registered and a server made; a server that is already there is
\* an error, and so it stays when its listener could not be started.
Setup ==
    /\ owner[GetOption] = "out" /\ cmdSrv = "nil"
    /\ owner' = [owner EXCEPT ![GetOption] = "registering"]
    /\ UNCHANGED <<cmdSrv, handlers, connPc, connCmd, answer, pipeFile>>

SetupRegisters ==
    /\ RegisterHandler(GetOption, "listen")
    /\ cmdSrv' = "made"
    /\ UNCHANGED <<connPc, connCmd, answer, pipeFile>>

\* listen: a socket file that is left over is removed; then the pipe is made with its
\* directory, mode and group.  Each of these may fail.
listen ==
    /\ owner[GetOption] = "listen"
    /\ \/ pipeFile' = "live" /\ cmdSrv' = "listening"
       \/ pipeFile' = "absent" /\ UNCHANGED cmdSrv
    /\ owner' = [owner EXCEPT ![GetOption] = "in"]
    /\ UNCHANGED <<handlers, connPc, connCmd, answer>>

\* Close unregisters getOption, which waits for the connections that are answered, and
\* then closes the listener, which removes its socket file.
Close ==
    /\ owner[GetOption] = "in"
    /\ owner' = [owner EXCEPT ![GetOption] = "unregistering"]
    /\ UNCHANGED <<cmdSrv, handlers, connPc, connCmd, answer, pipeFile>>

CloseServer ==
    /\ UnregisterHandler(GetOption, "out")
    /\ cmdSrv' = "nil"
    /\ pipeFile' = IF cmdSrv = "listening" THEN "absent" ELSE pipeFile
    /\ UNCHANGED <<connPc, connCmd, answer>>

\* The process dies and starts again; its clients lose their connections.
Crash ==
    /\ cmdSrv = "listening"
    /\ cmdSrv' = "nil" /\ handlers' = {}
    /\ owner' = [c \in AllCommands |-> "out"]
    /\ pipeFile' = "stale"
    /\ connPc' = [k \in Conns |-> IF connPc[k] = "none" THEN "none" ELSE "closed"]
    /\ answer' = [k \in Conns |-> IF answer[k] = "wait" THEN "ConnError" ELSE answer[k]]
    /\ UNCHANGED connCmd

-----------------------------------------------------------------------------
Reply(k, pc, r) ==
    /\ connPc' = [connPc EXCEPT ![k] = pc]
    /\ answer' = [answer EXCEPT ![k] = r]
    /\ UNCHANGED <<cmdSrv, handlers, owner, connCmd, pipeFile>>

\* SendCommand: dial the pipe and write the request.
SendCommand(k) ==
    /\ connPc[k] = "none" /\ answer[k] = "none"
    /\ \E c \in AllCommands \cup {UnknownCommand} : connCmd' = [connCmd EXCEPT ![k] = c]
    /\ IF pipeFile = "live"
       THEN /\ connPc' = [connPc EXCEPT ![k] = "reading"]
            /\ answer' = [answer EXCEPT ![k] = "wait"]
       ELSE /\ answer' = [answer EXCEPT ![k] = "ConnError"]
            /\ UNCHANGED connPc
    /\ UNCHANGED <<cmdSrv, handlers, owner, pipeFile>>

\* readOrError, until the request is valid JSON: the deadline passes, the connection
\* fails, or the request is complete.
readOrError(k) ==
    /\ connPc[k] = "reading"
    /\ \/ Reply(k, "closed", "TimeoutError")
       \/ Reply(k, "closed", "ConnError")
       \/ Reply(k, "lookup", answer[k])

\* The read lock, and the handler of the command.  A writer that waits holds readers
\* back only until it is done.
lookup(k) ==
    /\ connPc[k] = "lookup"
    /\ IF connCmd[k] \in handlers
       THEN Reply(k, "handling", answer[k])
       ELSE Reply(k, "closed", "CmdNotFoundError")

\* The handler returns, and its response or HandlerError is written, unless the
\* deadline of the connection has passed meanwhile.
handlerReturns(k) ==
    /\ connPc[k] = "handling" /\ connCmd[k] # VmEvent
    /\ \E r \in {"response", "HandlerError", "ConnError"} : Reply(k, "closed", r)

\* vmEventHandler: a request that is not a known event is an error; otherwise every
\* managed plugin gets a status of its own: those that do not run are not told, and
\* an Apply that fails is reported.
vmEventHandler(k) ==
    /\ connPc[k] = "handling" /\ connCmd[k] = VmEvent
    /\ \/ Reply(k, "closed", "HandlerError")
       \/ \E running \in SUBSET Plugins : \E applied \in SUBSET running :
            Reply(k, "closed", IF applied = Plugins THEN "response"
                               ELSE IF running = Plugins THEN "notifyErrorStatus"
                               ELSE "notifySkipStatus")

Next ==
    \/ \E c \in Commands :
         \/ call(c, "out", "registering") \/ call(c, "in", "unregistering")
         \/ register(c) \/ unregister(c)
    \/ Setup \/ SetupRegisters \/ listen \/ Close \/ CloseServer \/ Crash
    \/ \E k \in Conns : SendCommand(k) \/ readOrError(k) \/ lookup(k)
                       \/ handlerReturns(k) \/ vmEventHandler(k)

Spec == Init /\ [][Next]_vars

-----------------------------------------------------------------------------
\* A handler that runs is registered: UnregisterHandler, and with it Close, returns only
\* when no connection is in the handler any more, and none can enter it afterwards.
RunningIsRegistered == 
    \A k \in Conns : connPc[k] = "handling" => connCmd[k] \in handlers

=============================================================================
