---------------------------- MODULE NetTelemetry ----------------------------
(***************************************************************************)
(* The network telemetry plugin (cmd/guest_net_telemetry): the RPC server, *)
(* the worker loop that follows the metadata attributes, and one           *)
(* collection run at a time per worker: a Scheduler with a goroutine per   *)
(* collector, a Reporter that batches their results by the time they were  *)
(* due, and the goroutine that sends the reports to ACS.                   *)
(*                                                                         *)
(* Worker n is the goroutine of the n-th Start: Stop does not wait for the *)
(* one it cancels, so two of them may live.  The early-boot standalone     *)
(* process runs the same loop, without a server, and is kept only as far   *)
(* as the handover goes.  Times are counted in units since the epoch of    *)
(* the run.  A collection ends within the timeout of its context, and a    *)
(* result waits in the channel, or in line behind it, while time goes on.  *)
(***************************************************************************)
EXTENDS Integers, Sequences, FiniteSets

CONSTANTS Collectors,       \* the registered collectors
          DefaultInterval,  \* config.go: DefaultInterval, in units
          Overrides,        \* --collectors: 0 (off), an interval, or -1 (not listed)
          MaxRunTimeout,    \* config.go: MaxRunTimeout, in units
          ResultMultiplier, \* resultChannelBufferMultiplier
          Stalls,           \* may time pass while a collector waits for room in the channel?
          QueueCapacity,    \* dispatchQueueCapacity
          ConnectAttempts,  \* maxACSConnectAttempts
          MaxFailures,      \* maxConsecutiveSendFailures
          MaxDue,           \* bound: the last due time of a run
          MaxNtStarts,      \* bound: Start requests
          MaxNtRefreshes    \* bound: changes of the config

VARIABLES early,   \* the standalone process of the early boot
          server,  \* PluginServer: the worker its cancel belongs to (0: nil), and whether err is set
          health,  \* collectionPaused and reportSends of the managed process
          wk,      \* start: one worker loop
          run,     \* runCollection: its ACS client, context and clock
          col,     \* runCollectorLoop of each collector
          in,      \* resultsCh, and behind its capacity the senders it blocks, in line
          rep,     \* Reporter.Run: pending, flushedDue and the report to enqueue
          queue,   \* dispatchCh
          sender,  \* the goroutine that dispatches
          reported,\* what a run has handed to the sender, by due
          ntRefreshes

vars == <<early, server, health, wk, run, col, in, rep, queue, sender, reported, ntRefreshes>>

Workers == 1 .. MaxNtStarts
Dues == 0 .. MaxDue
NoDue == -1

(***************************************************************************)
(* The config: the interval of every collector, 0 when it is disabled.     *)
(***************************************************************************)
newPluginConfig(enabled) == [c \in Collectors |-> IF enabled THEN DefaultInterval ELSE 0]

ApplyCollectorOverrides(base) ==
    [c \in Collectors |-> IF Overrides[c] >= 0 THEN Overrides[c] ELSE base[c]]

\* A key that is true on the instance or on the project, one that is false or
\* undefined on both, and one of which a lookup that could matter has failed.
attributeIsTrueOnInstanceOrProject(instance, project) ==
    IF "true" \in {instance, project} THEN "true"
    ELSE IF "error" \in {instance, project} THEN "error" ELSE "false"

Lookups == {attributeIsTrueOnInstanceOrProject(i, p) :
                i \in {"true", "false", "error"}, p \in {"true", "false", "error"}}

\* The best available config, and whether a failed lookup could have changed it.
effectiveConfig(disabled, forced) ==
    IF disabled = "true"
    THEN [cfg |-> newPluginConfig(FALSE), err |-> FALSE]
    ELSE [cfg |-> ApplyCollectorOverrides(newPluginConfig(forced = "true")),
          err |-> "error" \in {disabled, forced}]

EffectiveConfigs == {effectiveConfig(d, f) : d \in Lookups, f \in Lookups}

anyEnabled(cfg) == \E c \in Collectors : cfg[c] > 0

\* Half an interval, and MaxRunTimeout at most.
EffectiveTimeout(interval) ==
    IF interval \div 2 > MaxRunTimeout THEN MaxRunTimeout ELSE interval \div 2

\* A collector: the time its run is due, the end of that run's context, and
\* the next time its ticker fires.
Idle == [pc |-> "idle", due |-> NoDue, until |-> 0, tick |-> 0]
NewRun == [pc |-> "none", cancelled |-> FALSE, attempts |-> 0, clock |-> 0]
NewReporter == [pc |-> "select", due |-> NoDue, pending |-> [d \in {} |-> {}], flushed |-> {}]
NoConfig == newPluginConfig(FALSE)

Init ==
    /\ early = "probe"
    /\ server = [cancel |-> 0, err |-> FALSE]
    /\ health = [paused |-> FALSE, failures |-> 0]
    /\ wk = [w \in Workers |-> [pc |-> "none", cfg |-> NoConfig, want |-> NoConfig, cancelled |-> FALSE]]
    /\ run = [w \in Workers |-> NewRun]
    /\ col = [w \in Workers |-> [c \in Collectors |-> Idle]]
    /\ in = [w \in Workers |-> <<>>]
    /\ rep = [w \in Workers |-> NewReporter]
    /\ queue = [w \in Workers |-> <<>>]
    /\ sender = [w \in Workers |-> NoDue]
    /\ reported = [w \in Workers |-> [d \in Dues |-> 0]]
    /\ ntRefreshes = 0

InCapacity == ResultMultiplier * Cardinality(Collectors)

\* The collector still waits for room in the channel.
Blocked(w, c) == \E i \in DOMAIN in[w] : i > InCapacity /\ in[w][i].name = c

pipeline == <<col, in, rep, queue, sender, reported>>

(***************************************************************************)
(* The RPC server.                                                         *)
(***************************************************************************)

\* The standalone process runs only if no managed plugin listens and ACS
\* answers on vSock.
standalone(reachable) ==
    /\ early = "probe"
    /\ early' = IF reachable /\ server.cancel = 0 THEN "running" ELSE "ended"
    /\ UNCHANGED <<server, health, wk, run, pipeline, ntRefreshes>>

\* Stopping the early service may fail (it has three seconds): the standalone
\* process then goes on beside the worker of this one.
stopEarlyService == early' \in {early, "ended"}

Start(w) ==
    /\ wk[w].pc = "none" /\ \A v \in 1 .. w - 1 : wk[v].pc # "none"
    /\ server.cancel = 0
    /\ server' = [cancel |-> w, err |-> FALSE]
    /\ stopEarlyService
    /\ wk' = [wk EXCEPT ![w].pc = "config"]
    /\ UNCHANGED <<health, run, pipeline, ntRefreshes>>

Stop ==
    /\ server.cancel # 0
    /\ wk' = [wk EXCEPT ![server.cancel].cancelled = TRUE]
    /\ run' = [run EXCEPT ![server.cancel].cancelled = TRUE]
    /\ server' = [cancel |-> 0, err |-> FALSE]
    /\ UNCHANGED <<early, health, pipeline, ntRefreshes>>

\* What the server answers to the agent's health check.
GetStatus == IF server.err THEN "error"
             ELSE IF health.paused THEN "paused"
             ELSE IF health.failures >= MaxFailures THEN "error" ELSE "ok"

\* The worker loop returns, with its deferred write, and looks whether Stop
\* has cancelled it.
workerReturns(w) ==
    /\ wk[w].pc = "returned"
    /\ wk' = [wk EXCEPT ![w].pc = IF wk[w].cancelled THEN "ended" ELSE "failed"]
    /\ health' = [health EXCEPT !.paused = FALSE]
    /\ UNCHANGED <<early, server, run, pipeline, ntRefreshes>>

\* If not, it takes the lock and leaves its error.
workerFailed(w) ==
    /\ wk[w].pc = "failed"
    /\ wk' = [wk EXCEPT ![w].pc = "ended"]
    /\ server' = [cancel |-> 0, err |-> TRUE]
    /\ UNCHANGED <<early, health, run, pipeline, ntRefreshes>>

(***************************************************************************)
(* start: one period per config.                                           *)
(***************************************************************************)

readConfig(w) ==
    /\ wk[w].pc = "config"
    /\ \E e \in EffectiveConfigs : wk' = [wk EXCEPT ![w].pc = "enter", ![w].cfg = e.cfg]
    /\ UNCHANGED <<early, server, health, run, pipeline, ntRefreshes>>

enterPeriod(w) ==
    LET running == anyEnabled(wk[w].cfg)
    IN  /\ wk[w].pc = "enter"
        /\ wk' = [wk EXCEPT ![w].pc = "wait", ![w].want = wk[w].cfg]
        /\ health' = [paused |-> ~running, failures |-> IF running THEN 0 ELSE health.failures]
        /\ run' = [run EXCEPT ![w] = [pc |-> IF running THEN "connect" ELSE "none",
                                      cancelled |-> wk[w].cancelled, attempts |-> 0, clock |-> 0]]
        /\ UNCHANGED <<early, server, pipeline, ntRefreshes>>

refresh(w) ==
    /\ wk[w].pc = "wait" /\ ~wk[w].cancelled
    /\ ntRefreshes < MaxNtRefreshes
    /\ ntRefreshes' = ntRefreshes + 1
    /\ \E e \in EffectiveConfigs :
           /\ ~e.err /\ e.cfg # wk[w].cfg
           /\ wk' = [wk EXCEPT ![w].want = e.cfg, ![w].pc = "leave"]
    /\ run' = [run EXCEPT ![w].cancelled = TRUE]
    /\ UNCHANGED <<early, server, health, pipeline>>

\* A cancelled run has closed its ACS client: the next period begins.
leavePeriod(w) ==
    /\ wk[w].pc = "leave"
    /\ run[w].pc \in {"none", "done", "failed"}
    /\ wk' = [wk EXCEPT ![w].pc = "enter", ![w].cfg = wk[w].want]
    /\ run' = [run EXCEPT ![w] = NewRun]
    /\ UNCHANGED <<early, server, health, pipeline, ntRefreshes>>

\* The context of the worker ends, or its run ends by itself.
endPeriod(w) ==
    /\ wk[w].pc = "wait"
    /\ \/ /\ wk[w].cancelled
          /\ wk' = [wk EXCEPT ![w].pc = IF run[w].pc = "none" THEN "returned" ELSE "stopping"]
       \/ /\ run[w].pc \in {"done", "failed"}
          /\ wk' = [wk EXCEPT ![w].pc = "returned"]
    /\ UNCHANGED <<early, server, health, run, pipeline, ntRefreshes>>

awaitRun(w) ==
    /\ wk[w].pc = "stopping" /\ run[w].pc \in {"done", "failed"}
    /\ wk' = [wk EXCEPT ![w].pc = "returned"]
    /\ UNCHANGED <<early, server, health, run, pipeline, ntRefreshes>>

(***************************************************************************)
(* runCollection.                                                          *)
(***************************************************************************)
connect(w) ==
    /\ run[w].pc = "connect"
    /\ \/ /\ run' = [run EXCEPT ![w].pc = "collect"]
          /\ col' = [col EXCEPT ![w] = [c \in Collectors |->
                        LET interval == wk[w].cfg[c]
                        IN  IF interval > 0
                            THEN [pc |-> "collect", due |-> 0, until |-> EffectiveTimeout(interval),
                                  tick |-> interval]
                            ELSE [Idle EXCEPT !.pc = "returned"]]]
          /\ in' = [in EXCEPT ![w] = <<>>]
          /\ rep' = [rep EXCEPT ![w] = NewReporter]
          /\ queue' = [queue EXCEPT ![w] = <<>>]
          /\ reported' = [reported EXCEPT ![w] = [d \in Dues |-> 0]]
       \/ /\ run' = [run EXCEPT ![w].attempts = @ + 1,
                                ![w].pc = IF run[w].attempts + 1 = ConnectAttempts \/ run[w].cancelled
                                          THEN "failed" ELSE @]
          /\ UNCHANGED <<col, in, rep, queue, reported>>
    /\ UNCHANGED <<early, server, health, wk, sender, ntRefreshes>>

\* The reporter, its sender and the collectors have returned.
runReturns(w) ==
    /\ run[w].pc = "collect"
    /\ rep[w].pc = "closed" /\ queue[w] = <<>> /\ sender[w] = NoDue
    /\ \A c \in Collectors : col[w][c].pc = "returned"
    /\ run' = [run EXCEPT ![w].pc = "done"]
    /\ UNCHANGED <<early, server, health, wk, pipeline, ntRefreshes>>

\* A unit of time passes.  A collector whose ticker has fired runs first, one
\* that collects ends before its timeout, and one that waits for room holds
\* the clock unless it may stall.
tick(w) ==
    /\ run[w].pc = "collect" /\ ~run[w].cancelled
    /\ run[w].clock < MaxDue
    /\ \A c \in Collectors :
           \/ col[w][c].pc = "returned"
           \/ col[w][c].pc = "wait" /\ col[w][c].tick > run[w].clock
           \/ col[w][c].pc = "collect" /\ col[w][c].until > run[w].clock
           \/ col[w][c].pc = "emit" /\ Blocked(w, c) /\ Stalls
    /\ run' = [run EXCEPT ![w].clock = @ + 1]
    /\ UNCHANGED <<early, server, health, wk, pipeline, ntRefreshes>>

(***************************************************************************)
(* The Scheduler.                                                          *)
(***************************************************************************)
nominalDue(clock, interval) == (clock \div interval) * interval

\* A collection ends, by itself, by a panic or by its timeout, and its result
\* goes into the channel or in line behind it.
Collect(w, c) ==
    /\ col[w][c].pc = "collect"
    /\ \/ /\ in' = [in EXCEPT ![w] = Append(@, [name |-> c, due |-> col[w][c].due])]
          /\ col' = [col EXCEPT ![w][c].pc = IF Len(in[w]) < InCapacity THEN "wait" ELSE "emit"]
       \/ /\ run[w].cancelled
          /\ col' = [col EXCEPT ![w][c].pc = "returned"]
          /\ UNCHANGED in
    /\ UNCHANGED <<early, server, health, wk, run, rep, queue, sender, reported, ntRefreshes>>

\* The blocked send ends: there was room, or the context is done.
emit(w, c) ==
    /\ col[w][c].pc = "emit"
    /\ \/ /\ ~Blocked(w, c)
          /\ col' = [col EXCEPT ![w][c].pc = "wait"]
          /\ UNCHANGED in
       \/ /\ run[w].cancelled
          /\ \E i \in DOMAIN in[w] :
                 /\ i > InCapacity /\ in[w][i].name = c
                 /\ in' = [in EXCEPT ![w] = SubSeq(@, 1, i - 1) \o SubSeq(@, i + 1, Len(@))]
          /\ col' = [col EXCEPT ![w][c].pc = "returned"]
    /\ UNCHANGED <<early, server, health, wk, run, rep, queue, sender, reported, ntRefreshes>>

\* The ticker holds the first tick a blocked collector has missed, drops the
\* others, and fires next at the first point of the grid after now.
nextRun(w, c) ==
    LET k == col[w][c]
        clock == run[w].clock
        interval == wk[w].cfg[c]
    IN  /\ k.pc = "wait"
        /\ \/ /\ k.tick <= clock
              /\ col' = [col EXCEPT ![w][c] =
                            [pc |-> "collect", due |-> nominalDue(k.tick, interval),
                             until |-> clock + EffectiveTimeout(interval),
                             tick |-> nominalDue(clock, interval) + interval]]
           \/ /\ run[w].cancelled
              /\ col' = [col EXCEPT ![w][c].pc = "returned"]
        /\ UNCHANGED <<early, server, health, wk, run, in, rep, queue, sender, reported, ntRefreshes>>

(***************************************************************************)
(* The Reporter.                                                           *)
(***************************************************************************)
expectedAtDue(w, due) == {c \in Collectors : wk[w].cfg[c] > 0 /\ due % wk[w].cfg[c] = 0}

Without(f, d) == [x \in DOMAIN f \ {d} |-> f[x]]
With(f, d, v) == [x \in DOMAIN f \cup {d} |-> IF x = d THEN v ELSE f[x]]

\* A flushed due time is forgotten by a flush that is later by more than this.
PruneAge == 2 * MaxRunTimeout

\* Variant for TLC: the flushed batch is not remembered.
flushDue_Forgets(r, due, batches) ==
    [r EXCEPT !.pending = Without(batches, due), !.pc = "enqueue", !.due = due]

\* The batch is taken out and remembered, the ones that are old enough are
\* forgotten, and its report waits for room in the queue.
flushDue(r, due, batches) ==
    [pc |-> "enqueue", due |-> due, pending |-> Without(batches, due),
     flushed |-> {d \in r.flushed \cup {due} : due - d <= PruneAge}]

\* A result: dropped if its batch is gone, else added, and the batch flushed
\* when it is the last one expected.
ingest(w) ==
    LET res == Head(in[w])
        r == rep[w]
        old == IF res.due \in DOMAIN r.pending THEN r.pending[res.due] ELSE {}
        batches == With(r.pending, res.due, old \cup {res.name})
        allArrived == expectedAtDue(w, res.due) \subseteq batches[res.due]
    IN  /\ run[w].pc = "collect" /\ r.pc = "select" /\ in[w] # <<>>
        /\ in' = [in EXCEPT ![w] = Tail(@)]
        /\ \/ /\ res.due \in r.flushed
              /\ UNCHANGED <<rep, reported>>
           \/ /\ res.due \notin r.flushed /\ ~allArrived
              /\ rep' = [rep EXCEPT ![w].pending = batches]
              /\ UNCHANGED reported
           \/ /\ res.due \notin r.flushed /\ allArrived
              /\ rep' = [rep EXCEPT ![w] = flushDue(r, res.due, batches)]
              /\ reported' = [reported EXCEPT ![w][res.due] = @ + 1]
        /\ UNCHANGED <<early, server, health, wk, run, col, queue, sender, ntRefreshes>>

\* BatchTimeout has passed since the first result of a batch.
batchTimeout(w) ==
    \E due \in DOMAIN rep[w].pending :
        /\ run[w].pc = "collect" /\ rep[w].pc = "select"
        /\ rep' = [rep EXCEPT ![w] = flushDue(rep[w], due, rep[w].pending)]
        /\ reported' = [reported EXCEPT ![w][due] = @ + 1]
        /\ UNCHANGED <<early, server, health, wk, run, col, in, queue, sender, ntRefreshes>>

enqueue(w) ==
    /\ rep[w].pc = "enqueue"
    /\ \/ /\ Len(queue[w]) < QueueCapacity
          /\ queue' = [queue EXCEPT ![w] = Append(@, rep[w].due)]
       \/ /\ run[w].cancelled
          /\ UNCHANGED queue
    /\ rep' = [rep EXCEPT ![w].pc = "select", ![w].due = NoDue]
    /\ UNCHANGED <<early, server, health, wk, run, col, in, sender, reported, ntRefreshes>>

reporterReturns(w) ==
    /\ run[w].pc = "collect" /\ run[w].cancelled /\ rep[w].pc = "select"
    /\ rep' = [rep EXCEPT ![w].pc = "closed", ![w].pending = [d \in {} |-> {}]]
    /\ UNCHANGED <<early, server, health, wk, run, col, in, queue, sender, reported, ntRefreshes>>

(***************************************************************************)
(* The sender: after the context has ended it drains the queue.            *)
(***************************************************************************)
dispatch(w) ==
    /\ sender[w] = NoDue /\ queue[w] # <<>>
    /\ queue' = [queue EXCEPT ![w] = Tail(@)]
    /\ sender' = [sender EXCEPT ![w] = IF run[w].cancelled THEN NoDue ELSE Head(queue[w])]
    /\ UNCHANGED <<early, server, health, wk, run, col, in, rep, reported, ntRefreshes>>

\* sendReportProto, with its retries, and reportSends.record.
sendReport(w, ok) ==
    /\ sender[w] # NoDue
    /\ sender' = [sender EXCEPT ![w] = NoDue]
    /\ health' = IF run[w].cancelled THEN health
                 ELSE [health EXCEPT !.failures = IF ok THEN 0 ELSE IF @ < MaxFailures THEN @ + 1 ELSE @]
    /\ UNCHANGED <<early, server, wk, run, col, in, rep, queue, reported, ntRefreshes>>

Next ==
    \/ \E w \in Workers : Start(w)
    \/ Stop
    \/ \E b \in BOOLEAN : standalone(b)
    \/ \E w \in Workers :
           \/ workerReturns(w) \/ workerFailed(w) \/ readConfig(w) \/ enterPeriod(w) \/ refresh(w) \/ leavePeriod(w)
           \/ endPeriod(w) \/ awaitRun(w) \/ connect(w) \/ runReturns(w) \/ tick(w)
           \/ ingest(w) \/ batchTimeout(w) \/ enqueue(w) \/ reporterReturns(w) \/ dispatch(w)
           \/ \E c \in Collectors : Collect(w, c) \/ emit(w, c) \/ nextRun(w, c)
           \/ \E b \in BOOLEAN : sendReport(w, b)

Spec == Init /\ [][Next]_vars

-----------------------------------------------------------------------------

\* No due time is reported twice in a run: a result that comes after its
\* batch timed out must not open another one, although reporter.go forgets
\* old batches (flushedDue) and collectors with different intervals share
\* due times.  It rests on the buffer of resultsCh (plugin.go:62-64, "never
\* block Scheduler goroutines"): with Stalls = TRUE it is refuted.
ReportedOnce == \A w \in Workers, d \in Dues : reported[w][d] <= 1

\* plugin.go:383 says of GetStatus "While no collectors are enabled, it
\* returns Code 0 with pausedStatus."  Refuted: a worker that Stop cancelled
\* clears collectionPaused when it returns at last, under the paused worker
\* of the next Start.
PausedIsReported ==
    \A w \in Workers :
        server.cancel = w /\ wk[w].pc = "wait" /\ ~anyEnabled(wk[w].cfg) => GetStatus = "paused"

\* The server can stop every worker that is at work.  Refuted with two
\* Starts: a worker that has failed takes the lock after a Stop and a Start
\* and clears the cancel function of the new one (plugin.go:347-357).
WorkersCanBeStopped ==
    \A w \in Workers : wk[w].pc \in {"wait", "leave", "enter"} /\ ~wk[w].cancelled => server.cancel = w
=============================================================================
