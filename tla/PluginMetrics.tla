--------------------------- MODULE PluginMetrics ---------------------------
(***************************************************************************)
(* The resource metrics of a plugin: the metrics job (pluginmetrics.go)    *)
(* adds measurements to a bounded list (internal/boundedlist), which       *)
(* ListPluginStates reads and flushes, while requests start and stop the   *)
(* plugin.  The list is a ring: an array, the index of the next entry and  *)
(* a flag for "full".                                                      *)
(***************************************************************************)
EXTENDS Naturals, Sequences

CONSTANTS
    Metrics,    \* measurements
    ListSize,   \* the size the list is made with
    NoMetric    \* the zero value of an entry

VARIABLES
    entries, idx, isFull,   \* List
    pluginState,            \* Plugin.State
    pluginPid,              \* Plugin.pid is known; FALSE is pid 0
    jobPc,                  \* where the run of the metrics job is
    measured,               \* what the job has measured and not yet added
    states                  \* CurrentPluginMetrics of the last answer of ListPluginStates

list == <<entries, idx, isFull>>
vars == <<entries, idx, isFull, pluginState, pluginPid, jobPc, measured, states>>

Index == 0..(ListSize - 1)

-----------------------------------------------------------------------------
(* List                                                                    *)

New == [i \in Index |-> NoMetric]

\* Faulty variant: the index is wrapped before the entry is stored.
Add_Early(m) ==
    LET next == (idx + 1) % ListSize IN
    /\ entries' = [entries EXCEPT ![next] = m]
    /\ idx' = next
    /\ isFull' = (isFull \/ next = 0)

Add(m) ==
    LET next == (idx + 1) % ListSize IN
    /\ entries' = [entries EXCEPT ![idx] = m]
    /\ idx' = next
    /\ isFull' = (isFull \/ next = 0)

ListLen == IF isFull THEN ListSize ELSE idx

Item(i) == IF i >= ListLen THEN NoMetric
           ELSE IF isFull THEN entries[(idx + i) % ListSize]
           ELSE entries[i]

All == [i \in 1..ListLen |-> Item(i - 1)]

Reset == entries' = New /\ idx' = 0 /\ isFull' = FALSE

-----------------------------------------------------------------------------
Init ==
    /\ entries = New /\ idx = 0 /\ isFull = FALSE
    /\ pluginState = "RUNNING" /\ pluginPid = TRUE
    /\ jobPc = "waiting" /\ measured = NoMetric
    /\ states = <<>>

\* Requests and crashes change state and pid under the feet of the job (see
\* PluginManager): a stop resets the pid, a crash does not.
stopPlugin ==
    /\ pluginState = "RUNNING"
    /\ \/ pluginState' = "STOPPED" /\ pluginPid' = FALSE
       \/ pluginState' = "CRASHED" /\ UNCHANGED pluginPid
    /\ UNCHANGED <<list, jobPc, measured, states>>

startPlugin ==
    /\ pluginState # "RUNNING"
    /\ pluginState' = "RUNNING" /\ pluginPid' = TRUE
    /\ UNCHANGED <<list, jobPc, measured, states>>

\* Run looks at the state, and skips the collection when the plugin does not run.
readState ==
    /\ jobPc = "waiting"
    /\ jobPc' = IF pluginState = "RUNNING" THEN "pid" ELSE "waiting"
    /\ UNCHANGED <<list, pluginState, pluginPid, measured, states>>

\* Run looks at the pid: without one the job ends.  Usage that cannot be read is
\* recorded as zero, so there is a measurement in any case.
readPid ==
    /\ jobPc = "pid"
    /\ IF pluginPid
       THEN \E m \in Metrics : measured' = m /\ jobPc' = "add"
       ELSE measured' = measured /\ jobPc' = "ended"
    /\ UNCHANGED <<list, pluginState, pluginPid, states>>

\* Under metricsMu.
addMetric ==
    /\ jobPc = "add"
    /\ Add(measured)
    /\ jobPc' = "waiting" /\ measured' = NoMetric
    /\ UNCHANGED <<pluginState, pluginPid, states>>

\* A new launch schedules the job again.
startMetricsMonitoring ==
    /\ jobPc = "ended" /\ pluginState = "RUNNING"
    /\ jobPc' = "waiting"
    /\ UNCHANGED <<list, pluginState, pluginPid, measured, states>>

\* ListPluginStates copies the metrics and flushes them, under metricsMu.
ListPluginStates ==
    /\ states' = All
    /\ Reset
    /\ UNCHANGED <<pluginState, pluginPid, jobPc, measured>>

Next ==
    \/ stopPlugin \/ startPlugin
    \/ readState \/ readPid \/ addMetric \/ startMetricsMonitoring
    \/ ListPluginStates

Spec == Init /\ [][Next]_vars

-----------------------------------------------------------------------------
\* The ring is the window of the last ListSize metrics: what is in it, in which order, and
\* what a report takes out of it (boundedlist, ListPluginStates).
Window == INSTANCE MetricWindow WITH Capacity <- ListSize, window <- All, reported <- states

RingIsWindow == Window!Spec

=============================================================================
