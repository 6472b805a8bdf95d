--------------------------- MODULE MetricRegistry ---------------------------
(***************************************************************************)
(* The registry of module metrics (internal/metricregistry): goroutines    *)
(* record metrics in a buffer that is flushed to ACS on a ticker, and by a *)
(* recorder that finds it full.  The size is looked at, the buffer taken   *)
(* and the metric added under the mutex, but each for itself.              *)
(***************************************************************************)
EXTENDS Naturals, Sequences, FiniteSets, SequencesExt

CONSTANTS
    Recorders,      \* goroutines that record
    MaxRecords,     \* MetricRegistry.maxRecords
    MaxRecorded     \* bound: metrics recorded

VARIABLES
    buffer,         \* MetricRegistry.metrics
    recorded,       \* how many metrics were added; metrics are numbered by it
    flushing,       \* toFlush of every goroutine
    flushPc,        \* where every recorder, and the flusher, is
    sent            \* the metrics handed to the ACS client

vars == <<buffer, recorded, flushing, flushPc, sent>>

Flusher == "flusher"
Threads == Recorders \cup {Flusher}

Init ==
    /\ buffer = <<>> /\ recorded = 0 /\ sent = <<>>
    /\ flushing = [t \in Threads |-> <<>>]
    /\ flushPc = [t \in Threads |-> "idle"]

\* Record of a valid metric looks at the size; a metric of another type is ignored.
Record(t) ==
    /\ t \in Recorders /\ flushPc[t] = "idle"
    /\ recorded + Cardinality({u \in Recorders : flushPc[u] # "idle"}) < MaxRecorded
    /\ flushPc' = [flushPc EXCEPT ![t] = IF Len(buffer) + 1 >= MaxRecords THEN "take" ELSE "add"]
    /\ UNCHANGED <<buffer, recorded, flushing, sent>>

\* The ticker of runFlusher.
runFlusher ==
    /\ flushPc[Flusher] = "idle" /\ buffer # <<>>
    /\ flushPc' = [flushPc EXCEPT ![Flusher] = "take"]
    /\ UNCHANGED <<buffer, recorded, flushing, sent>>

\* Faulty variant: the buffer is emptied only when it has been sent.
take_NoReset(t) ==
    /\ flushPc[t] = "take"
    /\ flushing' = [flushing EXCEPT ![t] = buffer]
    /\ flushPc' = [flushPc EXCEPT ![t] = "send"]
    /\ UNCHANGED <<buffer, recorded, sent>>

\* Flush takes the buffer under the lock and sends it without.
take(t) ==
    /\ flushPc[t] = "take"
    /\ flushing' = [flushing EXCEPT ![t] = buffer]
    /\ buffer' = <<>>
    /\ flushPc' = [flushPc EXCEPT ![t] = "send"]
    /\ UNCHANGED <<recorded, sent>>

\* What was taken is sent; the client retries, and what it gives up is lost.
Flush(t) ==
    /\ flushPc[t] = "send"
    /\ sent' = sent \o flushing[t]
    /\ flushing' = [flushing EXCEPT ![t] = <<>>]
    /\ flushPc' = [flushPc EXCEPT ![t] = IF t = Flusher THEN "idle" ELSE "add"]
    /\ UNCHANGED <<buffer, recorded>>

addEntry(t) ==
    /\ flushPc[t] = "add"
    /\ recorded' = recorded + 1
    /\ buffer' = Append(buffer, recorded')
    /\ flushPc' = [flushPc EXCEPT ![t] = "idle"]
    /\ UNCHANGED <<flushing, sent>>

Next == runFlusher \/ \E t \in Threads : Record(t) \/ take(t) \/ Flush(t) \/ addEntry(t)

Spec == Init /\ [][Next]_vars

-----------------------------------------------------------------------------
\* Every metric recorded is in exactly one place, once: in the buffer, in the hands of one
\* goroutine that flushes, or with the ACS client (MetricRegistry.Flush, Record).
EachMetricOnce ==
    /\ ToSet(sent) \cup ToSet(buffer) \cup UNION {ToSet(flushing[t]) : t \in Threads} = 1..recorded
    /\ IsInjective(sent) /\ IsInjective(buffer) /\ ToSet(sent) \cap ToSet(buffer) = {}
    /\ \A t \in Threads :
         /\ IsInjective(flushing[t])
         /\ ToSet(flushing[t]) \cap (ToSet(sent) \cup ToSet(buffer)) = {}
         /\ \A u \in Threads \ {t} : ToSet(flushing[t]) \cap ToSet(flushing[u]) = {}

=============================================================================
