---------------------------- MODULE AgentProofs ----------------------------
(***************************************************************************)
(* Proofs about the components that MCAgent puts side by side: the command *)
(* monitor, the ring of a plugin's metrics, the metric registry, the       *)
(* workload credentials and the network telemetry plugin.                  *)
(***************************************************************************)
EXTENDS MCAgent, SequenceTheorems, TLAPS

\* In a step of the sum a component takes a step of its own, or its variables stay.
LEMMA OneComponentMoves ==
  [AgentNext]_allVars =>
    /\ Startup!Next \/ UNCHANGED startupVars
    /\ Monitor!Next \/ UNCHANGED monitorVars
    /\ Ring!Next \/ UNCHANGED ringVars
    /\ Registry!Next \/ UNCHANGED registryVars
    /\ Compat!Next \/ UNCHANGED compatVars
    /\ Workload!Next \/ UNCHANGED workloadVars
    /\ Telemetry!Next \/ UNCHANGED telemetryVars
BY DEF AgentNext, allVars, Only, SchedulerStep, StartupStep, MonitorStep, RingStep, RegistryStep,
       CompatStep, WorkloadStep, TelemetryStep

-----------------------------------------------------------------------------
(* The command monitor                                                     *)

\* Inductive: connections are where a connection can be, and the property itself.
MonitorInv ==
    /\ connPc \in [Conns -> {"none", "reading", "lookup", "handling", "closed"}]
    /\ connCmd \in [Conns -> Monitor!AllCommands \cup {UnknownCommand}]
    /\ Monitor!RunningIsRegistered

\* No connection is handled at first.
LEMMA MonitorInitial == Monitor!Init => MonitorInv
BY DEF Monitor!Init, MonitorInv, Monitor!RunningIsRegistered

\* A connection moves to a handler only if that handler is registered.
LEMMA ReplyPreserves ==
  ASSUME MonitorInv, NEW k \in Conns, NEW next \in {"lookup", "handling", "closed"}, NEW r,
         Monitor!Reply(k, next, r), next = "handling" => connCmd[k] \in handlers
  PROVE  MonitorInv'
BY DEF MonitorInv, Monitor!RunningIsRegistered, Monitor!Reply

\* unregister waits for the readers of the lock, so it finds no handler running.
LEMMA MonitorStepPreserves == MonitorInv /\ Monitor!Next => MonitorInv'
<1> SUFFICES ASSUME MonitorInv, Monitor!Next PROVE MonitorInv'
  OBVIOUS
<1> USE DEF MonitorInv, Monitor!RunningIsRegistered
<1>1. ASSUME NEW c \in Commands, NEW from, NEW to, Monitor!call(c, from, to) PROVE MonitorInv'
  BY <1>1 DEF Monitor!call
<1>2. ASSUME NEW c \in Commands, Monitor!register(c) PROVE MonitorInv'
  BY <1>2 DEF Monitor!register, Monitor!RegisterHandler
<1>3. ASSUME NEW c \in Commands, Monitor!unregister(c) PROVE MonitorInv'
  BY <1>3 DEF Monitor!unregister, Monitor!UnregisterHandler, Monitor!Readers
<1>4. CASE Monitor!Setup BY <1>4 DEF Monitor!Setup
<1>5. CASE Monitor!SetupRegisters BY <1>5 DEF Monitor!SetupRegisters, Monitor!RegisterHandler
<1>6. CASE Monitor!listen BY <1>6 DEF Monitor!listen
<1>7. CASE Monitor!Close BY <1>7 DEF Monitor!Close
<1>8. CASE Monitor!CloseServer
  BY <1>8 DEF Monitor!CloseServer, Monitor!UnregisterHandler, Monitor!Readers
<1>9. CASE Monitor!Crash BY <1>9 DEF Monitor!Crash
<1>10. ASSUME NEW k \in Conns, Monitor!SendCommand(k) PROVE MonitorInv'
  BY <1>10 DEF Monitor!SendCommand
<1>11. ASSUME NEW k \in Conns, Monitor!readOrError(k) PROVE MonitorInv'
  BY <1>11, ReplyPreserves DEF Monitor!readOrError
<1>12. ASSUME NEW k \in Conns, Monitor!lookup(k) PROVE MonitorInv'
  BY <1>12, ReplyPreserves DEF Monitor!lookup
<1>13. ASSUME NEW k \in Conns, Monitor!handlerReturns(k) PROVE MonitorInv'
  BY <1>13, ReplyPreserves DEF Monitor!handlerReturns
<1>14. ASSUME NEW k \in Conns, Monitor!vmEventHandler(k) PROVE MonitorInv'
  BY <1>14, ReplyPreserves DEF Monitor!vmEventHandler
<1> QED BY <1>1, <1>2, <1>3, <1>4, <1>5, <1>6, <1>7, <1>8, <1>9, <1>10, <1>11, <1>12, <1>13, <1>14
        DEF Monitor!Next

\* A step of another component changes none of it.
LEMMA MonitorStutters == MonitorInv /\ UNCHANGED monitorVars => MonitorInv'
BY DEF MonitorInv, Monitor!RunningIsRegistered, monitorVars

\* No handler of a command runs that is not registered, for any set of commands and
\* connections and whatever plugin registers or unregisters meanwhile (CommandMonitor).
THEOREM HandlersAreRegistered == AgentSpec => []RunningIsRegistered
<1>1. AgentInit => MonitorInv BY MonitorInitial DEF AgentInit
<1>2. MonitorInv /\ [AgentNext]_allVars => MonitorInv'
  BY OneComponentMoves, MonitorStepPreserves, MonitorStutters
<1>3. MonitorInv => RunningIsRegistered BY DEF MonitorInv, RunningIsRegistered
<1> QED BY <1>1, <1>2, <1>3, PTL DEF AgentSpec

-----------------------------------------------------------------------------
(* The metrics of a plugin                                                 *)

\* What an entry of the ring may hold.
RingEntries == Metrics \cup {NoMetric}

\* The ring is well formed, and what the job is about to add is a metric.
RingInv ==
    /\ entries \in [Ring!Index -> RingEntries]
    /\ idx \in Ring!Index
    /\ isFull \in BOOLEAN
    /\ jobPc = "add" => measured \in Metrics

\* All returns a sequence of ListLen items.
LEMMA AllIsSequence ==
  ASSUME RingInv
  PROVE  /\ Ring!All \in Seq(RingEntries)
         /\ Len(Ring!All) = Ring!ListLen
         /\ Ring!ListLen \in 0..ListSize
         /\ \A i \in 1..Ring!ListLen : Ring!All[i] = Ring!Item(i - 1)
<1>1. Ring!ListLen \in 0..ListSize
  BY RingAssumption DEF RingInv, Ring!ListLen, Ring!Index
<1>2. ASSUME NEW i \in 1..Ring!ListLen PROVE Ring!Item(i - 1) \in RingEntries
  <2>1. i - 1 \in Ring!Index /\ i - 1 < Ring!ListLen BY <1>1, RingAssumption DEF Ring!Index
  <2>2. (idx + (i - 1)) % ListSize \in Ring!Index BY <2>1, RingAssumption DEF RingInv, Ring!Index
  <2>3. CASE isFull = TRUE BY <1>1, <2>1, <2>2, <2>3 DEF RingInv, Ring!Item
  <2>4. CASE isFull = FALSE BY <1>1, <2>1, <2>4 DEF RingInv, Ring!Item
  <2> QED BY <2>3, <2>4 DEF RingInv
<1>3. Ring!All = [i \in 1..Ring!ListLen |-> Ring!Item(i - 1)]
  BY DEF Ring!All
<1> HIDE DEF Ring!Item, Ring!All
<1> QED BY <1>1, <1>2, <1>3

\* What Add does to the ring, without the modulus.
LEMMA AddMoves ==
  ASSUME RingInv, NEW m \in Metrics, Ring!Add(m)
  PROVE  /\ ListSize \in Nat \ {0} /\ idx \in 0..(ListSize - 1)
         /\ entries' = [entries EXCEPT ![idx] = m]
         /\ idx' = IF idx + 1 < ListSize THEN idx + 1 ELSE 0
         /\ idx + 1 < ListSize => isFull' = isFull
         /\ ~(idx + 1 < ListSize) => isFull' = TRUE
         /\ m \in RingEntries
<1>1. ListSize \in Nat \ {0} /\ idx \in 0..(ListSize - 1)
  BY RingAssumption DEF RingInv, Ring!Index
<1>2. /\ (idx + 1) % ListSize = IF idx + 1 < ListSize THEN idx + 1 ELSE 0
      /\ entries' = [entries EXCEPT ![idx] = m]
      /\ idx' = (idx + 1) % ListSize
  BY <1>1 DEF Ring!Add
<1>3. (isFull' <=> isFull \/ (idx + 1) % ListSize = 0) /\ isFull' \in BOOLEAN
  BY Zenon DEF Ring!Add
<1>4. isFull \in BOOLEAN BY DEF RingInv
<1> QED BY <1>1, <1>2, <1>3, <1>4 DEF RingEntries

\* Add to a ring that is not full: the entry goes behind the others.
LEMMA AddAppends ==
  ASSUME RingInv, NEW m \in Metrics, Ring!Add(m), isFull = FALSE
  PROVE  Ring!All' = Append(Ring!All, m) /\ Ring!ListLen # ListSize
<1>1. ListSize \in Nat \ {0} /\ idx \in 0..(ListSize - 1) BY AddMoves
<1>2. /\ idx + 1 < ListSize => idx' = idx + 1 /\ isFull' = FALSE
      /\ ~(idx + 1 < ListSize) => idx' = 0 /\ isFull' = TRUE /\ idx + 1 = ListSize
  <2>1. /\ idx' = IF idx + 1 < ListSize THEN idx + 1 ELSE 0
        /\ idx + 1 < ListSize => isFull' = isFull
        /\ ~(idx + 1 < ListSize) => isFull' = TRUE
    BY AddMoves
  <2> QED BY <1>1, <2>1
<1>3. Ring!ListLen = idx /\ \A i \in 0..(idx - 1) : Ring!Item(i) = entries[i]
  BY <1>1 DEF Ring!ListLen, Ring!Item
<1>4. Ring!ListLen' = idx + 1
  <2>1. CASE idx + 1 < ListSize BY <1>2, <2>1 DEF Ring!ListLen
  <2>2. CASE ~(idx + 1 < ListSize) BY <1>2, <2>2 DEF Ring!ListLen
  <2> QED BY <2>1, <2>2
<1>5. ASSUME NEW i \in 0..idx PROVE Ring!Item(i)' = entries'[i]
  <2>1. (0 + i) % ListSize = i BY <1>1
  <2>2. i < Ring!ListLen' BY <1>1, <1>4
  <2>3. Ring!Item(i)' = IF isFull' THEN entries'[(idx' + i) % ListSize] ELSE entries'[i]
    BY <1>1, <1>4, <2>2 DEF Ring!Item
  <2>4. CASE idx + 1 < ListSize BY <1>2, <2>3, <2>4
  <2>5. CASE ~(idx + 1 < ListSize) BY <1>2, <2>1, <2>3, <2>5
  <2> QED BY <2>4, <2>5
<1>6. Ring!All' = [i \in 1..(idx + 1) |-> Ring!Item(i - 1)']
  BY <1>4 DEF Ring!All
<1>7. \A i \in 1..(idx + 1) : Ring!All'[i] = entries'[i - 1] BY <1>1, <1>5, <1>6
<1>8. /\ Ring!All \in Seq(RingEntries) /\ Len(Ring!All) = idx
      /\ \A i \in 1..idx : Ring!All[i] = entries[i - 1]
  <2>1. /\ Ring!All \in Seq(RingEntries) /\ Len(Ring!All) = Ring!ListLen
        /\ \A i \in 1..Ring!ListLen : Ring!All[i] = Ring!Item(i - 1)
    BY AllIsSequence
  <2>2. Ring!ListLen = idx BY <1>3
  <2>3. ASSUME NEW i \in 1..idx PROVE Ring!All[i] = entries[i - 1]
    <3>1. i - 1 \in 0..(idx - 1) BY <1>1
    <3>2. Ring!Item(i - 1) = entries[i - 1] BY <3>1, <1>3
    <3> QED BY <2>1, <2>2, <3>2
  <2> QED BY <2>1, <2>2, <2>3
<1>9. entries' = [entries EXCEPT ![idx] = m] /\ m \in RingEntries BY AddMoves
<1>10. \A i \in 1..(idx + 1) : Ring!All'[i] = Append(Ring!All, m)[i]
  BY <1>1, <1>7, <1>8, <1>9 DEF RingInv, Ring!Index
<1>11. Append(Ring!All, m) = [i \in 1..(idx + 1) |-> Append(Ring!All, m)[i]]
  <2>1. Append(Ring!All, m) \in Seq(RingEntries) /\ Len(Append(Ring!All, m)) = idx + 1
    BY <1>8, <1>9
  <2> QED BY <2>1, LenProperties
<1> QED BY <1>1, <1>3, <1>6, <1>10, <1>11

\* Add to a full ring: the oldest entry gives way to the new one.
LEMMA AddSlides ==
  ASSUME RingInv, NEW m \in Metrics, Ring!Add(m), isFull = TRUE
  PROVE  Ring!All' = Append(Tail(Ring!All), m) /\ Ring!ListLen = ListSize
<1> DEFINE window == Append(Tail(Ring!All), m)
<1>1. /\ ListSize \in Nat \ {0} /\ idx \in 0..(ListSize - 1) /\ m \in RingEntries
      /\ entries' = [entries EXCEPT ![idx] = m]
  BY AddMoves
<1>2. isFull' = TRUE /\ idx' = IF idx + 1 < ListSize THEN idx + 1 ELSE 0
  BY AddMoves
<1>3. Ring!ListLen = ListSize /\ Ring!ListLen' = ListSize
  BY <1>2 DEF Ring!ListLen
<1>4. ASSUME NEW i \in 1..ListSize PROVE Ring!All[i] = entries[(idx + (i - 1)) % ListSize]
  <2>1. Ring!All[i] = Ring!Item(i - 1) BY <1>3, AllIsSequence
  <2> QED BY <1>1, <1>3, <2>1 DEF Ring!Item
<1>5. Ring!All' = [i \in 1..ListSize |-> entries'[(idx' + (i - 1)) % ListSize]]
  BY <1>1, <1>2, <1>3 DEF Ring!All, Ring!Item
<1>6. /\ Ring!All \in Seq(RingEntries) /\ Len(Ring!All) = ListSize
  BY <1>3, AllIsSequence
<1>7. /\ Tail(Ring!All) \in Seq(RingEntries) /\ Len(Tail(Ring!All)) = ListSize - 1
      /\ \A i \in 1..(ListSize - 1) : Tail(Ring!All)[i] = Ring!All[i + 1]
  BY <1>1, <1>6
<1>8. /\ window \in Seq(RingEntries) /\ Len(window) = ListSize
      /\ \A i \in 1..(ListSize - 1) : window[i] = Ring!All[i + 1]
      /\ window[ListSize] = m
  BY <1>1, <1>7
<1>9. ASSUME NEW i \in 1..ListSize PROVE Ring!All'[i] = window[i]
  <2> DEFINE p == (idx' + (i - 1)) % ListSize
  <2>1. p = IF idx + i < ListSize THEN idx + i ELSE idx + i - ListSize
    <3>1. CASE idx + 1 < ListSize BY <1>1, <1>2, <3>1
    <3>2. CASE ~(idx + 1 < ListSize) BY <1>1, <1>2, <3>2
    <3> QED BY <3>1, <3>2
  <2>2. p \in Ring!Index /\ (i = ListSize <=> p = idx) BY <1>1, <2>1 DEF Ring!Index
  <2>3. Ring!All'[i] = entries'[p] BY <1>5
  <2>4. CASE i = ListSize BY <1>1, <1>8, <2>2, <2>3, <2>4 DEF RingInv
  <2>5. CASE i # ListSize
    <3>1. window[i] = Ring!All[i + 1] BY <1>1, <1>8, <2>5
    <3>2. Ring!All[i + 1] = entries[(idx + i) % ListSize] BY <1>1, <1>4, <2>5
    <3>3. (idx + i) % ListSize = p BY <1>1, <2>1, <2>5
    <3> HIDE DEF p, window
    <3> QED BY <1>1, <2>2, <2>3, <2>5, <3>1, <3>2, <3>3 DEF RingInv
  <2> QED BY <2>4, <2>5
<1>10. window = [i \in 1..ListSize |-> window[i]]
  BY <1>8, LenProperties
<1> QED BY <1>3, <1>5, <1>9, <1>10

\* An empty ring is an empty window.
LEMMA RingInitial == Ring!Init => RingInv /\ Ring!Window!Init
<1> SUFFICES ASSUME Ring!Init PROVE RingInv /\ Ring!Window!Init
  OBVIOUS
<1>1. RingInv
  <2>1. entries \in [Ring!Index -> RingEntries] BY DEF Ring!Init, Ring!New, RingEntries
  <2>2. idx \in Ring!Index /\ jobPc # "add" BY RingAssumption DEF Ring!Init, Ring!Index
  <2>3. isFull \in BOOLEAN BY DEF Ring!Init
  <2> QED BY <2>1, <2>2, <2>3 DEF RingInv
<1>2. Ring!ListLen = 0 BY DEF Ring!Init, Ring!ListLen
<1>3. Ring!All = <<>> BY <1>1, <1>2, AllIsSequence
<1> QED BY <1>1, <1>3 DEF Ring!Init, Ring!Window!Init

\* Every step of the metrics job, and of the plugin it measures, keeps the ring well formed
\* and is a step of the window, or none.
LEMMA RingStepRefines ==
  RingInv /\ Ring!Next => RingInv' /\ [Ring!Window!Next]_(Ring!Window!vars)
<1> SUFFICES ASSUME RingInv, Ring!Next PROVE RingInv' /\ [Ring!Window!Next]_(Ring!Window!vars)
  OBVIOUS
<1>1. ASSUME UNCHANGED <<entries, idx, isFull, states>>, jobPc' = "add" => measured' \in Metrics
      PROVE  RingInv' /\ UNCHANGED Ring!Window!vars
  BY <1>1 DEF RingInv, Ring!Window!vars, Ring!All, Ring!ListLen, Ring!Item
<1>2. CASE Ring!stopPlugin
  BY <1>1, <1>2 DEF Ring!stopPlugin, Ring!list, RingInv
<1>3. CASE Ring!startPlugin
  BY <1>1, <1>3 DEF Ring!startPlugin, Ring!list, RingInv
<1>4. CASE Ring!readState
  BY <1>1, <1>4 DEF Ring!readState, Ring!list, RingInv
<1>5. CASE Ring!readPid
  BY <1>1, <1>5 DEF Ring!readPid, Ring!list, RingInv
<1>6. CASE Ring!addMetric
  <2>1. measured \in Metrics /\ Ring!Add(measured) /\ jobPc' = "waiting" /\ states' = states
    BY <1>6 DEF Ring!addMetric, RingInv
  <2>2. RingInv'
    <3>1. entries' \in [Ring!Index -> RingEntries] /\ idx' \in Ring!Index /\ isFull' \in BOOLEAN
      <4>1. /\ ListSize \in Nat \ {0} /\ idx \in 0..(ListSize - 1)
            /\ entries' = [entries EXCEPT ![idx] = measured]
            /\ idx' = IF idx + 1 < ListSize THEN idx + 1 ELSE 0
            /\ idx + 1 < ListSize => isFull' = isFull
            /\ ~(idx + 1 < ListSize) => isFull' = TRUE
            /\ measured \in RingEntries
        BY <2>1, AddMoves
      <4>2. entries' \in [Ring!Index -> RingEntries] BY <4>1 DEF RingInv
      <4>3. idx' \in Ring!Index BY <4>1 DEF Ring!Index
      <4>4. isFull' \in BOOLEAN BY <4>1 DEF RingInv
      <4> QED BY <4>2, <4>3, <4>4
    <3> QED BY <2>1, <3>1 DEF RingInv
  <2>3. Ring!Window!Collect(measured)
    <3>1. Len(Ring!All) = Ring!ListLen BY AllIsSequence
    <3>2. CASE isFull = TRUE BY <2>1, <3>1, <3>2, AddSlides DEF Ring!Window!Collect
    <3>3. CASE isFull = FALSE BY <2>1, <3>1, <3>3, AddAppends DEF Ring!Window!Collect
    <3> QED BY <3>2, <3>3 DEF RingInv
  <2> QED BY <2>1, <2>2, <2>3 DEF Ring!Window!Next
<1>7. CASE Ring!startMetricsMonitoring
  BY <1>1, <1>7 DEF Ring!startMetricsMonitoring, Ring!list, RingInv
<1>8. CASE Ring!ListPluginStates
  <2>1. RingInv'
    <3>1. entries' \in [Ring!Index -> RingEntries]
      BY <1>8 DEF Ring!ListPluginStates, Ring!Reset, Ring!New, RingEntries
    <3>2. idx' \in Ring!Index
      BY <1>8, RingAssumption DEF Ring!ListPluginStates, Ring!Reset, Ring!Index
    <3>3. isFull' \in BOOLEAN /\ UNCHANGED <<jobPc, measured>>
      BY <1>8 DEF Ring!ListPluginStates, Ring!Reset
    <3> QED BY <3>1, <3>2, <3>3 DEF RingInv
  <2>2. Ring!ListLen' = 0 BY <1>8 DEF Ring!ListPluginStates, Ring!Reset, Ring!ListLen
  <2>3. Ring!All' = <<>>
    BY <2>2 DEF Ring!All
  <2> QED BY <1>8, <2>1, <2>3 DEF Ring!ListPluginStates, Ring!Window!Next, Ring!Window!Report
<1> QED BY <1>2, <1>3, <1>4, <1>5, <1>6, <1>7, <1>8 DEF Ring!Next

\* A step of another component is a stutter of the window.
LEMMA RingStutters == RingInv /\ UNCHANGED ringVars => RingInv' /\ UNCHANGED Ring!Window!vars
BY DEF RingInv, ringVars, Ring!Window!vars, Ring!All, Ring!ListLen, Ring!Item

\* The metrics of a plugin that a report carries are the last ListSize measured since the
\* last report, in their order, for every size of the ring: CircularList with its index that
\* wraps around implements the window (PluginMetrics, Window).
THEOREM RingImplementsWindow == AgentSpec => RingIsWindow
<1>1. AgentInit => RingInv /\ Ring!Window!Init
  BY RingInitial DEF AgentInit
<1>2. RingInv /\ [AgentNext]_allVars => RingInv' /\ [Ring!Window!Next]_(Ring!Window!vars)
  BY OneComponentMoves, RingStepRefines, RingStutters
<1> QED BY <1>1, <1>2, PTL DEF AgentSpec, RingIsWindow, Ring!RingIsWindow, Ring!Window!Spec

-----------------------------------------------------------------------------
(* The metric registry                                                     *)

\* The metrics that a goroutine has in its hands are those it took and has yet to send.
RegistryTyped ==
    /\ recorded \in Nat /\ buffer \in Seq(Nat) /\ sent \in Seq(Nat)
    /\ flushing \in [Registry!Threads -> Seq(Nat)]
    /\ flushPc \in [Registry!Threads -> {"idle", "take", "send", "add"}]
    /\ \A t \in Registry!Threads : flushPc[t] # "send" => flushing[t] = <<>>

\* Inductive: with the empty hands above, a flush takes over what it flushes.
RegistryInv == RegistryTyped /\ Registry!EachMetricOnce

\* Appending a new metric: what the sequence holds, and that it still holds it once.
LEMMA RangeAppend ==
  ASSUME NEW s \in Seq(Nat), NEW m \in Nat
  PROVE  /\ Registry!ToSet(Append(s, m)) = Registry!ToSet(s) \cup {m}
         /\ Registry!IsInjective(s) /\ m \notin Registry!ToSet(s) => Registry!IsInjective(Append(s, m))
<1>1. /\ DOMAIN s = 1..Len(s) /\ Len(s) \in Nat /\ DOMAIN Append(s, m) = 1..(Len(s) + 1)
      /\ \A i \in 1..Len(s) : Append(s, m)[i] = s[i]
      /\ Append(s, m)[Len(s) + 1] = m
  OBVIOUS
<1>2. Registry!ToSet(Append(s, m)) \subseteq Registry!ToSet(s) \cup {m}
  BY <1>1 DEF Registry!ToSet
<1>3. m \in Registry!ToSet(Append(s, m))
  <2>1. Len(s) + 1 \in DOMAIN Append(s, m) BY <1>1
  <2> QED BY <1>1, <2>1 DEF Registry!ToSet
<1>4. Registry!ToSet(s) \subseteq Registry!ToSet(Append(s, m))
  <2>1. \A i \in DOMAIN s : i \in DOMAIN Append(s, m) /\ s[i] = Append(s, m)[i] BY <1>1
  <2> QED BY <2>1 DEF Registry!ToSet
<1>5. Registry!IsInjective(s) /\ m \notin Registry!ToSet(s) => Registry!IsInjective(Append(s, m))
  BY DEF Registry!ToSet, Registry!IsInjective
<1> QED BY <1>2, <1>3, <1>4, <1>5

\* The same for two sequences with nothing in common.
LEMMA RangeConcat ==
  ASSUME NEW s \in Seq(Nat), NEW r \in Seq(Nat)
  PROVE  /\ Registry!ToSet(s \o r) = Registry!ToSet(s) \cup Registry!ToSet(r)
         /\ Registry!IsInjective(s) /\ Registry!IsInjective(r)
              /\ Registry!ToSet(s) \cap Registry!ToSet(r) = {} => Registry!IsInjective(s \o r)
<1>1. /\ DOMAIN s = 1..Len(s) /\ Len(s) \in Nat /\ DOMAIN r = 1..Len(r) /\ Len(r) \in Nat
      /\ DOMAIN (s \o r) = 1..(Len(s) + Len(r))
  OBVIOUS
<1>2. ASSUME NEW i \in 1..(Len(s) + Len(r))
      PROVE  IF i <= Len(s) THEN i \in DOMAIN s /\ (s \o r)[i] = s[i]
             ELSE i - Len(s) \in DOMAIN r /\ (s \o r)[i] = r[i - Len(s)]
  BY <1>1
<1>3. Registry!ToSet(s \o r) = Registry!ToSet(s) \cup Registry!ToSet(r)
  <2>1. Registry!ToSet(s \o r) \subseteq Registry!ToSet(s) \cup Registry!ToSet(r)
    BY <1>1, <1>2 DEF Registry!ToSet
  <2>2. \A i \in DOMAIN s : i \in DOMAIN (s \o r) /\ (s \o r)[i] = s[i]
    BY <1>1, <1>2
  <2>3. \A i \in DOMAIN r : Len(s) + i \in DOMAIN (s \o r) /\ (s \o r)[Len(s) + i] = r[i]
    BY <1>1
  <2>4. Registry!ToSet(s) \subseteq Registry!ToSet(s \o r)
    BY <2>2 DEF Registry!ToSet
  <2>5. Registry!ToSet(r) \subseteq Registry!ToSet(s \o r)
    BY <2>3 DEF Registry!ToSet
  <2> QED BY <2>1, <2>4, <2>5
<1>4. ASSUME Registry!IsInjective(s), Registry!IsInjective(r),
             Registry!ToSet(s) \cap Registry!ToSet(r) = {},
             NEW i \in DOMAIN (s \o r), NEW j \in DOMAIN (s \o r), (s \o r)[i] = (s \o r)[j]
      PROVE  i = j
  <2>1. \A a \in DOMAIN s, b \in DOMAIN r : s[a] # r[b] BY <1>4 DEF Registry!ToSet
  <2>2. i \in 1..(Len(s) + Len(r)) /\ j \in 1..(Len(s) + Len(r)) BY <1>1
  <2>3. CASE i <= Len(s) /\ j <= Len(s) BY <1>2, <1>4, <2>2, <2>3 DEF Registry!IsInjective
  <2>4. CASE i <= Len(s) /\ ~(j <= Len(s)) BY <1>2, <1>4, <2>1, <2>2, <2>4
  <2>5. CASE ~(i <= Len(s)) /\ j <= Len(s) BY <1>2, <1>4, <2>1, <2>2, <2>5
  <2>6. CASE ~(i <= Len(s)) /\ ~(j <= Len(s))
    <3>1. i - Len(s) = j - Len(s) BY <1>2, <1>4, <2>2, <2>6 DEF Registry!IsInjective
    <3> QED BY <1>1, <2>2, <3>1
  <2> QED BY <2>3, <2>4, <2>5, <2>6
<1> QED BY <1>3, <1>4 DEF Registry!IsInjective

\* The empty sequence holds nothing.
LEMMA RangeNone == Registry!ToSet(<<>>) = {} /\ Registry!IsInjective(<<>>)
BY DEF Registry!ToSet, Registry!IsInjective

\* Nothing is recorded at first.
LEMMA RegistryInitial == Registry!Init => RegistryInv
<1> SUFFICES ASSUME Registry!Init PROVE RegistryInv
  OBVIOUS
<1>1. RegistryTyped BY DEF Registry!Init, RegistryTyped
<1>2. Registry!EachMetricOnce
   BY RangeNone DEF Registry!Init, Registry!EachMetricOnce
<1> QED BY <1>1, <1>2 DEF RegistryInv

\* A metric moves from one place to the next with nothing lost and nothing left behind.
LEMMA RegistryStepPreserves == RegistryInv /\ Registry!Next => RegistryInv'
<1> SUFFICES ASSUME RegistryInv, Registry!Next PROVE RegistryInv'
  OBVIOUS
<1> USE DEF RegistryInv
<1>1. ASSUME NEW t \in Registry!Threads, Registry!Record(t) PROVE RegistryInv'
  <2>1. RegistryTyped' BY <1>1 DEF RegistryTyped, Registry!Record
  <2>2. Registry!EachMetricOnce' BY <1>1 DEF Registry!Record, Registry!EachMetricOnce
  <2> QED BY <2>1, <2>2
<1>2. CASE Registry!runFlusher
  <2>1. RegistryTyped' BY <1>2 DEF RegistryTyped, Registry!runFlusher
  <2>2. Registry!EachMetricOnce' BY <1>2 DEF Registry!runFlusher, Registry!EachMetricOnce
  <2> QED BY <2>1, <2>2
<1>3. ASSUME NEW t \in Registry!Threads, Registry!take(t) PROVE RegistryInv'
  <2>1. RegistryTyped' BY <1>3 DEF RegistryTyped, Registry!take
  <2>2. flushing[t] = <<>> /\ flushing'[t] = buffer /\ buffer' = <<>> /\ UNCHANGED <<sent, recorded>>
        /\ \A u \in Registry!Threads \ {t} : flushing'[u] = flushing[u]
    BY <1>3 DEF RegistryTyped, Registry!take
  <2>3. Registry!EachMetricOnce' BY <2>2, RangeNone DEF Registry!EachMetricOnce
  <2> QED BY <2>1, <2>3
<1>4. ASSUME NEW t \in Registry!Threads, Registry!Flush(t) PROVE RegistryInv'
  <2>1. RegistryTyped' BY <1>4 DEF RegistryTyped, Registry!Flush
  <2>2. flushing'[t] = <<>> /\ sent' = sent \o flushing[t] /\ UNCHANGED <<buffer, recorded>>
        /\ \A u \in Registry!Threads \ {t} : flushing'[u] = flushing[u]
    BY <1>4 DEF RegistryTyped, Registry!Flush
  <2>4. Registry!ToSet(sent') = Registry!ToSet(sent) \cup Registry!ToSet(flushing[t])
      /\ Registry!IsInjective(sent')
    BY <2>2, RangeConcat DEF Registry!EachMetricOnce, RegistryTyped
  <2>3. Registry!EachMetricOnce'
    <3> DEFINE In(u) == Registry!ToSet(flushing[u])
    <3>1. In(t)' = {} /\ \A u \in Registry!Threads \ {t} : In(u)' = In(u)
      BY <2>2, RangeNone
    <3>2. UNION {In(u) : u \in Registry!Threads} = In(t) \cup UNION {In(u)' : u \in Registry!Threads}
      <4> HIDE DEF In
      <4> QED BY <3>1
    <3>3. \A u \in Registry!Threads : Registry!IsInjective(flushing[u])'
      BY <2>2, RangeNone DEF Registry!EachMetricOnce
    <3>4. UNION {In(u) : u \in Registry!Threads} = UNION {Registry!ToSet(flushing[u]) : u \in Registry!Threads}
      OBVIOUS
    <3>5. Registry!ToSet(sent') \cup Registry!ToSet(buffer') \cup UNION {In(u)' : u \in Registry!Threads} = 1..recorded'
      BY <2>2, <2>4, <3>2 DEF Registry!EachMetricOnce
    <3>6. \A u \in Registry!Threads : In(u)' \cap (Registry!ToSet(sent') \cup Registry!ToSet(buffer')) = {}
      BY <2>2, <2>4, <3>1 DEF Registry!EachMetricOnce
    <3>7. \A u \in Registry!Threads : \A v \in Registry!Threads \ {u} : In(u)' \cap In(v)' = {}
      BY <3>1 DEF Registry!EachMetricOnce
    <3>8. Registry!ToSet(sent') \cap Registry!ToSet(buffer') = {} /\ Registry!IsInjective(buffer')
      BY <2>2, <2>4 DEF Registry!EachMetricOnce
    <3> QED BY <2>4, <3>3, <3>5, <3>6, <3>7, <3>8 DEF Registry!EachMetricOnce
  <2> QED BY <2>1, <2>3
<1>5. ASSUME NEW t \in Registry!Threads, Registry!addEntry(t) PROVE RegistryInv'
  <2>1. RegistryTyped' BY <1>5 DEF RegistryTyped, Registry!addEntry
  <2>2. recorded' = recorded + 1 /\ buffer' = Append(buffer, recorded + 1) /\ UNCHANGED <<sent, flushing>>
    BY <1>5 DEF Registry!addEntry
  <2>5. recorded + 1 \notin 1..recorded /\ 1..(recorded + 1) = (1..recorded) \cup {recorded + 1}
    BY DEF RegistryTyped
  <2>6. recorded + 1 \notin Registry!ToSet(buffer)
    BY <2>5 DEF Registry!EachMetricOnce
  <2>4. Registry!ToSet(buffer') = Registry!ToSet(buffer) \cup {recorded + 1}
      /\ Registry!IsInjective(buffer')
    <3>1. recorded + 1 \in Nat /\ buffer \in Seq(Nat) /\ Registry!IsInjective(buffer)
      BY DEF Registry!EachMetricOnce, RegistryTyped
    <3> QED BY <2>2, <2>6, <3>1, RangeAppend
  <2>7. recorded + 1 \notin Registry!ToSet(sent) /\ \A u \in Registry!Threads : recorded + 1 \notin Registry!ToSet(flushing[u])
    BY <2>5 DEF Registry!EachMetricOnce
  <2>8. Registry!ToSet(sent') \cup Registry!ToSet(buffer')
          \cup UNION {Registry!ToSet(flushing'[u]) : u \in Registry!Threads} = 1..recorded'
    BY <2>2, <2>4, <2>5 DEF Registry!EachMetricOnce
  <2>3. Registry!EachMetricOnce' BY <2>2, <2>4, <2>7, <2>8 DEF Registry!EachMetricOnce
  <2> QED BY <2>1, <2>3
<1> QED BY <1>1, <1>2, <1>3, <1>4, <1>5 DEF Registry!Next

\* A step of another component changes none of it.
LEMMA RegistryStutters == RegistryInv /\ UNCHANGED registryVars => RegistryInv'
BY DEF RegistryInv, RegistryTyped, Registry!EachMetricOnce, registryVars

\* A metric that was recorded is in the buffer, with one goroutine that flushes, or sent, and
\* it is there once: for any number of recorders and metrics (MetricRegistry).
THEOREM MetricsAreKeptOnce == AgentSpec => []EachMetricOnce
<1>1. AgentInit => RegistryInv BY RegistryInitial DEF AgentInit
<1>2. RegistryInv /\ [AgentNext]_allVars => RegistryInv'
  BY OneComponentMoves, RegistryStepPreserves, RegistryStutters
<1>3. RegistryInv => EachMetricOnce BY DEF RegistryInv, EachMetricOnce
<1> QED BY <1>1, <1>2, <1>3, PTL DEF AgentSpec

-----------------------------------------------------------------------------
(* The workload credentials                                                *)

\* Where a refresh is that has yet to publish its directory.
Unpublished == {"certs", "bundle", "files", "rest", "temp", "remove", "rename"}
\* Where it is when its directory is complete.
Written == {"temp", "remove", "rename"}

WorkloadTyped ==
    /\ refreshPc \in [Workload!Loops -> {"idle", "clean", "old"} \cup Unpublished]
    /\ newTarget \in [Workload!Loops -> Workload!Dirs \cup {0}]
    /\ oldTarget \in [Workload!Loops -> Workload!Dirs \cup {0}]
    /\ dirs \in [Workload!Dirs -> {"absent", "status", "part", "whole"}]
    /\ link \in Workload!Dirs \cup {0}
    /\ begun \in 0..MaxRefreshes /\ second \in 0..begun /\ shared \subseteq Workload!Dirs

\* A directory that is still to be published, and is that of one refresh, is not that of
\* another loop, and no link leads to it or has led to it; one that is to be removed is not
\* published.
OneDirectoryEach ==
    /\ link <= second
    /\ \A l \in Workload!Loops :
         /\ newTarget[l] <= second /\ oldTarget[l] <= second
         /\ refreshPc[l] \in Unpublished => newTarget[l] \in Workload!Dirs
         /\ refreshPc[l] \in Unpublished /\ newTarget[l] \notin shared =>
              /\ newTarget[l] # link
              /\ \A k \in Workload!Loops : /\ oldTarget[k] # newTarget[l]
                                           /\ k # l => newTarget[k] # newTarget[l]
         /\ refreshPc[l] \in Written /\ newTarget[l] \notin shared => dirs[newTarget[l]] = "whole"
         /\ refreshPc[l] = "old" => /\ oldTarget[l] \in Workload!Dirs
                                    /\ oldTarget[l] \notin shared => oldTarget[l] # link

\* Inductive, with the gRPC service: the directories that are not published are separate.
WorkloadInv ==
    grpcService => WorkloadTyped /\ OneDirectoryEach /\ Workload!LinkLeadsToCredentials

\* Nothing is published at first.
LEMMA WorkloadInitial == Workload!Init => WorkloadInv
BY RefreshesAssumption DEF Workload!Init, WorkloadInv, WorkloadTyped, OneDirectoryEach, Workload!LinkLeadsToCredentials,
  Unpublished, Written

\* Two refresh loops that overlap write, publish and clean up different directories.
LEMMA WorkloadStepPreserves == WorkloadInv /\ Workload!Next => WorkloadInv'
<1> SUFFICES ASSUME WorkloadInv, Workload!Next, grpcService, grpcService' = grpcService PROVE WorkloadInv'
  BY DEF Workload!Next, WorkloadInv
<1>0. WorkloadTyped /\ OneDirectoryEach /\ Workload!LinkLeadsToCredentials BY DEF WorkloadInv
<1> DEFINE Same == UNCHANGED <<refreshPc, newTarget, oldTarget, dirs, link, begun, second, shared>>
<1>1. ASSUME Same PROVE WorkloadInv'
  BY <1>0, <1>1 DEF WorkloadTyped, OneDirectoryEach, Workload!LinkLeadsToCredentials, WorkloadInv
<1>2. CASE Workload!changeIdentity BY <1>1, <1>2 DEF Workload!changeIdentity, Workload!disk, Workload!names
<1>3. ASSUME NEW l \in Workload!Loops, Workload!Start(l) PROVE WorkloadInv'
  BY <1>1, <1>3 DEF Workload!Start, Workload!disk, Workload!names
<1>4. ASSUME NEW l \in Workload!Loops, Workload!Stop(l) PROVE WorkloadInv'
  BY <1>1, <1>4 DEF Workload!Stop, Workload!disk, Workload!names
<1>5. ASSUME NEW l \in Workload!Loops, Workload!loopEnds(l) PROVE WorkloadInv'
  BY <1>1, <1>5 DEF Workload!loopEnds, Workload!disk, Workload!names
<1>6. ASSUME NEW l \in Workload!Loops, Workload!watchIdentity(l) PROVE WorkloadInv'
  BY <1>1, <1>6 DEF Workload!watchIdentity, Workload!disk, Workload!names
<1> USE DEF WorkloadInv
<1>7. ASSUME NEW l \in Workload!Loops, Workload!runRefresher(l) PROVE WorkloadInv'
  <2>1. WorkloadTyped'
    BY <1>0, <1>7, RefreshesAssumption DEF Workload!runRefresher, Workload!disk, WorkloadTyped, Unpublished, Workload!Dirs
  <2>2. OneDirectoryEach'
    BY <1>0, <1>7, RefreshesAssumption DEF Workload!runRefresher, Workload!disk, WorkloadTyped, OneDirectoryEach, Unpublished, Written, Workload!Dirs
  <2>3. Workload!LinkLeadsToCredentials'
    BY <1>0, <1>7 DEF Workload!runRefresher, Workload!disk, Workload!LinkLeadsToCredentials
  <2> QED BY <2>1, <2>2, <2>3
<1>8. ASSUME NEW l \in Workload!Loops, Workload!refreshFails(l) PROVE WorkloadInv'
  BY <1>0, <1>8 DEF Workload!refreshFails, Workload!disk, Workload!names, Workload!goto, WorkloadTyped, OneDirectoryEach, Unpublished, Written, Workload!LinkLeadsToCredentials
<1>9. ASSUME NEW l \in Workload!Loops, Workload!refreshCredsWithGRPC(l) PROVE WorkloadInv'
  <2>1. WorkloadTyped'
    BY <1>0, <1>9 DEF Workload!refreshCredsWithGRPC, Workload!names, Workload!goto, WorkloadTyped, Unpublished
  <2>2. OneDirectoryEach'
    BY <1>0, <1>9 DEF Workload!refreshCredsWithGRPC, Workload!names, Workload!goto, WorkloadTyped, OneDirectoryEach, Unpublished, Written
  <2>3. Workload!LinkLeadsToCredentials'
    BY <1>0, <1>9 DEF Workload!refreshCredsWithGRPC, Workload!names, Workload!goto, WorkloadTyped, OneDirectoryEach, Unpublished, Workload!LinkLeadsToCredentials
  <2> QED BY <2>1, <2>2, <2>3
<1>10. ASSUME NEW l \in Workload!Loops PROVE ~Workload!writeCredsFromMDS(l) /\ ~Workload!writeWorkloadIdentities(l) /\ ~Workload!writeTrustAnchors(l)
  BY <1>0 DEF WorkloadTyped, Unpublished, Workload!writeCredsFromMDS, Workload!writeWorkloadIdentities, Workload!writeTrustAnchors
<1>11. ASSUME NEW l \in Workload!Loops, Workload!rotate(l) PROVE WorkloadInv'
  <2>1. WorkloadTyped'
    BY <1>0, <1>11 DEF Workload!rotate, Workload!names, Workload!goto, WorkloadTyped, OneDirectoryEach, Unpublished
  <2>2. OneDirectoryEach'
    <3> USE DEF Workload!rotate, Workload!names, Workload!goto, WorkloadTyped, OneDirectoryEach, Unpublished, Written, Workload!Dirs
    <3>1. CASE refreshPc[l] = "temp" BY <1>0, <1>11, <3>1
    <3>2. CASE refreshPc[l] = "remove" BY <1>0, <1>11, <3>2
    <3>3. CASE refreshPc[l] = "rename" BY <1>0, <1>11, <3>3
    <3>4. CASE refreshPc[l] = "clean" BY <1>0, <1>11, <3>4
    <3>5. CASE refreshPc[l] = "old"
      <4>1. \A d \in Workload!Dirs : d # oldTarget[l] => dirs'[d] = dirs[d]
        BY <1>0, <1>11, <3>5
      <4>2. /\ refreshPc' = [refreshPc EXCEPT ![l] = "idle"]
            /\ UNCHANGED <<newTarget, oldTarget, link, second, shared>>
        BY <1>11, <3>5
      <4>3. \A k \in Workload!Loops :
              refreshPc'[k] \in Unpublished \cup {"old"} => k # l /\ refreshPc'[k] = refreshPc[k]
        BY <1>0, <4>2
      <4>4. \A k \in Workload!Loops : refreshPc'[k] \in Written /\ newTarget[k] \notin shared =>
                                       dirs'[newTarget[k]] = "whole"
        BY <1>0, <4>1, <4>3
      <4> QED BY <1>0, <4>2, <4>3, <4>4
    <3> QED BY <1>11, <3>1, <3>2, <3>3, <3>4, <3>5
  <2>3. Workload!LinkLeadsToCredentials'
    BY <1>0, <1>11 DEF Workload!rotate, Workload!names, Workload!goto, WorkloadTyped, OneDirectoryEach, Unpublished, Written, Workload!LinkLeadsToCredentials
  <2> QED BY <2>1, <2>2, <2>3
<1> QED BY <1>2, <1>3, <1>4, <1>5, <1>6, <1>7, <1>8, <1>9, <1>10, <1>11 DEF Workload!Next

\* A step of another component changes none of it.
LEMMA WorkloadStutters == WorkloadInv /\ UNCHANGED workloadVars => WorkloadInv'
BY DEF WorkloadInv, WorkloadTyped, OneDirectoryEach, Workload!LinkLeadsToCredentials, workloadVars

\* With the gRPC service, the published link never leads to a directory that is incomplete
\* or cleaned up, however the refreshes of two loops overlap and fail, unless two refreshes
\* that began in the same second wrote that directory (Mwlid).
THEOREM LinkIsSound == AgentSpec => []LinkLeadsToCredentials
<1>1. AgentInit => WorkloadInv BY WorkloadInitial DEF AgentInit
<1>2. WorkloadInv /\ [AgentNext]_allVars => WorkloadInv'
  BY OneComponentMoves, WorkloadStepPreserves, WorkloadStutters
<1>3. WorkloadInv => LinkLeadsToCredentials
  BY DEF WorkloadInv, LinkLeadsToCredentials, Workload!LinkLeadsToCredentials
<1> QED BY <1>1, <1>2, <1>3, PTL DEF AgentSpec

-----------------------------------------------------------------------------
(* The network telemetry plugin                                            *)

\* The batches a reporter may hold.
Batches == UNION {[D -> SUBSET Collectors] : D \in SUBSET Telemetry!Dues}

\* The results that may be in the channel.
Results == [name : Collectors, due : Telemetry!Dues]

\* A worker loop, its run, a collector and the reporter.
Loop == [pc : {"none", "config", "enter", "wait", "leave", "stopping", "returned", "failed", "ended"},
         cfg : [Collectors -> Int], want : [Collectors -> Int], cancelled : BOOLEAN]
Run == [pc : {"none", "connect", "collect", "done", "failed"}, cancelled : BOOLEAN,
        attempts : Int, clock : Telemetry!Dues]
Col == [pc : {"idle", "collect", "emit", "wait", "returned"}, due : Int, until : Int, tick : Int]
Rep == [pc : {"select", "enqueue", "closed"}, due : Int,
        pending : Batches, flushed : SUBSET Telemetry!Dues]

\* Where a worker, its run, its collectors and its reporter can be.
TelemetryTyped ==
    /\ run \in [Telemetry!Workers -> Run]
    /\ wk \in [Telemetry!Workers -> Loop]
    /\ col \in [Telemetry!Workers -> [Collectors -> Col]]
    /\ in \in [Telemetry!Workers -> Seq(Results)]
    /\ rep \in [Telemetry!Workers -> Rep]
    /\ reported \in [Telemetry!Workers -> [Telemetry!Dues -> 0 .. 1]]

\* A time that is a whole number of intervals.
OnGrid(t, i) == \E m \in Nat : t = m * i

\* A collector that has not returned waits for a tick of its grid that is not in the past;
\* one that collects has its due time behind it by no more than its timeout.
OnTime(w, c) ==
    col[w][c].pc # "returned" =>
        /\ wk[w].cfg[c] > 0
        /\ OnGrid(col[w][c].tick, wk[w].cfg[c])
        /\ run[w].clock <= col[w][c].tick
        /\ col[w][c].pc = "collect" =>
               /\ col[w][c].due \in Telemetry!Dues
               /\ col[w][c].due <= run[w].clock
               /\ run[w].clock <= col[w][c].until
               /\ col[w][c].until <= col[w][c].due + MaxRunTimeout
               /\ col[w][c].until < col[w][c].tick

\* A due time of which the reporter has seen a result.
Seen(w, d) == d \in DOMAIN rep[w].pending \/ reported[w][d] = 1

\* What comes later through the channel may be due earlier, by MaxRunTimeout at most.
InOrder(w) ==
    /\ \A x \in 1 .. Len(in[w]) : in[w][x].due <= run[w].clock
    /\ \A x, y \in 1 .. Len(in[w]) : x < y => in[w][x].due <= in[w][y].due + MaxRunTimeout
    /\ \A d \in Telemetry!Dues : Seen(w, d) =>
           /\ d <= run[w].clock
           /\ \A x \in 1 .. Len(in[w]) : d <= in[w][x].due + MaxRunTimeout

\* A batch that waits has not been reported, and one that was reported is remembered
\* unless no result of it can come any more.
Settled(w) ==
    \A d \in Telemetry!Dues :
        /\ d \in DOMAIN rep[w].pending => reported[w][d] = 0
        /\ reported[w][d] = 1 =>
               \/ d \in rep[w].flushed
               \/ /\ d + MaxRunTimeout < run[w].clock
                  /\ \A x \in 1 .. Len(in[w]) : d < in[w][x].due

\* A run that collects, on time.
Collecting(w) == (\A c \in Collectors : OnTime(w, c)) /\ InOrder(w) /\ Settled(w)

\* No collector is at work.
Quiet(w) == \A c \in Collectors : col[w][c].pc \in {"idle", "returned"}

\* Inductive while no collector stalls.
TelemetryInv ==
    /\ TelemetryTyped
    /\ \A w \in Telemetry!Workers :
           /\ run[w].pc = "connect" => run[w].clock = 0
           /\ wk[w].pc \in {"none", "config", "enter"} => run[w].pc = "none"
           /\ IF run[w].pc = "collect" THEN Collecting(w) ELSE Quiet(w)

\* The due time of a point of the grid is that point, and the next point is an interval later.
LEMMA GridPoint ==
  ASSUME NEW m \in Nat, NEW i \in Nat \ {0}
  PROVE  Telemetry!nominalDue(m * i, i) = m * i
<1>1. (m * i) \div i = m OBVIOUS
<1> QED BY <1>1 DEF Telemetry!nominalDue

\* The timeout of a run is shorter than its interval, and MaxRunTimeout at most.
LEMMA TimeoutIsShort ==
  ASSUME NEW i \in Nat \ {0}
  PROVE  /\ Telemetry!EffectiveTimeout(i) \in Nat
         /\ Telemetry!EffectiveTimeout(i) < i
         /\ Telemetry!EffectiveTimeout(i) <= MaxRunTimeout
<1>1. i \div 2 \in Nat /\ i \div 2 < i OBVIOUS
<1> QED BY <1>1, TelemetryAssumption DEF Telemetry!EffectiveTimeout

\* Every config gives every collector an interval.
LEMMA ConfigsTyped == \A e \in Telemetry!EffectiveConfigs : e.cfg \in [Collectors -> Int]
<1>1. ASSUME NEW b PROVE Telemetry!newPluginConfig(b) \in [Collectors -> Int]
  BY TelemetryAssumption DEF Telemetry!newPluginConfig
<1>2. ASSUME NEW base \in [Collectors -> Int]
      PROVE  Telemetry!ApplyCollectorOverrides(base) \in [Collectors -> Int]
  BY TelemetryAssumption DEF Telemetry!ApplyCollectorOverrides
<1>3. ASSUME NEW d, NEW f PROVE Telemetry!effectiveConfig(d, f).cfg \in [Collectors -> Int]
  BY <1>1, <1>2 DEF Telemetry!effectiveConfig
<1> QED BY <1>3 DEF Telemetry!EffectiveConfigs

\* The batches with one more.
LEMMA WithTyped ==
  ASSUME NEW f \in Batches, NEW d \in Telemetry!Dues, NEW v \in SUBSET Collectors
  PROVE  Telemetry!With(f, d, v) \in Batches /\ DOMAIN Telemetry!With(f, d, v) = DOMAIN f \cup {d}
<1>1. PICK D \in SUBSET Telemetry!Dues : f \in [D -> SUBSET Collectors] BY DEF Batches
<1>2. Telemetry!With(f, d, v) \in [D \cup {d} -> SUBSET Collectors] BY <1>1 DEF Telemetry!With
<1>3. D \cup {d} \in SUBSET Telemetry!Dues OBVIOUS
<1> QED BY <1>1, <1>2, <1>3 DEF Batches

\* The batches with one less.
LEMMA WithoutTyped ==
  ASSUME NEW f \in Batches, NEW d
  PROVE  Telemetry!Without(f, d) \in Batches /\ DOMAIN Telemetry!Without(f, d) = DOMAIN f \ {d}
<1>1. PICK D \in SUBSET Telemetry!Dues : f \in [D -> SUBSET Collectors] BY DEF Batches
<1>2. Telemetry!Without(f, d) \in [D \ {d} -> SUBSET Collectors] BY <1>1 DEF Telemetry!Without
<1>3. D \ {d} \in SUBSET Telemetry!Dues OBVIOUS
<1> QED BY <1>1, <1>2, <1>3 DEF Batches

\* No batches at all.
LEMMA NoBatches == [d \in {} |-> {}] \in Batches /\ DOMAIN [d \in {} |-> {}] = {}
<1>1. [d \in {} |-> {}] \in [{} -> SUBSET Collectors] OBVIOUS
<1> QED BY <1>1 DEF Batches

\* The results of a channel are due at a time of the run.
LEMMA ChannelTyped ==
  ASSUME TelemetryTyped, NEW w \in Telemetry!Workers
  PROVE  /\ in[w] \in Seq(Results) /\ Len(in[w]) \in Nat
         /\ \A x \in 1 .. Len(in[w]) :
                in[w][x] \in Results /\ in[w][x].due \in Telemetry!Dues /\ in[w][x].due \in Int
<1>1. in[w] \in Seq(Results) BY DEF TelemetryTyped
<1>2. \A x \in 1 .. Len(in[w]) : in[w][x] \in Results BY <1>1
<1> QED BY <1>1, <1>2 DEF Results, Telemetry!Dues

\* At first nothing runs.
LEMMA TelemetryInitial == Telemetry!Init => TelemetryInv
<1> SUFFICES ASSUME Telemetry!Init PROVE TelemetryInv OBVIOUS
<1>1. 0 \in Telemetry!Dues BY TelemetryAssumption DEF Telemetry!Dues
<1>2. run \in [Telemetry!Workers -> Run]
  BY <1>1 DEF Telemetry!Init, Telemetry!NewRun, Run
<1>3. wk \in [Telemetry!Workers -> Loop]
  BY DEF Telemetry!Init, Telemetry!NoConfig, Telemetry!newPluginConfig, Loop
<1>4. col \in [Telemetry!Workers -> [Collectors -> Col]]
  BY DEF Telemetry!Init, Telemetry!Idle, Telemetry!NoDue, Col
<1>5. in \in [Telemetry!Workers -> Seq(Results)] BY DEF Telemetry!Init
<1>6. rep \in [Telemetry!Workers -> Rep]
  BY NoBatches DEF Telemetry!Init, Telemetry!NewReporter, Telemetry!NoDue, Rep
<1>7. reported \in [Telemetry!Workers -> [Telemetry!Dues -> 0 .. 1]] BY DEF Telemetry!Init
<1>8. \A w \in Telemetry!Workers : run[w].pc = "none" /\ wk[w].pc = "none"
  BY DEF Telemetry!Init, Telemetry!NewRun
<1>9. \A w \in Telemetry!Workers : Quiet(w) BY DEF Telemetry!Init, Telemetry!Idle, Quiet
<1> QED BY <1>9, <1>2, <1>3, <1>4, <1>5, <1>6, <1>7, <1>8 DEF TelemetryInv, TelemetryTyped

\* What Collecting says of a worker depends on these of its variables only.
LEMMA CollectingFrame ==
  ASSUME NEW v, Collecting(v), run'[v].clock = run[v].clock, wk'[v].cfg = wk[v].cfg,
         col'[v] = col[v], in'[v] = in[v], rep'[v].pending = rep[v].pending,
         rep'[v].flushed = rep[v].flushed, reported'[v] = reported[v]
  PROVE  Collecting(v)'
<1>1. \A c \in Collectors : OnTime(v, c)' BY DEF Collecting, OnTime
<1>2. InOrder(v)' BY DEF Collecting, InOrder, Seen
<1>3. Settled(v)' BY DEF Collecting, Settled
<1> QED BY <1>1, <1>2, <1>3 DEF Collecting

\* A step of the loop of a worker, or of the server: of a run it changes only whether it is
\* cancelled, and the config only when nothing runs.
LEMMA WorkerPreserves ==
  ASSUME TelemetryInv, UNCHANGED <<col, in, rep, reported>>,
         NEW w \in Telemetry!Workers, NEW wk1, NEW run1,
         wk' = [wk EXCEPT ![w] = wk1], run' = [run EXCEPT ![w] = run1],
         wk1 \in Loop,
         run1 \in Run,
         run1.pc = "connect" => run1.clock = 0,
         wk1.pc \in {"none", "config", "enter"} => run1.pc = "none",
         run1.pc = "collect" => /\ run[w].pc = "collect" /\ run1.clock = run[w].clock
                                /\ wk1.cfg = wk[w].cfg,
         run1.pc # "collect" => Quiet(w)
  PROVE  TelemetryInv'
<1>1. TelemetryTyped' BY DEF TelemetryInv, TelemetryTyped
<1>2. ASSUME NEW v \in Telemetry!Workers
      PROVE  /\ run'[v].pc = "connect" => run'[v].clock = 0
             /\ wk'[v].pc \in {"none", "config", "enter"} => run'[v].pc = "none"
             /\ run'[v].pc # "collect" => Quiet(v)
             /\ run'[v].pc = "collect" => run[v].pc = "collect" /\ run'[v].clock = run[v].clock /\ wk'[v].cfg = wk[v].cfg
  <2>1. CASE v = w BY <2>1 DEF TelemetryInv, TelemetryTyped
  <2>2. CASE v # w BY <2>2 DEF TelemetryInv, TelemetryTyped
  <2> QED BY <2>1, <2>2
<1>3. ASSUME NEW v \in Telemetry!Workers, run'[v].pc = "collect" PROVE Collecting(v)'
  <2>1. Collecting(v) BY <1>2, <1>3 DEF TelemetryInv
  <2> QED BY <1>2, <1>3, <2>1, CollectingFrame
<1>4. ASSUME NEW v \in Telemetry!Workers, run'[v].pc # "collect" PROVE Quiet(v)'
  BY <1>2, <1>4 DEF Quiet
<1> QED BY <1>1, <1>2, <1>3, <1>4 DEF TelemetryInv

\* start, and the requests of the server.
LEMMA WorkerStepPreserves ==
  ASSUME TelemetryInv, NEW w \in Telemetry!Workers,
         \/ Telemetry!Start(w) \/ Telemetry!workerReturns(w) \/ Telemetry!workerFailed(w)
         \/ Telemetry!readConfig(w) \/ Telemetry!enterPeriod(w) \/ Telemetry!refresh(w)
         \/ Telemetry!leavePeriod(w) \/ Telemetry!endPeriod(w) \/ Telemetry!awaitRun(w)
         \/ Telemetry!runReturns(w)
  PROVE  TelemetryInv'
<1>t. wk[w] \in Loop /\ run[w] \in Run BY DEF TelemetryInv, TelemetryTyped
<1>z. 0 \in Telemetry!Dues BY TelemetryAssumption DEF Telemetry!Dues
<1>i. /\ run[w].pc = "connect" => run[w].clock = 0
      /\ wk[w].pc \in {"none", "config", "enter"} => run[w].pc = "none"
      /\ run[w].pc # "collect" => Quiet(w)
  BY DEF TelemetryInv
<1>s. run = [run EXCEPT ![w] = run[w]] /\ wk = [wk EXCEPT ![w] = wk[w]]
  BY DEF TelemetryInv, TelemetryTyped
<1>p. ASSUME NEW p \in {"wait", "leave", "stopping", "returned", "failed", "ended"},
             wk' = [wk EXCEPT ![w].pc = p], UNCHANGED <<run, col, in, rep, reported>>
      PROVE  TelemetryInv'
  <2> DEFINE wk1 == [wk[w] EXCEPT !.pc = p]
  <2>1. wk' = [wk EXCEPT ![w] = wk1] /\ run' = [run EXCEPT ![w] = run[w]] BY <1>p, <1>s
  <2>2. wk1 \in Loop /\ wk1.pc = p /\ wk1.cfg = wk[w].cfg BY <1>t DEF Loop, Run, Col
  <2>3. wk1.pc \notin {"none", "config", "enter"} BY <2>2
  <2>4. UNCHANGED <<col, in, rep, reported>> BY <1>p
  <2> HIDE DEF wk1
  <2> QED BY <2>1, <2>2, <2>3, <2>4, <1>t, <1>i, WorkerPreserves
<1>1. CASE Telemetry!Start(w)
  <2> DEFINE wk1 == [wk[w] EXCEPT !.pc = "config"]
  <2>1. wk' = [wk EXCEPT ![w] = wk1] /\ run' = [run EXCEPT ![w] = run[w]]
    BY <1>1, <1>s DEF Telemetry!Start
  <2>2. wk1 \in Loop /\ wk1.pc = "config" /\ wk1.cfg = wk[w].cfg BY <1>t DEF Loop, Run, Col
  <2>3. run[w].pc = "none" /\ Quiet(w) BY <1>1, <1>i DEF Telemetry!Start
  <2>4. UNCHANGED <<col, in, rep, reported>> BY <1>1 DEF Telemetry!Start, Telemetry!pipeline
  <2> HIDE DEF wk1
  <2> QED BY <2>1, <2>2, <2>3, <2>4, <1>t, <1>i, WorkerPreserves
<1>2. CASE Telemetry!workerReturns(w)
  BY <1>2, <1>p DEF Telemetry!workerReturns, Telemetry!pipeline
<1>3. CASE Telemetry!workerFailed(w)
  BY <1>3, <1>p DEF Telemetry!workerFailed, Telemetry!pipeline
<1>4. CASE Telemetry!readConfig(w)
  <2>1. PICK e \in Telemetry!EffectiveConfigs : wk' = [wk EXCEPT ![w].pc = "enter", ![w].cfg = e.cfg]
    BY <1>4 DEF Telemetry!readConfig
  <2> DEFINE wk1 == [wk[w] EXCEPT !.pc = "enter", !.cfg = e.cfg]
  <2>2. wk' = [wk EXCEPT ![w] = wk1] BY <2>1, <1>t DEF TelemetryInv, TelemetryTyped
  <2>3. wk1 \in Loop /\ wk1.pc = "enter" BY <1>t, ConfigsTyped DEF Loop, Run, Col
  <2>4. run' = [run EXCEPT ![w] = run[w]] BY <1>4, <1>s DEF Telemetry!readConfig
  <2>5. run[w].pc = "none" /\ Quiet(w) BY <1>4, <1>i DEF Telemetry!readConfig
  <2>6. UNCHANGED <<col, in, rep, reported>> BY <1>4 DEF Telemetry!readConfig, Telemetry!pipeline
  <2> HIDE DEF wk1
  <2> QED BY <2>2, <2>3, <2>4, <2>5, <2>6, <1>t, WorkerPreserves
<1>5. CASE Telemetry!enterPeriod(w)
  <2> DEFINE wk1 == [wk[w] EXCEPT !.pc = "wait", !.want = wk[w].cfg]
             run1 == [pc |-> IF Telemetry!anyEnabled(wk[w].cfg) THEN "connect" ELSE "none",
                      cancelled |-> wk[w].cancelled, attempts |-> 0, clock |-> 0]
  <2>1. wk' = [wk EXCEPT ![w] = wk1] BY <1>5, <1>t DEF Telemetry!enterPeriod, TelemetryInv, TelemetryTyped
  <2>2. wk1 \in Loop /\ wk1.pc = "wait" BY <1>t DEF Loop, Run, Col
  <2>3. run' = [run EXCEPT ![w] = run1] BY <1>5 DEF Telemetry!enterPeriod
  <2>p. wk[w].cancelled \in BOOLEAN BY <1>t DEF Loop
  <2>4. run1 \in Run /\ run1.pc # "collect" /\ run1.clock = 0 BY <2>p, <1>z DEF Loop, Run, Col
  <2>5. Quiet(w) BY <1>5, <1>i DEF Telemetry!enterPeriod
  <2>6. UNCHANGED <<col, in, rep, reported>> BY <1>5 DEF Telemetry!enterPeriod, Telemetry!pipeline
  <2> HIDE DEF wk1, run1
  <2> QED BY <2>1, <2>2, <2>3, <2>4, <2>5, <2>6, WorkerPreserves
<1>6. CASE Telemetry!refresh(w)
  <2>1. PICK e \in Telemetry!EffectiveConfigs : wk' = [wk EXCEPT ![w].want = e.cfg, ![w].pc = "leave"]
    BY <1>6 DEF Telemetry!refresh
  <2> DEFINE wk1 == [wk[w] EXCEPT !.want = e.cfg, !.pc = "leave"]
             run1 == [run[w] EXCEPT !.cancelled = TRUE]
  <2>2. wk' = [wk EXCEPT ![w] = wk1] BY <2>1, <1>t DEF TelemetryInv, TelemetryTyped
  <2>3. wk1 \in Loop /\ wk1.pc = "leave" /\ wk1.cfg = wk[w].cfg BY <1>t, ConfigsTyped DEF Loop, Run, Col
  <2>4. run' = [run EXCEPT ![w] = run1] BY <1>6 DEF Telemetry!refresh
  <2>5. run1 \in Run /\ run1.pc = run[w].pc /\ run1.clock = run[w].clock BY <1>t DEF Loop, Run, Col
  <2>6. UNCHANGED <<col, in, rep, reported>> BY <1>6 DEF Telemetry!refresh, Telemetry!pipeline
  <2> HIDE DEF wk1, run1
  <2> QED BY <2>2, <2>3, <2>4, <2>5, <2>6, <1>i, WorkerPreserves
<1>7. CASE Telemetry!leavePeriod(w)
  <2> DEFINE wk1 == [wk[w] EXCEPT !.pc = "enter", !.cfg = wk[w].want]
  <2>1. wk' = [wk EXCEPT ![w] = wk1] BY <1>7, <1>t DEF Telemetry!leavePeriod, TelemetryInv, TelemetryTyped
  <2>2. wk1 \in Loop /\ wk1.pc = "enter" BY <1>t DEF Loop, Run, Col
  <2>3. run' = [run EXCEPT ![w] = Telemetry!NewRun] BY <1>7 DEF Telemetry!leavePeriod
  <2>4. Telemetry!NewRun \in Run /\ Telemetry!NewRun.pc = "none" BY <1>z DEF Telemetry!NewRun, Loop, Run, Col
  <2>5. Quiet(w) BY <1>7, <1>i DEF Telemetry!leavePeriod
  <2>6. UNCHANGED <<col, in, rep, reported>> BY <1>7 DEF Telemetry!leavePeriod, Telemetry!pipeline
  <2> HIDE DEF wk1
  <2> QED BY <2>1, <2>2, <2>3, <2>4, <2>5, <2>6, WorkerPreserves
<1>8. CASE Telemetry!endPeriod(w)
  BY <1>8, <1>p DEF Telemetry!endPeriod, Telemetry!pipeline
<1>9. CASE Telemetry!awaitRun(w)
  BY <1>9, <1>p DEF Telemetry!awaitRun, Telemetry!pipeline
<1>10. CASE Telemetry!runReturns(w)
  <2> DEFINE run1 == [run[w] EXCEPT !.pc = "done"]
  <2>1. run' = [run EXCEPT ![w] = run1] /\ wk' = [wk EXCEPT ![w] = wk[w]]
    BY <1>10, <1>s DEF Telemetry!runReturns
  <2>2. run1 \in Run /\ run1.pc = "done" BY <1>t DEF Loop, Run, Col
  <2>3. run[w].pc # "none" /\ Quiet(w) BY <1>10 DEF Telemetry!runReturns, Quiet
  <2>6. UNCHANGED <<col, in, rep, reported>> BY <1>10 DEF Telemetry!runReturns, Telemetry!pipeline
  <2> HIDE DEF run1
  <2> QED BY <2>1, <2>2, <2>3, <2>6, <1>t, <1>i, WorkerPreserves
<1> QED BY <1>1, <1>2, <1>3, <1>4, <1>5, <1>6, <1>7, <1>8, <1>9, <1>10

\* Stop cancels the worker whose cancel function the server holds.
LEMMA StopPreserves == TelemetryInv /\ Telemetry!Stop => TelemetryInv'
<1> SUFFICES ASSUME TelemetryInv, Telemetry!Stop PROVE TelemetryInv' OBVIOUS
<1>a. run' \in [Telemetry!Workers -> Run]
  <2>1. \A v \in Telemetry!Workers : run'[v] = [run[v] EXCEPT !.cancelled = TRUE] \/ run'[v] = run[v]
    BY DEF TelemetryInv, TelemetryTyped, Telemetry!Stop
  <2>2. ASSUME NEW v \in Telemetry!Workers
        PROVE  run'[v] \in Run
    <3>1. run[v] \in Run
      BY DEF TelemetryInv, TelemetryTyped
    <3>2. CASE run'[v] = run[v] BY <3>1, <3>2
    <3>3. CASE run'[v] = [run[v] EXCEPT !.cancelled = TRUE] BY <3>1, <3>3 DEF Run
    <3> QED BY <2>1, <3>2, <3>3
  <2>3. run' = [v \in Telemetry!Workers |-> run'[v]] BY DEF TelemetryInv, TelemetryTyped, Telemetry!Stop
  <2> QED BY <2>2, <2>3
<1>b. wk' \in [Telemetry!Workers -> Loop]
  <2>1. \A v \in Telemetry!Workers : wk'[v] = [wk[v] EXCEPT !.cancelled = TRUE] \/ wk'[v] = wk[v]
    BY DEF TelemetryInv, TelemetryTyped, Telemetry!Stop
  <2>2. ASSUME NEW v \in Telemetry!Workers PROVE wk'[v] \in Loop
    <3>1. wk[v] \in Loop BY DEF TelemetryInv, TelemetryTyped
    <3>2. CASE wk'[v] = wk[v] BY <3>1, <3>2
    <3>3. CASE wk'[v] = [wk[v] EXCEPT !.cancelled = TRUE] BY <3>1, <3>3 DEF Loop
    <3> QED BY <2>1, <3>2, <3>3
  <2>3. wk' = [v \in Telemetry!Workers |-> wk'[v]] BY DEF TelemetryInv, TelemetryTyped, Telemetry!Stop
  <2> QED BY <2>2, <2>3
<1>1. TelemetryTyped' BY <1>a, <1>b DEF TelemetryInv, TelemetryTyped, Telemetry!Stop, Telemetry!pipeline
<1>2. ASSUME NEW v \in Telemetry!Workers
      PROVE  /\ run'[v].pc = run[v].pc /\ run'[v].clock = run[v].clock
             /\ wk'[v].pc = wk[v].pc /\ wk'[v].cfg = wk[v].cfg
  BY DEF TelemetryInv, TelemetryTyped, Telemetry!Stop, Run, Loop
<1>3. ASSUME NEW v \in Telemetry!Workers, run'[v].pc = "collect" PROVE Collecting(v)'
  <2>1. Collecting(v) BY <1>2, <1>3 DEF TelemetryInv
  <2> QED BY <1>2, <2>1, CollectingFrame DEF Telemetry!Stop, Telemetry!pipeline
<1>4. ASSUME NEW v \in Telemetry!Workers, run'[v].pc # "collect" PROVE Quiet(v)'
  BY <1>2, <1>4 DEF TelemetryInv, Quiet, Telemetry!Stop, Telemetry!pipeline
<1> QED BY <1>1, <1>2, <1>3, <1>4 DEF TelemetryInv

\* A step of the run of worker w: the runs of the others are as they were.
LEMMA RunPreserves ==
  ASSUME TelemetryInv, NEW w \in Telemetry!Workers, TelemetryTyped', wk' = wk,
         \A v \in Telemetry!Workers \ {w} :
             /\ run'[v] = run[v] /\ col'[v] = col[v] /\ in'[v] = in[v]
             /\ rep'[v] = rep[v] /\ reported'[v] = reported[v],
         run'[w].pc = "connect" => run'[w].clock = 0, run[w].pc # "none",
         IF run'[w].pc = "collect" THEN Collecting(w)' ELSE Quiet(w)'
  PROVE  TelemetryInv'
<1>1. ASSUME NEW v \in Telemetry!Workers, v # w, run'[v].pc = "collect" PROVE Collecting(v)'
  <2>1. Collecting(v) BY <1>1 DEF TelemetryInv
  <2> QED BY <1>1, <2>1, CollectingFrame
<1>2. ASSUME NEW v \in Telemetry!Workers, v # w, run'[v].pc # "collect" PROVE Quiet(v)'
  BY <1>2 DEF TelemetryInv, Quiet
<1> QED BY <1>1, <1>2 DEF TelemetryInv

\* A run begins: everything of it is new, and the collectors are at their first due time.
LEMMA ConnectPreserves ==
  ASSUME TelemetryInv, NEW w \in Telemetry!Workers, Telemetry!connect(w) PROVE TelemetryInv'
<1>z. 0 \in Telemetry!Dues /\ MaxRunTimeout \in Nat BY TelemetryAssumption DEF Telemetry!Dues
<1>c. run[w].pc = "connect" /\ run[w].clock = 0 /\ wk' = wk BY DEF TelemetryInv, Telemetry!connect
<1>w. wk[w].cfg \in [Collectors -> Int] BY DEF TelemetryInv, TelemetryTyped, Loop
<1>1. CASE /\ run' = [run EXCEPT ![w].pc = "collect"]
           /\ col' = [col EXCEPT ![w] = [c \in Collectors |->
                        LET interval == wk[w].cfg[c]
                        IN  IF interval > 0
                            THEN [pc |-> "collect", due |-> 0, until |-> Telemetry!EffectiveTimeout(interval),
                                  tick |-> interval]
                            ELSE [Telemetry!Idle EXCEPT !.pc = "returned"]]]
           /\ in' = [in EXCEPT ![w] = <<>>]
           /\ rep' = [rep EXCEPT ![w] = Telemetry!NewReporter]
           /\ reported' = [reported EXCEPT ![w] = [d \in Telemetry!Dues |-> 0]]
  <2>1. ASSUME NEW c \in Collectors
        PROVE  \/ /\ wk[w].cfg[c] \in Nat \ {0}
                  /\ col'[w][c] = [pc |-> "collect", due |-> 0,
                                   until |-> Telemetry!EffectiveTimeout(wk[w].cfg[c]), tick |-> wk[w].cfg[c]]
               \/ col'[w][c] = [Telemetry!Idle EXCEPT !.pc = "returned"]
    BY <1>1, <1>w DEF TelemetryInv, TelemetryTyped
  <2>2. ASSUME NEW c \in Collectors PROVE col'[w][c] \in Col /\ OnTime(w, c)'
    <3>1. CASE /\ wk[w].cfg[c] \in Nat \ {0}
               /\ col'[w][c] = [pc |-> "collect", due |-> 0,
                                until |-> Telemetry!EffectiveTimeout(wk[w].cfg[c]), tick |-> wk[w].cfg[c]]
      <4> DEFINE i == wk[w].cfg[c]
      <4>1. Telemetry!EffectiveTimeout(i) \in Nat /\ Telemetry!EffectiveTimeout(i) < i /\ Telemetry!EffectiveTimeout(i) <= MaxRunTimeout
        BY <3>1, TimeoutIsShort
      <4>2. i = 1 * i /\ 1 \in Nat BY <3>1
      <4>3. run'[w].clock = 0 BY <1>1, <1>c DEF TelemetryInv, TelemetryTyped
      <4>4. /\ col'[w][c].pc = "collect" /\ col'[w][c].due = 0 /\ col'[w][c].tick = i
            /\ col'[w][c].until = Telemetry!EffectiveTimeout(i)
        BY <3>1
      <4>5. col'[w][c] \in Col BY <3>1, <4>1 DEF Loop, Run, Col
      <4>6. OnGrid(i, i) BY <4>2 DEF OnGrid
      <4> HIDE DEF i
      <4>7. i \in Nat /\ i > 0 BY <3>1 DEF i
      <4>8. wk'[w].cfg[c] = i BY <1>c DEF i
      <4>9. OnTime(w, c)' BY <4>1, <4>3, <4>4, <4>6, <4>7, <4>8, <1>z DEF OnTime
      <4> QED BY <4>5, <4>9
    <3>2. CASE col'[w][c] = [Telemetry!Idle EXCEPT !.pc = "returned"]
      BY <3>2 DEF OnTime, Telemetry!Idle, Telemetry!NoDue, Col
    <3> QED BY <2>1, <3>1, <3>2
  <2>3. /\ in'[w] = <<>> /\ rep'[w] = Telemetry!NewReporter /\ run'[w].clock = 0
        /\ \A d \in Telemetry!Dues : reported'[w][d] = 0
    BY <1>1, <1>c DEF TelemetryInv, TelemetryTyped
  <2>4. rep'[w].pending = [d \in {} |-> {}] BY <2>3 DEF Telemetry!NewReporter
  <2>5. \A d : d \notin DOMAIN rep'[w].pending BY <2>4, NoBatches
  <2>6. InOrder(w)' BY <2>3, <2>5 DEF InOrder, Seen
  <2>7. Settled(w)' BY <2>3, <2>5 DEF Settled
  <2>8. Collecting(w)' BY <2>2, <2>6, <2>7 DEF Collecting
  <2>9. col'[w] \in [Collectors -> Col]
    <3>1. col'[w] = [c \in Collectors |-> col'[w][c]] BY <1>1 DEF TelemetryInv, TelemetryTyped
    <3> QED BY <3>1, <2>2
  <2>10. Telemetry!NewReporter \in Rep
    BY NoBatches DEF Telemetry!NewReporter, Telemetry!NoDue, Rep
  <2>11. col' = [col EXCEPT ![w] = col'[w]] BY <1>1 DEF TelemetryInv, TelemetryTyped
  <2>12. TelemetryTyped'
    <3>1. col' \in [Telemetry!Workers -> [Collectors -> Col]] BY <2>9, <2>11 DEF TelemetryInv, TelemetryTyped
    <3>2. rep' \in [Telemetry!Workers -> Rep]
      BY <1>1, <2>10 DEF TelemetryInv, TelemetryTyped
    <3>3. reported' \in [Telemetry!Workers -> [Telemetry!Dues -> 0 .. 1]]
      BY <1>1 DEF TelemetryInv, TelemetryTyped
    <3>4. in' \in [Telemetry!Workers -> Seq(Results)] BY <1>1 DEF TelemetryInv, TelemetryTyped
    <3>5. run' \in [Telemetry!Workers -> Run]
      <4>1. [run[w] EXCEPT !.pc = "collect"] \in Run BY DEF TelemetryInv, TelemetryTyped, Run
      <4> QED BY <1>1, <4>1 DEF TelemetryInv, TelemetryTyped
    <3>6. wk' \in [Telemetry!Workers -> Loop]
      BY <1>c DEF TelemetryInv, TelemetryTyped
    <3> QED BY <3>1, <3>2, <3>3, <3>4, <3>5, <3>6 DEF TelemetryTyped
  <2>13. run'[w].pc = "collect" BY <1>1 DEF TelemetryInv, TelemetryTyped
  <2>14. \A v \in Telemetry!Workers \ {w} :
             /\ run'[v] = run[v] /\ col'[v] = col[v] /\ in'[v] = in[v]
             /\ rep'[v] = rep[v] /\ reported'[v] = reported[v]
    BY <1>1 DEF TelemetryInv, TelemetryTyped
  <2> QED BY <2>8, <2>12, <2>13, <2>14, <1>c, RunPreserves
<1>2. CASE /\ run' = [run EXCEPT ![w].attempts = @ + 1,
                                ![w].pc = IF run[w].attempts + 1 = ConnectAttempts \/ run[w].cancelled
                                          THEN "failed" ELSE @]
           /\ UNCHANGED <<col, in, rep, queue, reported>>
  <2>1. PICK p \in {"failed", "connect"} : run' = [run EXCEPT ![w].attempts = @ + 1, ![w].pc = p]
    BY <1>2, <1>c
  <2> DEFINE run0 == [run[w] EXCEPT !.attempts = @ + 1]
             run1 == [run0 EXCEPT !.pc = p]
  <2>0. run[w] \in Run BY DEF TelemetryInv, TelemetryTyped
  <2>2. run0 \in Run /\ run0.clock = 0 BY <2>0, <1>c DEF Run
  <2>3. run' = [run EXCEPT ![w] = run1] BY <2>1 DEF TelemetryInv, TelemetryTyped
  <2> HIDE DEF run0
  <2>4. run1 \in Run /\ run1.clock = 0 /\ run1.pc # "collect" /\ run1.pc # "none"
    BY <2>2 DEF Run
  <2> HIDE DEF run1
  <2>5. wk' = [wk EXCEPT ![w] = wk[w]] BY <1>c DEF TelemetryInv, TelemetryTyped
  <2>6. wk[w] \in Loop
    BY DEF TelemetryInv, TelemetryTyped
  <2>7. wk[w].pc \notin {"none", "config", "enter"} /\ Quiet(w) BY <1>c DEF TelemetryInv
  <2> QED BY <1>2, <2>3, <2>4, <2>5, <2>6, <2>7, WorkerPreserves
<1> QED BY <1>1, <1>2 DEF Telemetry!connect

\* Time passes: whoever could fall behind holds the clock.
LEMMA TickPreserves ==
  ASSUME TelemetryInv, ~Stalls, NEW w \in Telemetry!Workers, Telemetry!tick(w) PROVE TelemetryInv'
<1>1. /\ run[w].pc = "collect" /\ wk' = wk /\ col' = col /\ in' = in /\ rep' = rep /\ reported' = reported
      /\ run' = [run EXCEPT ![w].clock = @ + 1] /\ run[w].clock < MaxDue
  BY DEF Telemetry!tick, Telemetry!pipeline
<1>2. run[w].clock \in Telemetry!Dues /\ run[w].clock + 1 \in Telemetry!Dues /\ run[w].clock \in Int
  BY <1>1, TelemetryAssumption DEF TelemetryInv, TelemetryTyped, Telemetry!Dues, Run
<1>r. run[w] \in Run BY DEF TelemetryInv, TelemetryTyped
<1>s. [run[w] EXCEPT !.clock = @ + 1] \in Run BY <1>2, <1>r DEF Run
<1>t. run' \in [Telemetry!Workers -> Run] BY <1>1, <1>s DEF TelemetryInv, TelemetryTyped
<1>3. TelemetryTyped' BY <1>1, <1>t DEF TelemetryInv, TelemetryTyped
<1>4. run'[w].clock = run[w].clock + 1 /\ run'[w].pc = "collect" BY <1>1, <1>r DEF TelemetryInv, TelemetryTyped, Run
<1>5. Collecting(w) BY <1>1 DEF TelemetryInv
<1>6. ASSUME NEW c \in Collectors PROVE OnTime(w, c)'
  <2>1. OnTime(w, c) BY <1>5 DEF Collecting
  <2>2. col[w][c] \in Col
    BY DEF TelemetryInv, TelemetryTyped
  <2>3. \/ col[w][c].pc = "returned"
        \/ col[w][c].pc = "wait" /\ col[w][c].tick > run[w].clock
        \/ col[w][c].pc = "collect" /\ col[w][c].until > run[w].clock
    BY DEF Telemetry!tick
  <2> QED BY <1>1, <1>2, <1>4, <2>1, <2>2, <2>3 DEF OnTime, Col
<1>7. InOrder(w)'
  <2>1. \A x \in 1 .. Len(in[w]) : in[w][x].due \in Int BY ChannelTyped DEF TelemetryInv
  <2>2. \A d \in Telemetry!Dues : d \in Int BY DEF Telemetry!Dues
  <2> QED BY <1>1, <1>2, <1>4, <1>5, <2>1, <2>2 DEF Collecting, InOrder, Seen
<1>8. Settled(w)'
  BY <1>1, <1>2, <1>4, <1>5, TelemetryAssumption DEF Collecting, Settled, Telemetry!Dues
<1>9. Collecting(w)' BY <1>6, <1>7, <1>8 DEF Collecting
<1>10. \A v \in Telemetry!Workers \ {w} :
             /\ run'[v] = run[v] /\ col'[v] = col[v] /\ in'[v] = in[v]
             /\ rep'[v] = rep[v] /\ reported'[v] = reported[v]
    BY <1>1 DEF TelemetryInv, TelemetryTyped
<1> QED BY <1>1, <1>3, <1>4, <1>9, <1>10, RunPreserves

\* A collection ends: its result goes behind those that came before.
LEMMA CollectPreserves ==
  ASSUME TelemetryInv, NEW w \in Telemetry!Workers, NEW c \in Collectors, Telemetry!Collect(w, c)
  PROVE  TelemetryInv'
<1>1. wk' = wk /\ run' = run /\ rep' = rep /\ reported' = reported BY DEF Telemetry!Collect
<1>2. PICK p \in {"wait", "emit", "returned"} : col' = [col EXCEPT ![w][c].pc = p]
  BY DEF Telemetry!Collect
<1>3. col[w][c] \in Col /\ col[w][c].pc = "collect" BY DEF TelemetryInv, TelemetryTyped, Telemetry!Collect
<1>4. run[w].pc = "collect" /\ Collecting(w) BY <1>3 DEF TelemetryInv, Quiet
<1>5. OnTime(w, c) BY <1>4 DEF Collecting
<1>6. col' \in [Telemetry!Workers -> [Collectors -> Col]]
  <2>1. [col[w][c] EXCEPT !.pc = p] \in Col BY <1>3 DEF Col
  <2> QED BY <1>2, <2>1 DEF TelemetryInv, TelemetryTyped
<1>7. ASSUME NEW k \in Collectors PROVE OnTime(w, k)'
  <2>1. OnTime(w, k) BY <1>4 DEF Collecting
  <2>2. CASE k # c BY <1>1, <1>2, <2>1, <2>2 DEF OnTime, TelemetryInv, TelemetryTyped
  <2>3. CASE k = c
    <3>1. col'[w][k].pc = p /\ col'[w][k].tick = col[w][c].tick
      BY <1>2, <1>3, <2>3 DEF TelemetryInv, TelemetryTyped, Col
    <3> QED BY <1>1, <1>3, <2>1, <2>3, <3>1 DEF OnTime
  <2> QED BY <2>2, <2>3
<1>c. \A v \in Telemetry!Workers \ {w} : col'[v] = col[v] BY <1>2 DEF TelemetryInv, TelemetryTyped
<1>8. CASE UNCHANGED in
  <2>1. TelemetryTyped' BY <1>1, <1>6, <1>8 DEF TelemetryInv, TelemetryTyped
  <2>2. InOrder(w)' BY <1>1, <1>4, <1>8 DEF Collecting, InOrder, Seen
  <2>3. Settled(w)' BY <1>1, <1>4, <1>8 DEF Collecting, Settled
  <2>4. Collecting(w)' BY <1>7, <2>2, <2>3 DEF Collecting
  <2> QED BY <1>1, <1>8, <1>c, <1>4, <2>1, <2>4, RunPreserves
<1>9. CASE in' = [in EXCEPT ![w] = Append(@, [name |-> c, due |-> col[w][c].due])]
  <2> DEFINE r == [name |-> c, due |-> col[w][c].due]
             n == Len(in[w])
  <2>0. /\ col[w][c].due \in Telemetry!Dues /\ col[w][c].due \in Int /\ col[w][c].due <= run[w].clock
        /\ run[w].clock <= col[w][c].due + MaxRunTimeout
    <3>1. run[w].clock \in Int BY DEF TelemetryInv, TelemetryTyped, Run, Telemetry!Dues
    <3> QED BY <1>3, <1>5, <3>1, TelemetryAssumption DEF OnTime, Col
  <2>1. r \in Results /\ r.due = col[w][c].due BY <2>0 DEF Results
  <2>2. /\ in[w] \in Seq(Results) /\ n \in Nat
        /\ \A x \in 1 .. n : in[w][x] \in Results /\ in[w][x].due \in Int
    BY ChannelTyped DEF TelemetryInv
  <2>3. in'[w] = Append(in[w], r) BY <1>9 DEF TelemetryInv, TelemetryTyped
  <2> HIDE DEF r
  <2>4. /\ Len(in'[w]) = n + 1 /\ in'[w][n + 1] = r
        /\ \A x \in 1 .. n : in'[w][x] = in[w][x]
    BY <2>1, <2>2, <2>3
  <2>t. TelemetryTyped'
    <3>1. in' \in [Telemetry!Workers -> Seq(Results)]
      BY <1>9, <2>1, <2>2 DEF TelemetryInv, TelemetryTyped, r
    <3> QED BY <1>1, <1>6, <3>1 DEF TelemetryInv, TelemetryTyped
  <2>c. run[w].clock \in Int /\ MaxRunTimeout \in Nat
    BY TelemetryAssumption DEF TelemetryInv, TelemetryTyped, Run, Telemetry!Dues
  <2> HIDE DEF n
  <2>5. InOrder(w)'
    <3>1. ASSUME NEW x \in 1 .. n + 1 PROVE in'[w][x].due <= run'[w].clock
      <4>1. CASE x \in 1 .. n BY <1>1, <1>4, <2>4, <4>1 DEF Collecting, InOrder, n
      <4>2. CASE x = n + 1 BY <1>1, <2>0, <2>1, <2>4, <4>2
      <4> QED BY <4>1, <4>2, <2>2
    <3>2. ASSUME NEW x \in 1 .. n + 1, NEW y \in 1 .. n + 1, x < y
          PROVE  in'[w][x].due <= in'[w][y].due + MaxRunTimeout
      <4>1. CASE y \in 1 .. n
        <5>1. x \in 1 .. n BY <2>2, <3>2, <4>1
        <5> QED BY <1>4, <2>4, <3>2, <4>1, <5>1 DEF Collecting, InOrder, n
      <4>2. CASE y = n + 1
        <5>1. x \in 1 .. n BY <2>2, <3>2, <4>2
        <5>2. in[w][x].due <= run[w].clock BY <1>4, <5>1 DEF Collecting, InOrder, n
        <5>3. in'[w][y].due = col[w][c].due /\ in'[w][x].due = in[w][x].due /\ in[w][x].due \in Int
          BY <2>1, <2>2, <2>4, <4>2, <5>1
        <5> QED BY <2>0, <2>c, <5>2, <5>3
      <4> QED BY <4>1, <4>2, <2>2
    <3>3. ASSUME NEW d \in Telemetry!Dues, Seen(w, d)'
          PROVE  d <= run'[w].clock /\ \A x \in 1 .. n + 1 : d <= in'[w][x].due + MaxRunTimeout
      <4>1. Seen(w, d) BY <1>1, <3>3 DEF Seen
      <4>2. d <= run[w].clock /\ \A x \in 1 .. n : d <= in[w][x].due + MaxRunTimeout
        BY <1>4, <4>1 DEF Collecting, InOrder, n
      <4>3. d \in Int BY DEF Telemetry!Dues
      <4>4. ASSUME NEW x \in 1 .. n + 1 PROVE d <= in'[w][x].due + MaxRunTimeout
        <5>1. CASE x \in 1 .. n BY <2>4, <4>2, <5>1
        <5>2. CASE x = n + 1 BY <2>0, <2>1, <2>4, <2>c, <4>2, <4>3, <5>2
        <5> QED BY <5>1, <5>2, <2>2
      <4> QED BY <1>1, <4>2, <4>4
    <3> QED BY <2>4, <3>1, <3>2, <3>3 DEF InOrder
  <2>6. Settled(w)'
    <3>1. ASSUME NEW d \in Telemetry!Dues, reported'[w][d] = 1, d \notin rep'[w].flushed
          PROVE  d + MaxRunTimeout < run'[w].clock /\ \A x \in 1 .. n + 1 : d < in'[w][x].due
      <4>1. d + MaxRunTimeout < run[w].clock /\ \A x \in 1 .. n : d < in[w][x].due
        BY <1>1, <1>4, <3>1 DEF Collecting, Settled, n
      <4>2. d \in Int BY DEF Telemetry!Dues
      <4>3. ASSUME NEW x \in 1 .. n + 1 PROVE d < in'[w][x].due
        <5>1. CASE x \in 1 .. n BY <2>4, <4>1, <5>1
        <5>2. CASE x = n + 1 BY <2>0, <2>1, <2>4, <2>c, <4>1, <4>2, <5>2
        <5> QED BY <5>1, <5>2, <2>2
      <4> QED BY <1>1, <4>1, <4>3
    <3>2. \A d \in Telemetry!Dues : d \in DOMAIN rep'[w].pending => reported'[w][d] = 0
      BY <1>1, <1>4 DEF Collecting, Settled
    <3> QED BY <2>4, <3>1, <3>2 DEF Settled
  <2>7. Collecting(w)' BY <1>7, <2>5, <2>6 DEF Collecting
  <2>8. \A v \in Telemetry!Workers \ {w} : in'[v] = in[v] BY <1>9 DEF TelemetryInv, TelemetryTyped
  <2> QED BY <1>1, <1>c, <1>4, <2>t, <2>7, <2>8, RunPreserves
<1> QED BY <1>8, <1>9 DEF Telemetry!Collect

\* A sequence without its i-th element: what is left keeps its order.
LEMMA RemoveKeepsOrder ==
  ASSUME NEW S, NEW s \in Seq(S), NEW i \in 1 .. Len(s), NEW t,
         t = SubSeq(s, 1, i - 1) \o SubSeq(s, i + 1, Len(s))
  PROVE  /\ t \in Seq(S) /\ Len(t) = Len(s) - 1
         /\ \A x \in 1 .. Len(t) : t[x] = s[IF x < i THEN x ELSE x + 1]
<1> DEFINE a == SubSeq(s, 1, i - 1)
           b == SubSeq(s, i + 1, Len(s))
<1>1. Len(s) \in Nat /\ i \in Nat /\ i >= 1 /\ i <= Len(s) OBVIOUS
<1>e. \A x \in 1 .. Len(s) : s[x] \in S OBVIOUS
<1>2. a \in Seq(S) /\ Len(a) = i - 1 /\ \A x \in 1 .. i - 1 : a[x] = s[x]
  <2>1. \A x \in 1 .. i - 1 : s[x] \in S BY <1>1, <1>e
  <2> QED BY <1>1, <2>1, SubSeqProperties
<1>3. b \in Seq(S) /\ Len(b) = Len(s) - i /\ \A x \in 1 .. Len(s) - i : b[x] = s[i + x]
  <2>1. \A x \in i + 1 .. Len(s) : s[x] \in S BY <1>1, <1>e
  <2> QED BY <1>1, <2>1, SubSeqProperties
<1>0. t = a \o b OBVIOUS
<1> HIDE DEF a, b
<1>4. t \in Seq(S) /\ Len(t) = Len(a) + Len(b)
  BY <1>0, <1>2, <1>3, ConcatProperties
<1>5. \A x \in 1 .. Len(t) : t[x] = IF x <= Len(a) THEN a[x] ELSE b[x - Len(a)]
  <2>1. \A x \in 1 .. Len(a) + Len(b) : (a \o b)[x] = IF x <= Len(a) THEN a[x] ELSE b[x - Len(a)]
    BY <1>2, <1>3, ConcatProperties
  <2> QED BY <1>0, <1>4, <2>1, Zenon
<1>6. Len(t) = Len(s) - 1 BY <1>1, <1>2, <1>3, <1>4
<1>7. ASSUME NEW x \in 1 .. Len(t) PROVE t[x] = s[IF x < i THEN x ELSE x + 1]
  <2>1. CASE x < i
    <3>1. x \in 1 .. i - 1 BY <1>1, <1>6, <2>1
    <3>2. t[x] = a[x] BY <1>2, <1>5, <3>1
    <3> QED BY <1>2, <2>1, <3>1, <3>2
  <2>2. CASE ~(x < i)
    <3> DEFINE n == Len(s)
    <3>0. n \in Nat /\ i \in 1 .. n /\ x \in 1 .. n - 1 BY <1>1, <1>6
    <3> HIDE DEF n
    <3>1. x - (i - 1) \in 1 .. n - i /\ i + (x - (i - 1)) = x + 1 /\ ~(x <= i - 1) BY <3>0, <2>2
    <3> USE DEF n
    <3>2. t[x] = b[x - (i - 1)] BY <1>2, <1>5, <3>1
    <3>3. b[x - (i - 1)] = s[i + (x - (i - 1))] BY <1>3, <3>1
    <3> QED BY <2>2, <3>1, <3>2, <3>3
  <2> QED BY <2>1, <2>2
<1> QED BY <1>4, <1>6, <1>7

\* A blocked send ends: it leaves the line, or finds that it has been taken.
LEMMA EmitPreserves ==
  ASSUME TelemetryInv, NEW w \in Telemetry!Workers, NEW c \in Collectors, Telemetry!emit(w, c)
  PROVE  TelemetryInv'
<1>1. wk' = wk /\ run' = run /\ rep' = rep /\ reported' = reported BY DEF Telemetry!emit
<1>2. PICK p \in {"wait", "returned"} : col' = [col EXCEPT ![w][c].pc = p]
  BY DEF Telemetry!emit
<1>3. col[w][c] \in Col /\ col[w][c].pc = "emit" BY DEF TelemetryInv, TelemetryTyped, Telemetry!emit
<1>4. run[w].pc = "collect" /\ Collecting(w) BY <1>3 DEF TelemetryInv, Quiet
<1>6. col' \in [Telemetry!Workers -> [Collectors -> Col]]
  <2>1. [col[w][c] EXCEPT !.pc = p] \in Col BY <1>3 DEF Col
  <2> QED BY <1>2, <2>1 DEF TelemetryInv, TelemetryTyped
<1>7. ASSUME NEW k \in Collectors PROVE OnTime(w, k)'
  <2>1. OnTime(w, k) BY <1>4 DEF Collecting
  <2>2. CASE k # c BY <1>1, <1>2, <2>1, <2>2 DEF OnTime, TelemetryInv, TelemetryTyped
  <2>3. CASE k = c
    <3>1. col'[w][k].pc = p /\ col'[w][k].tick = col[w][c].tick
      BY <1>2, <1>3, <2>3 DEF TelemetryInv, TelemetryTyped, Col
    <3> QED BY <1>1, <1>3, <2>1, <2>3, <3>1 DEF OnTime
  <2> QED BY <2>2, <2>3
<1>c. \A v \in Telemetry!Workers \ {w} : col'[v] = col[v] BY <1>2 DEF TelemetryInv, TelemetryTyped
<1>8. CASE UNCHANGED in
  <2>1. TelemetryTyped' BY <1>1, <1>6, <1>8 DEF TelemetryInv, TelemetryTyped
  <2>2. InOrder(w)' BY <1>1, <1>4, <1>8 DEF Collecting, InOrder, Seen
  <2>3. Settled(w)' BY <1>1, <1>4, <1>8 DEF Collecting, Settled
  <2>4. Collecting(w)' BY <1>7, <2>2, <2>3 DEF Collecting
  <2> QED BY <1>1, <1>4, <1>8, <1>c, <2>1, <2>4, RunPreserves
<1>9. CASE \E i \in DOMAIN in[w] :
               /\ i > Telemetry!InCapacity /\ in[w][i].name = c
               /\ in' = [in EXCEPT ![w] = SubSeq(@, 1, i - 1) \o SubSeq(@, i + 1, Len(@))]
  <2>1. PICK i \in DOMAIN in[w] :
               in' = [in EXCEPT ![w] = SubSeq(@, 1, i - 1) \o SubSeq(@, i + 1, Len(@))]
    BY <1>9
  <2>2. /\ in[w] \in Seq(Results) /\ Len(in[w]) \in Nat
        /\ \A x \in 1 .. Len(in[w]) : in[w][x] \in Results /\ in[w][x].due \in Int
    BY ChannelTyped DEF TelemetryInv
  <2>3. i \in 1 .. Len(in[w]) BY <2>1, <2>2
  <2>4. in'[w] = SubSeq(in[w], 1, i - 1) \o SubSeq(in[w], i + 1, Len(in[w]))
    BY <2>1 DEF TelemetryInv, TelemetryTyped
  <2>5. /\ in'[w] \in Seq(Results) /\ Len(in'[w]) = Len(in[w]) - 1
        /\ \A x \in 1 .. Len(in'[w]) : in'[w][x] = in[w][IF x < i THEN x ELSE x + 1]
    <3> DEFINE s == in[w]
               t == in'[w]
    <3>1. s \in Seq(Results) /\ i \in 1 .. Len(s) /\ t = SubSeq(s, 1, i - 1) \o SubSeq(s, i + 1, Len(s))
      BY <2>2, <2>3, <2>4
    <3> HIDE DEF s, t
    <3>2. /\ t \in Seq(Results) /\ Len(t) = Len(s) - 1
          /\ \A x \in 1 .. Len(t) : t[x] = s[IF x < i THEN x ELSE x + 1]
      BY <3>1, RemoveKeepsOrder, Zenon
    <3> QED BY <3>2 DEF s, t
  <2>6. ASSUME NEW x \in 1 .. Len(in'[w]), NEW y \in 1 .. Len(in'[w])
        PROVE  \E a, b \in 1 .. Len(in[w]) :
                  in'[w][x] = in[w][a] /\ in'[w][y] = in[w][b] /\ (x < y => a < b)
    <3> DEFINE a == IF x < i THEN x ELSE x + 1
               b == IF y < i THEN y ELSE y + 1
    <3>1. a \in 1 .. Len(in[w]) /\ b \in 1 .. Len(in[w]) /\ (x < y => a < b) BY <2>2, <2>3, <2>5
    <3>2. in'[w][x] = in[w][a] /\ in'[w][y] = in[w][b] BY <2>5
    <3> QED BY <3>1, <3>2
  <2>7. ASSUME NEW x \in 1 .. Len(in'[w]) PROVE \E a \in 1 .. Len(in[w]) : in'[w][x] = in[w][a]
    BY <2>6
  <2>8. in' \in [Telemetry!Workers -> Seq(Results)]
    <3>1. in' = [in EXCEPT ![w] = in'[w]] BY <2>1 DEF TelemetryInv, TelemetryTyped
    <3> QED BY <2>5, <3>1 DEF TelemetryInv, TelemetryTyped
  <2>9. TelemetryTyped' BY <1>1, <1>6, <2>8 DEF TelemetryInv, TelemetryTyped
  <2>10. InOrder(w)'
    <3>1. \A x \in 1 .. Len(in'[w]) : in'[w][x].due <= run'[w].clock
      BY <1>1, <1>4, <2>7 DEF Collecting, InOrder
    <3>2. ASSUME NEW x \in 1 .. Len(in'[w]), NEW y \in 1 .. Len(in'[w]), x < y
          PROVE  in'[w][x].due <= in'[w][y].due + MaxRunTimeout
      BY <1>4, <2>6, <3>2 DEF Collecting, InOrder
    <3>3. ASSUME NEW d \in Telemetry!Dues, Seen(w, d)'
          PROVE  d <= run'[w].clock /\ \A x \in 1 .. Len(in'[w]) : d <= in'[w][x].due + MaxRunTimeout
      <4>1. Seen(w, d) BY <1>1, <3>3 DEF Seen
      <4>2. d <= run[w].clock /\ \A x \in 1 .. Len(in[w]) : d <= in[w][x].due + MaxRunTimeout
        BY <1>4, <4>1 DEF Collecting, InOrder
      <4> QED BY <1>1, <4>2, <2>7
    <3> QED BY <3>1, <3>2, <3>3 DEF InOrder
  <2>11. Settled(w)' BY <1>1, <1>4, <2>7 DEF Collecting, Settled
  <2>12. Collecting(w)' BY <1>7, <2>10, <2>11 DEF Collecting
  <2>13. \A v \in Telemetry!Workers \ {w} : in'[v] = in[v] BY <2>1 DEF TelemetryInv, TelemetryTyped
  <2> QED BY <1>1, <1>4, <1>c, <2>9, <2>12, <2>13, RunPreserves
<1> QED BY <1>8, <1>9 DEF Telemetry!emit

\* A ticker has fired, on time: the run is due now, and the next tick is an interval away.
LEMMA NextRunPreserves ==
  ASSUME TelemetryInv, NEW w \in Telemetry!Workers, NEW c \in Collectors, Telemetry!nextRun(w, c)
  PROVE  TelemetryInv'
<1>1. wk' = wk /\ run' = run /\ in' = in /\ rep' = rep /\ reported' = reported BY DEF Telemetry!nextRun
<1>3. col[w][c] \in Col /\ col[w][c].pc = "wait" BY DEF TelemetryInv, TelemetryTyped, Telemetry!nextRun
<1>4. run[w].pc = "collect" /\ Collecting(w) BY <1>3 DEF TelemetryInv, Quiet
<1>5. OnTime(w, c) BY <1>4 DEF Collecting
<1>r. run[w].clock \in Telemetry!Dues /\ run[w].clock \in Int /\ wk[w].cfg \in [Collectors -> Int]
  BY DEF TelemetryInv, TelemetryTyped, Run, Loop, Telemetry!Dues
<1>6. ASSUME NEW k \in Col, col' = [col EXCEPT ![w][c] = k], OnTime(w, c)' PROVE TelemetryInv'
  <2>1. col' \in [Telemetry!Workers -> [Collectors -> Col]] BY <1>6 DEF TelemetryInv, TelemetryTyped
  <2>2. TelemetryTyped' BY <1>1, <2>1 DEF TelemetryInv, TelemetryTyped
  <2>3. ASSUME NEW e \in Collectors PROVE OnTime(w, e)'
    <3>1. CASE e = c BY <1>6, <3>1
    <3>2. CASE e # c
      <4>1. OnTime(w, e) BY <1>4 DEF Collecting
      <4> QED BY <1>1, <1>6, <3>2, <4>1 DEF OnTime, TelemetryInv, TelemetryTyped
    <3> QED BY <3>1, <3>2
  <2>4. InOrder(w)' BY <1>1, <1>4 DEF Collecting, InOrder, Seen
  <2>5. Settled(w)' BY <1>1, <1>4 DEF Collecting, Settled
  <2>6. Collecting(w)' BY <2>3, <2>4, <2>5 DEF Collecting
  <2>7. \A v \in Telemetry!Workers \ {w} : col'[v] = col[v] BY <1>6 DEF TelemetryInv, TelemetryTyped
  <2> QED BY <1>1, <1>4, <2>2, <2>6, <2>7, RunPreserves
<1>7. CASE col' = [col EXCEPT ![w][c].pc = "returned"]
  <2> DEFINE k == [col[w][c] EXCEPT !.pc = "returned"]
  <2>1. k \in Col /\ k.pc = "returned" BY <1>3 DEF Col
  <2>2. col' = [col EXCEPT ![w][c] = k] BY <1>7
  <2> HIDE DEF k
  <2>3. col'[w][c] = k BY <2>2 DEF TelemetryInv, TelemetryTyped
  <2>4. OnTime(w, c)' BY <2>1, <2>3 DEF OnTime
  <2> QED BY <1>6, <2>1, <2>2, <2>4
<1>8. CASE /\ col[w][c].tick <= run[w].clock
           /\ col' = [col EXCEPT ![w][c] =
                  [pc |-> "collect", due |-> Telemetry!nominalDue(col[w][c].tick, wk[w].cfg[c]),
                   until |-> run[w].clock + Telemetry!EffectiveTimeout(wk[w].cfg[c]),
                   tick |-> Telemetry!nominalDue(run[w].clock, wk[w].cfg[c]) + wk[w].cfg[c]]]
  <2> DEFINE i == wk[w].cfg[c]
             now == run[w].clock
  <2>1. i \in Nat \ {0} /\ OnGrid(col[w][c].tick, i) /\ col[w][c].tick = now
    BY <1>3, <1>5, <1>8, <1>r DEF OnTime, Col
  <2>2. PICK m \in Nat : now = m * i BY <2>1 DEF OnGrid
  <2>3. Telemetry!nominalDue(now, i) = now BY <2>1, <2>2, GridPoint
  <2>4. OnGrid(now + i, i)
    <3>1. m * i + i = (m + 1) * i /\ m + 1 \in Nat BY <2>1, <2>2
    <3> QED BY <2>2, <3>1 DEF OnGrid
  <2>5. Telemetry!EffectiveTimeout(i) \in Nat /\ Telemetry!EffectiveTimeout(i) < i /\ Telemetry!EffectiveTimeout(i) <= MaxRunTimeout
    BY <2>1, TimeoutIsShort
  <2> DEFINE k == [pc |-> "collect", due |-> now, until |-> now + Telemetry!EffectiveTimeout(i), tick |-> now + i]
  <2>6. col' = [col EXCEPT ![w][c] = k] BY <1>8, <2>1, <2>3
  <2>7. k \in Col BY <1>r, <2>1, <2>5 DEF Col
  <2>8. col'[w][c] = k BY <2>6 DEF TelemetryInv, TelemetryTyped
  <2>9. wk'[w].cfg[c] = i /\ run'[w].clock = now /\ now \in Telemetry!Dues /\ now \in Int BY <1>1, <1>r
  <2>10. /\ col'[w][c].pc = "collect" /\ col'[w][c].due = now /\ col'[w][c].tick = now + i
         /\ col'[w][c].until = now + Telemetry!EffectiveTimeout(i)
    BY <2>8
  <2> HIDE DEF k, i, now
  <2>11. OnTime(w, c)' BY <2>1, <2>4, <2>5, <2>9, <2>10, TelemetryAssumption DEF OnTime
  <2> QED BY <1>6, <2>6, <2>7, <2>11
<1> QED BY <1>7, <1>8 DEF Telemetry!nextRun

\* A batch is flushed: it is reported for the first time, and what is forgotten with it is so
\* old that none of its results is left.
LEMMA FlushSettles ==
  ASSUME TelemetryInv, NEW w \in Telemetry!Workers, run[w].pc = "collect",
         TelemetryTyped', wk' = wk, run' = run, col' = col,
         NEW due \in Telemetry!Dues, due <= run[w].clock, reported[w][due] = 0,
         NEW batches \in Batches, DOMAIN batches \ {due} = DOMAIN rep[w].pending \ {due},
         rep' = [rep EXCEPT ![w] = Telemetry!flushDue(rep[w], due, batches)],
         reported' = [reported EXCEPT ![w][due] = @ + 1],
         \A v \in Telemetry!Workers \ {w} : in'[v] = in[v],
         \A x \in 1 .. Len(in'[w]) : due <= in'[w][x].due + MaxRunTimeout,
         \A x, y \in 1 .. Len(in'[w]) : \E a, b \in 1 .. Len(in[w]) :
             in'[w][x] = in[w][a] /\ in'[w][y] = in[w][b] /\ (x < y => a < b)
  PROVE  TelemetryInv'
<1>1. Collecting(w) BY DEF TelemetryInv
<1>2. /\ rep'[w].pending = Telemetry!Without(batches, due)
      /\ rep'[w].flushed = {d \in rep[w].flushed \cup {due} : due - d <= Telemetry!PruneAge}
  BY DEF Telemetry!flushDue, TelemetryInv, TelemetryTyped
<1>3. DOMAIN rep'[w].pending = DOMAIN rep[w].pending \ {due} BY <1>2, WithoutTyped
<1>4. \A d \in Telemetry!Dues : reported'[w][d] = IF d = due THEN 1 ELSE reported[w][d]
  BY DEF TelemetryInv, TelemetryTyped
<1>5. MaxRunTimeout \in Nat /\ run[w].clock \in Int /\ \A d \in Telemetry!Dues : d \in Int
  BY TelemetryAssumption DEF TelemetryInv, TelemetryTyped, Run, Telemetry!Dues
<1>7. ASSUME NEW x \in 1 .. Len(in'[w]) PROVE \E a \in 1 .. Len(in[w]) : in'[w][x] = in[w][a]
  OBVIOUS
<1>6. ASSUME NEW x \in 1 .. Len(in'[w]) PROVE in'[w][x].due \in Int
  <2>1. \A a \in 1 .. Len(in[w]) : in[w][a].due \in Int BY ChannelTyped DEF TelemetryInv
  <2> QED BY <1>7, <2>1
<1>8. \A c \in Collectors : OnTime(w, c)' BY <1>1 DEF Collecting, OnTime
<1>9. InOrder(w)'
  <2>1. \A x \in 1 .. Len(in'[w]) : in'[w][x].due <= run'[w].clock
    BY <1>1, <1>7 DEF Collecting, InOrder
  <2>2. ASSUME NEW x \in 1 .. Len(in'[w]), NEW y \in 1 .. Len(in'[w]), x < y
        PROVE  in'[w][x].due <= in'[w][y].due + MaxRunTimeout
    <3>1. PICK a \in 1 .. Len(in[w]), b \in 1 .. Len(in[w]) :
             in'[w][x] = in[w][a] /\ in'[w][y] = in[w][b] /\ a < b
      BY <2>2
    <3> QED BY <1>1, <3>1 DEF Collecting, InOrder
  <2>3. ASSUME NEW d \in Telemetry!Dues, Seen(w, d)'
        PROVE  d <= run'[w].clock /\ \A x \in 1 .. Len(in'[w]) : d <= in'[w][x].due + MaxRunTimeout
    <3>1. CASE d = due BY <3>1
    <3>2. CASE d # due
      <4>1. Seen(w, d) BY <1>3, <1>4, <2>3, <3>2 DEF Seen
      <4>2. d <= run[w].clock /\ \A x \in 1 .. Len(in[w]) : d <= in[w][x].due + MaxRunTimeout
        BY <1>1, <4>1 DEF Collecting, InOrder
      <4> QED BY <4>2, <1>7
    <3> QED BY <3>1, <3>2
  <2> QED BY <2>1, <2>2, <2>3 DEF InOrder
<1>10. Settled(w)'
  <2>1. ASSUME NEW d \in Telemetry!Dues, d \in DOMAIN rep'[w].pending PROVE reported'[w][d] = 0
    BY <1>1, <1>3, <1>4, <2>1 DEF Collecting, Settled
  <2>2. ASSUME NEW d \in Telemetry!Dues, reported'[w][d] = 1, d \notin rep'[w].flushed
        PROVE  d + MaxRunTimeout < run'[w].clock /\ \A x \in 1 .. Len(in'[w]) : d < in'[w][x].due
    <3>1. d # due
      <4>1. due - due <= Telemetry!PruneAge BY <1>5 DEF Telemetry!PruneAge
      <4> QED BY <1>2, <2>2, <4>1
    <3>2. reported[w][d] = 1 BY <1>4, <2>2, <3>1
    <3>3. CASE d \in rep[w].flushed
      <4>1. due - d > 2 * MaxRunTimeout BY <1>2, <1>5, <2>2, <3>3 DEF Telemetry!PruneAge
      <4> QED BY <1>5, <1>6, <4>1
    <3>4. CASE d \notin rep[w].flushed
      <4>1. d + MaxRunTimeout < run[w].clock /\ \A x \in 1 .. Len(in[w]) : d < in[w][x].due
        BY <1>1, <3>2, <3>4 DEF Collecting, Settled
      <4> QED BY <4>1, <1>7
    <3> QED BY <3>3, <3>4
  <2> QED BY <2>1, <2>2 DEF Settled
<1>11. Collecting(w)' BY <1>8, <1>9, <1>10 DEF Collecting
<1>12. \A v \in Telemetry!Workers \ {w} : rep'[v] = rep[v] /\ reported'[v] = reported[v]
  BY DEF TelemetryInv, TelemetryTyped
<1> QED BY <1>11, <1>12, RunPreserves

\* A flushed reporter is a reporter.
LEMMA FlushTyped ==
  ASSUME TelemetryInv, NEW w \in Telemetry!Workers, NEW due \in Telemetry!Dues, reported[w][due] = 0,
         NEW batches \in Batches, wk' = wk, run' = run, col' = col,
         in' \in [Telemetry!Workers -> Seq(Results)],
         rep' = [rep EXCEPT ![w] = Telemetry!flushDue(rep[w], due, batches)],
         reported' = [reported EXCEPT ![w][due] = @ + 1]
  PROVE  TelemetryTyped'
<1>1. rep[w] \in Rep BY DEF TelemetryInv, TelemetryTyped
<1>2. Telemetry!Without(batches, due) \in Batches BY WithoutTyped
<1>3. due \in Int BY DEF Telemetry!Dues
<1>4. Telemetry!flushDue(rep[w], due, batches) \in Rep BY <1>1, <1>2, <1>3 DEF Rep, Telemetry!flushDue
<1>5. rep' \in [Telemetry!Workers -> Rep] BY <1>4 DEF TelemetryInv, TelemetryTyped
<1>6. reported' \in [Telemetry!Workers -> [Telemetry!Dues -> 0 .. 1]] BY DEF TelemetryInv, TelemetryTyped
<1> QED BY <1>5, <1>6 DEF TelemetryInv, TelemetryTyped

\* The timeout of a batch.
LEMMA BatchTimeoutPreserves ==
  ASSUME TelemetryInv, NEW w \in Telemetry!Workers, Telemetry!batchTimeout(w) PROVE TelemetryInv'
<1>1. PICK due \in DOMAIN rep[w].pending :
        /\ run[w].pc = "collect" /\ wk' = wk /\ run' = run /\ col' = col /\ in' = in
        /\ rep' = [rep EXCEPT ![w] = Telemetry!flushDue(rep[w], due, rep[w].pending)]
        /\ reported' = [reported EXCEPT ![w][due] = @ + 1]
  BY DEF Telemetry!batchTimeout
<1>2. rep[w].pending \in Batches BY DEF TelemetryInv, TelemetryTyped, Rep
<1>3. due \in Telemetry!Dues BY <1>2 DEF Batches
<1>4. Collecting(w) BY <1>1 DEF TelemetryInv
<1>5. reported[w][due] = 0 BY <1>3, <1>4 DEF Collecting, Settled
<1>6. due <= run[w].clock /\ \A x \in 1 .. Len(in[w]) : due <= in[w][x].due + MaxRunTimeout
  BY <1>3, <1>4 DEF Collecting, InOrder, Seen
<1>7. TelemetryTyped'
  <2>1. in' \in [Telemetry!Workers -> Seq(Results)] BY <1>1 DEF TelemetryInv, TelemetryTyped
  <2> QED BY <1>1, <1>2, <1>3, <1>5, <2>1, FlushTyped
<1>8. \A x, y \in 1 .. Len(in'[w]) : \E a, b \in 1 .. Len(in[w]) :
             in'[w][x] = in[w][a] /\ in'[w][y] = in[w][b] /\ (x < y => a < b)
  BY <1>1
<1>9. /\ \A x \in 1 .. Len(in'[w]) : due <= in'[w][x].due + MaxRunTimeout
      /\ \A v \in Telemetry!Workers \ {w} : in'[v] = in[v]
  BY <1>1, <1>6
<1> DEFINE batches == rep[w].pending
<1>10. /\ batches \in Batches /\ DOMAIN batches \ {due} = DOMAIN rep[w].pending \ {due}
       /\ rep' = [rep EXCEPT ![w] = Telemetry!flushDue(rep[w], due, batches)]
  BY <1>1, <1>2
<1> HIDE DEF batches
<1>11. /\ run[w].pc = "collect" /\ wk' = wk /\ run' = run /\ col' = col
       /\ reported' = [reported EXCEPT ![w][due] = @ + 1] /\ due <= run[w].clock
  BY <1>1, <1>6
<1> QED BY <1>3, <1>5, <1>7, <1>8, <1>9, <1>10, <1>11, FlushSettles

\* A result is dropped, added to its batch, or completes it.
LEMMA IngestPreserves ==
  ASSUME TelemetryInv, NEW w \in Telemetry!Workers, Telemetry!ingest(w) PROVE TelemetryInv'
<1> DEFINE res == Head(in[w])
           due == res.due
           old == IF due \in DOMAIN rep[w].pending THEN rep[w].pending[due] ELSE {}
           batches == Telemetry!With(rep[w].pending, due, old \cup {res.name})
<1>1. /\ run[w].pc = "collect" /\ in[w] # <<>> /\ wk' = wk /\ run' = run /\ col' = col
      /\ in' = [in EXCEPT ![w] = Tail(@)]
      /\ \/ UNCHANGED <<rep, reported>>
         \/ /\ due \notin rep[w].flushed
            /\ rep' = [rep EXCEPT ![w].pending = batches]
            /\ UNCHANGED reported
         \/ /\ due \notin rep[w].flushed
            /\ rep' = [rep EXCEPT ![w] = Telemetry!flushDue(rep[w], due, batches)]
            /\ reported' = [reported EXCEPT ![w][due] = @ + 1]
  BY DEF Telemetry!ingest
<1>2. /\ in[w] \in Seq(Results) /\ Len(in[w]) \in Nat
      /\ \A x \in 1 .. Len(in[w]) : in[w][x] \in Results /\ in[w][x].due \in Telemetry!Dues /\ in[w][x].due \in Int
  BY ChannelTyped DEF TelemetryInv
<1>3. Len(in[w]) >= 1 /\ res = in[w][1] BY <1>1, <1>2
<1>4. res.name \in Collectors /\ due \in Telemetry!Dues BY <1>2, <1>3 DEF Results
<1>5. rep[w].pending \in Batches BY DEF TelemetryInv, TelemetryTyped, Rep
<1>6. old \cup {res.name} \in SUBSET Collectors BY <1>4, <1>5 DEF Batches
<1>7. batches \in Batches /\ DOMAIN batches = DOMAIN rep[w].pending \cup {due}
  BY <1>4, <1>5, <1>6, WithTyped
<1>8. in'[w] = Tail(in[w]) BY <1>1 DEF TelemetryInv, TelemetryTyped
<1>9. /\ in'[w] \in Seq(Results) /\ Len(in'[w]) = Len(in[w]) - 1
      /\ \A x \in 1 .. Len(in'[w]) : in'[w][x] = in[w][x + 1]
  <2> DEFINE s == in[w]
  <2>1. s \in Seq(Results) /\ s # <<>> BY <1>1, <1>2
  <2> HIDE DEF s
  <2>2. Tail(s) \in Seq(Results) /\ Len(Tail(s)) = Len(s) - 1 /\ \A x \in 1 .. Len(Tail(s)) : Tail(s)[x] = s[x + 1]
    BY <2>1, HeadTailProperties
  <2> QED BY <1>8, <2>2 DEF s
<1>10. \A x, y \in 1 .. Len(in'[w]) : \E a, b \in 1 .. Len(in[w]) :
             in'[w][x] = in[w][a] /\ in'[w][y] = in[w][b] /\ (x < y => a < b)
  <2> SUFFICES ASSUME NEW x \in 1 .. Len(in'[w]), NEW y \in 1 .. Len(in'[w])
               PROVE  \E a, b \in 1 .. Len(in[w]) :
                        in'[w][x] = in[w][a] /\ in'[w][y] = in[w][b] /\ (x < y => a < b)
    OBVIOUS
  <2>1. x + 1 \in 1 .. Len(in[w]) /\ y + 1 \in 1 .. Len(in[w]) /\ (x < y => x + 1 < y + 1)
    BY <1>2, <1>9
  <2>2. in'[w][x] = in[w][x + 1] /\ in'[w][y] = in[w][y + 1] BY <1>9
  <2> QED BY <2>1, <2>2
<1>11. Collecting(w) BY <1>1 DEF TelemetryInv
<1>12. due <= run[w].clock BY <1>3, <1>2, <1>11 DEF Collecting, InOrder
<1>13. ASSUME NEW x \in 1 .. Len(in'[w])
       PROVE  /\ due <= in'[w][x].due + MaxRunTimeout
              /\ \E a \in 1 .. Len(in[w]) : in'[w][x] = in[w][a]
  <2>1. x + 1 \in 1 .. Len(in[w]) /\ 1 \in 1 .. Len(in[w]) /\ 1 < x + 1 BY <1>2, <1>3, <1>9
  <2>2. in'[w][x] = in[w][x + 1] BY <1>9
  <2>3. in[w][1].due <= in[w][x + 1].due + MaxRunTimeout BY <1>11, <2>1 DEF Collecting, InOrder
  <2> QED BY <1>3, <2>1, <2>2, <2>3
<1>14. due \notin rep[w].flushed => reported[w][due] = 0
  <2>1. 1 \in 1 .. Len(in[w]) /\ in[w][1].due = due /\ due \in Int BY <1>2, <1>3
  <2>2. reported[w][due] = 1 /\ due \notin rep[w].flushed => due < in[w][1].due
    BY <1>4, <1>11, <2>1 DEF Collecting, Settled
  <2>3. reported[w][due] \in 0 .. 1 BY <1>4 DEF TelemetryInv, TelemetryTyped
  <2> QED BY <2>1, <2>2, <2>3
<1>15. in' \in [Telemetry!Workers -> Seq(Results)]
  <2>1. in' = [in EXCEPT ![w] = in'[w]] BY <1>1 DEF TelemetryInv, TelemetryTyped
  <2> QED BY <1>9, <2>1 DEF TelemetryInv, TelemetryTyped
<1>16. \A v \in Telemetry!Workers \ {w} : in'[v] = in[v] BY <1>1 DEF TelemetryInv, TelemetryTyped
<1> HIDE DEF res, due, old, batches
<1>17. ASSUME rep' \in [Telemetry!Workers -> Rep], UNCHANGED reported,
              rep'[w].flushed = rep[w].flushed,
              \A v \in Telemetry!Workers \ {w} : rep'[v] = rep[v],
              \/ DOMAIN rep'[w].pending = DOMAIN rep[w].pending
              \/ /\ DOMAIN rep'[w].pending = DOMAIN rep[w].pending \cup {due}
                 /\ due \notin rep[w].flushed
       PROVE  TelemetryInv'
  <2>1. TelemetryTyped' BY <1>1, <1>15, <1>17 DEF TelemetryInv, TelemetryTyped
  <2>2. \A c \in Collectors : OnTime(w, c)' BY <1>1, <1>11 DEF Collecting, OnTime
  <2>3. InOrder(w)'
    <3>1. \A x \in 1 .. Len(in'[w]) : in'[w][x].due <= run'[w].clock
      BY <1>1, <1>11, <1>13 DEF Collecting, InOrder
    <3>2. ASSUME NEW x \in 1 .. Len(in'[w]), NEW y \in 1 .. Len(in'[w]), x < y
          PROVE  in'[w][x].due <= in'[w][y].due + MaxRunTimeout
      <4>1. PICK a \in 1 .. Len(in[w]), b \in 1 .. Len(in[w]) :
               in'[w][x] = in[w][a] /\ in'[w][y] = in[w][b] /\ a < b
        BY <1>10, <3>2
      <4> QED BY <1>11, <4>1 DEF Collecting, InOrder
    <3>3. ASSUME NEW d \in Telemetry!Dues, Seen(w, d)'
          PROVE  d <= run'[w].clock /\ \A x \in 1 .. Len(in'[w]) : d <= in'[w][x].due + MaxRunTimeout
      <4>1. CASE d = due BY <1>1, <1>12, <1>13, <4>1
      <4>2. CASE d # due
        <5>1. Seen(w, d) BY <1>17, <3>3, <4>2 DEF Seen
        <5>2. d <= run[w].clock /\ \A x \in 1 .. Len(in[w]) : d <= in[w][x].due + MaxRunTimeout
          BY <1>11, <5>1 DEF Collecting, InOrder
        <5> QED BY <1>1, <5>2, <1>13
      <4> QED BY <4>1, <4>2
    <3> QED BY <3>1, <3>2, <3>3 DEF InOrder
  <2>4. Settled(w)'
    <3>1. ASSUME NEW d \in Telemetry!Dues, d \in DOMAIN rep'[w].pending PROVE reported'[w][d] = 0
      BY <1>11, <1>14, <1>17, <3>1 DEF Collecting, Settled
    <3>2. ASSUME NEW d \in Telemetry!Dues, reported'[w][d] = 1, d \notin rep'[w].flushed
          PROVE  d + MaxRunTimeout < run'[w].clock /\ \A x \in 1 .. Len(in'[w]) : d < in'[w][x].due
      <4>1. d + MaxRunTimeout < run[w].clock /\ \A x \in 1 .. Len(in[w]) : d < in[w][x].due
        BY <1>11, <1>17, <3>2 DEF Collecting, Settled
      <4> QED BY <1>1, <4>1, <1>13
    <3> QED BY <3>1, <3>2 DEF Settled
  <2>5. Collecting(w)' BY <2>2, <2>3, <2>4 DEF Collecting
  <2> QED BY <1>1, <1>16, <1>17, <2>1, <2>5, RunPreserves
<1>18. CASE UNCHANGED <<rep, reported>>
  <2>1. rep' \in [Telemetry!Workers -> Rep] BY <1>18 DEF TelemetryInv, TelemetryTyped
  <2> QED BY <1>17, <1>18, <2>1
<1>19. CASE /\ due \notin rep[w].flushed
            /\ rep' = [rep EXCEPT ![w].pending = batches]
            /\ UNCHANGED reported
  <2> DEFINE r == [rep[w] EXCEPT !.pending = batches]
  <2>1. r \in Rep /\ r.pending = batches /\ r.flushed = rep[w].flushed
    BY <1>7 DEF TelemetryInv, TelemetryTyped, Rep
  <2>2. rep' = [rep EXCEPT ![w] = r] BY <1>19
  <2> HIDE DEF r
  <2>3. rep' \in [Telemetry!Workers -> Rep] /\ rep'[w] = r /\ \A v \in Telemetry!Workers \ {w} : rep'[v] = rep[v]
    BY <2>1, <2>2 DEF TelemetryInv, TelemetryTyped
  <2> QED BY <1>7, <1>17, <1>19, <2>1, <2>3
<1>20. CASE /\ due \notin rep[w].flushed
            /\ rep' = [rep EXCEPT ![w] = Telemetry!flushDue(rep[w], due, batches)]
            /\ reported' = [reported EXCEPT ![w][due] = @ + 1]
  <2>1. TelemetryTyped' BY <1>1, <1>4, <1>7, <1>14, <1>15, <1>20, FlushTyped
  <2>2. DOMAIN batches \ {due} = DOMAIN rep[w].pending \ {due} BY <1>7
  <2>3. \A x \in 1 .. Len(in'[w]) : due <= in'[w][x].due + MaxRunTimeout BY <1>13
  <2> QED BY <1>1, <1>4, <1>7, <1>10, <1>12, <1>14, <1>16, <1>20, <2>1, <2>2, <2>3, FlushSettles
<1> QED BY <1>1, <1>18, <1>19, <1>20

\* The reporter hands a report over, or returns.
LEMMA ReporterPreserves ==
  ASSUME TelemetryInv, NEW w \in Telemetry!Workers, Telemetry!enqueue(w) \/ Telemetry!reporterReturns(w)
  PROVE  TelemetryInv'
<1>1. wk' = wk /\ run' = run /\ col' = col /\ in' = in /\ reported' = reported
  BY DEF Telemetry!enqueue, Telemetry!reporterReturns
<1>2. rep[w] \in Rep BY DEF TelemetryInv, TelemetryTyped
<1>3. PICK r \in Rep : /\ rep' = [rep EXCEPT ![w] = r] /\ r.flushed = rep[w].flushed
                       /\ DOMAIN r.pending \subseteq DOMAIN rep[w].pending
  <2>1. CASE Telemetry!enqueue(w)
    <3> DEFINE r0 == [rep[w] EXCEPT !.pc = "select"]
               r1 == [r0 EXCEPT !.due = Telemetry!NoDue]
    <3>1. r0 \in Rep /\ r0.flushed = rep[w].flushed /\ r0.pending = rep[w].pending BY <1>2 DEF Rep
    <3>2. rep' = [rep EXCEPT ![w] = r1] BY <1>2, <2>1 DEF Telemetry!enqueue, TelemetryInv, TelemetryTyped
    <3> HIDE DEF r0
    <3>3. r1 \in Rep /\ r1.flushed = rep[w].flushed /\ r1.pending = rep[w].pending
      BY <3>1 DEF Rep, Telemetry!NoDue
    <3> QED BY <3>2, <3>3
  <2>2. CASE Telemetry!reporterReturns(w)
    <3> DEFINE r0 == [rep[w] EXCEPT !.pc = "closed"]
               r1 == [r0 EXCEPT !.pending = [d \in {} |-> {}]]
    <3>1. r0 \in Rep /\ r0.flushed = rep[w].flushed BY <1>2 DEF Rep
    <3>2. rep' = [rep EXCEPT ![w] = r1] BY <1>2, <2>2 DEF Telemetry!reporterReturns, TelemetryInv, TelemetryTyped
    <3> HIDE DEF r0
    <3>3. r1 \in Rep /\ r1.flushed = rep[w].flushed /\ r1.pending = [d \in {} |-> {}]
      BY <3>1, NoBatches DEF Rep
    <3> HIDE DEF r1
    <3>4. DOMAIN r1.pending \subseteq DOMAIN rep[w].pending BY <3>3, NoBatches
    <3> QED BY <3>2, <3>3, <3>4
  <2> QED BY <2>1, <2>2
<1>4. rep' \in [Telemetry!Workers -> Rep] /\ rep'[w] = r /\ \A v \in Telemetry!Workers \ {w} : rep'[v] = rep[v]
  BY <1>3 DEF TelemetryInv, TelemetryTyped
<1>5. TelemetryTyped' BY <1>1, <1>4 DEF TelemetryInv, TelemetryTyped
<1>6. ASSUME NEW v \in Telemetry!Workers, run'[v].pc = "collect" PROVE Collecting(v)'
  <2>1. Collecting(v) BY <1>1, <1>6 DEF TelemetryInv
  <2>2. rep'[v].flushed = rep[v].flushed /\ DOMAIN rep'[v].pending \subseteq DOMAIN rep[v].pending
    BY <1>3, <1>4
  <2>3. \A c \in Collectors : OnTime(v, c)' BY <1>1, <2>1 DEF Collecting, OnTime
  <2>4. InOrder(v)' BY <1>1, <2>1, <2>2 DEF Collecting, InOrder, Seen
  <2>5. Settled(v)' BY <1>1, <2>1, <2>2 DEF Collecting, Settled
  <2> QED BY <2>3, <2>4, <2>5 DEF Collecting
<1>7. ASSUME NEW v \in Telemetry!Workers, run'[v].pc # "collect" PROVE Quiet(v)'
  BY <1>1, <1>7 DEF TelemetryInv, Quiet
<1> QED BY <1>1, <1>5, <1>6, <1>7 DEF TelemetryInv

\* A step of another component, or of the early process or of a sender, changes none of it.
LEMMA TelemetryStutters ==
  TelemetryInv /\ UNCHANGED <<wk, run, col, in, rep, reported>> => TelemetryInv'
<1> SUFFICES ASSUME TelemetryInv, UNCHANGED <<wk, run, col, in, rep, reported>> PROVE TelemetryInv'
  OBVIOUS
<1>1. TelemetryTyped' BY DEF TelemetryInv, TelemetryTyped
<1>2. ASSUME NEW v \in Telemetry!Workers, run'[v].pc = "collect" PROVE Collecting(v)'
  BY <1>2, CollectingFrame DEF TelemetryInv
<1>3. ASSUME NEW v \in Telemetry!Workers, run'[v].pc # "collect" PROVE Quiet(v)'
  BY <1>3 DEF TelemetryInv, Quiet
<1> QED BY <1>1, <1>2, <1>3 DEF TelemetryInv

\* While no collector stalls, every step keeps the results in order.
LEMMA TelemetryStepPreserves == ~Stalls /\ TelemetryInv /\ Telemetry!Next => TelemetryInv'
<1> SUFFICES ASSUME ~Stalls, TelemetryInv, Telemetry!Next PROVE TelemetryInv' OBVIOUS
<1>1. ASSUME NEW b, Telemetry!standalone(b) PROVE TelemetryInv'
  BY <1>1, TelemetryStutters DEF Telemetry!standalone, Telemetry!pipeline
<1>2. ASSUME NEW w \in Telemetry!Workers, Telemetry!dispatch(w) PROVE TelemetryInv'
  BY <1>2, TelemetryStutters DEF Telemetry!dispatch
<1>3. ASSUME NEW w \in Telemetry!Workers, NEW b, Telemetry!sendReport(w, b) PROVE TelemetryInv'
  BY <1>3, TelemetryStutters DEF Telemetry!sendReport
<1> QED BY <1>1, <1>2, <1>3, StopPreserves, WorkerStepPreserves, ConnectPreserves, TickPreserves,
           CollectPreserves, EmitPreserves, NextRunPreserves, IngestPreserves, BatchTimeoutPreserves,
           ReporterPreserves
        DEF Telemetry!Next

\* No due time is reported twice in a run, for any collectors, intervals and length of the
\* channel, if its buffer does what plugin.go:62-64 says: no collector is blocked so long that
\* it misses a tick (~Stalls).  What is late is late by MaxRunTimeout at most, and a flushed
\* due time is remembered for twice as long (NetTelemetry).
THEOREM DuesAreReportedOnce == ~Stalls => (AgentSpec => []ReportedOnce)
<1>0. SUFFICES ASSUME ~Stalls PROVE AgentSpec => []ReportedOnce
  OBVIOUS
<1>1. AgentInit => TelemetryInv BY TelemetryInitial DEF AgentInit
<1>2. TelemetryInv /\ [AgentNext]_allVars => TelemetryInv'
  BY <1>0, OneComponentMoves, TelemetryStepPreserves, TelemetryStutters DEF telemetryVars
<1>3. TelemetryInv => ReportedOnce
  BY DEF TelemetryInv, TelemetryTyped, ReportedOnce, Telemetry!ReportedOnce
<1> QED BY <1>1, <1>2, <1>3, PTL DEF AgentSpec
=============================================================================
