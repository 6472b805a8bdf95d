------------------------ MODULE EventsManagerProofs ------------------------
(***************************************************************************)
(* RemoveWatcher of the events manager leaves no watcher behind that runs  *)
(* and that nobody told to stop, for every set of watchers, event types,   *)
(* callers and subscribers.                                                *)
(***************************************************************************)
EXTENDS EventsManager, SequenceTheorems, TLAPS

\* What the environment does not do: no watcher is added again after its removal, none is
\* added in the launching loop of Run, and none is removed before Run.  The code guards
\* against none of the three, and each breaks RemovedAreTold.
Orderly == Allow \cap {"re-add", "add in launch", "remove before run"} = {}

-----------------------------------------------------------------------------
(* The inductive invariant                                                 *)

\* The types that the argument needs.
Typed ==
    /\ watcherEvents \in Seq([watcher : Watchers, evType : Events])
    /\ mu \in Callers \cup {None} /\ running \in BOOLEAN
    /\ runPc \in {"idle", "launch", "wait", "returned"}
    /\ pc \in [Callers -> {"ready", "off", "select", "callback", "ended", "lock", "range", "loop", "send"}]
    /\ arg \in [Callers -> Watchers \cup {None}]
    /\ next \in [Callers -> Nat \ {0}] /\ last \in [Callers -> Nat]
    /\ listener \in [Runners -> {"none", "wait", "got", "cancelled"}]

Entries == 1..Len(watcherEvents)

\* The mutex is held in the loop of RemoveWatcher, which runs only while the manager does and
\* never looks past the entries it saw.
Locking ==
    \A p \in Callers : /\ pc[p] \in {"range", "loop", "send"} <=> mu = p
                       /\ pc[p] \in {"lock", "range", "loop", "send"} => running = TRUE
                       /\ last[p] <= Len(watcherEvents)

\* Before the launching loop nothing runs, and the dispatcher is not there.
Launching ==
    /\ running = FALSE <=> runPc = "idle"
    /\ runPc \in {"idle", "launch"} => /\ pc[Dispatcher] = "off"
                                       /\ \A r \in Runners : listener[r] = "none"

\* The entries of watcherEvents are event types of their watchers, each once; what is being
\* removed is one of them.
Distinct ==
    /\ \A i \in Entries : \E k \in 1..Len(EventsOf[watcherEvents[i].watcher]) :
          watcherEvents[i].evType = EventsOf[watcherEvents[i].watcher][k]
    /\ \A i, j \in Entries : watcherEvents[i].evType = watcherEvents[j].evType => i = j
    /\ \A e \in removing : \E i \in Entries : watcherEvents[i].evType = e

\* An entry has one goroutine at most, whether Run or AddWatcher started it.
OneRunner ==
    /\ \A r \in Runners : listener[r] # "none" => r[1] \in Entries
    /\ \A r, s \in Runners : listener[r] # "none" /\ listener[s] # "none" /\ r[1] = s[1] => r = s

\* Entry i was launched, and its goroutine does not wait to be told any more.
Told(i) == /\ runPc \in {"wait", "returned"}
           /\ \A r \in Runners : r[1] = i => listener[r] # "wait"

\* The loop of a RemoveWatcher has still to come to entry i.
ToTell(i) ==
    \E p \in Callers : /\ mu = p /\ arg[p] = watcherEvents[i].watcher
                       /\ pc[p] = "range" \/ (next[p] <= i /\ i <= last[p])

\* An entry's event type is marked as being removed while it is told, and after.
Marked(i) ==
    \/ Told(i)
    \/ \E p \in Callers : mu = p /\ pc[p] = "send" /\ next[p] = i

KnownOrTold ==
    \A i \in Entries : watcherEvents[i].watcher \in watchersMap \/ ToTell(i) \/ Told(i)

MarksAreKept == \A i \in Entries : watcherEvents[i].evType \in removing => Marked(i)

\* Inductive: RemovedAreTold says only who is not told.  That the loop reaches every entry of
\* the watcher, and skips none by the mark of another, needs all of it.
RemovalInv ==
    Typed /\ Locking /\ Launching /\ Distinct /\ OneRunner /\ KnownOrTold /\ MarksAreKept

\* The variables that the invariant is about.
removalVars == <<watchersMap, watcherEvents, removing, mu, running, callerVars, listener, runPc>>

-----------------------------------------------------------------------------
\* A manager without watchers has none to tell.
LEMMA RemovalInitial == Init => RemovalInv
<1> SUFFICES ASSUME Init PROVE RemovalInv
  OBVIOUS
<1> USE EventsAssumption DEF Init
<1>1. Typed
  <2>1. pc \in [Callers -> {"ready", "off", "select", "callback", "ended", "lock", "range", "loop", "send"}]
    OBVIOUS
  <2>2. listener \in [Runners -> {"none", "wait", "got", "cancelled"}] OBVIOUS
  <2>3. arg \in [Callers -> Watchers \cup {None}] OBVIOUS
  <2>4. next \in [Callers -> Nat \ {0}] /\ last \in [Callers -> Nat] OBVIOUS
  <2>5. watcherEvents \in Seq([watcher : Watchers, evType : Events]) OBVIOUS
  <2> QED BY <2>1, <2>2, <2>3, <2>4, <2>5 DEF Typed
<1>2. Len(watcherEvents) = 0 /\ Entries = {} BY DEF Entries
<1>3. Locking BY <1>2 DEF Locking, Callers
<1>4. Launching BY DEF Launching, Callers
<1>5. Distinct /\ OneRunner /\ KnownOrTold /\ MarksAreKept
  BY <1>2 DEF Distinct, OneRunner, KnownOrTold, MarksAreKept
<1> QED BY <1>1, <1>3, <1>4, <1>5 DEF RemovalInv

\* What leaves its variables alone keeps the invariant.
LEMMA RemovalStutters == RemovalInv /\ UNCHANGED removalVars => RemovalInv'
<1> SUFFICES ASSUME RemovalInv, UNCHANGED removalVars PROVE RemovalInv'
  OBVIOUS
<1> USE DEF removalVars, callerVars, RemovalInv, Entries
<1>1. Typed' BY DEF Typed
<1>2. Locking' BY DEF Locking
<1>3. Launching' BY DEF Launching
<1>4. Distinct' BY DEF Distinct
<1>5. OneRunner' BY DEF OneRunner
<1>6. KnownOrTold' BY DEF KnownOrTold, ToTell, Told
<1>7. MarksAreKept' BY DEF MarksAreKept, Marked, Told
<1> QED BY <1>1, <1>2, <1>3, <1>4, <1>5, <1>6, <1>7

\* A goroutine that was told stays told.
LEMMA TellingPreserves ==
  ASSUME RemovalInv, UNCHANGED <<watchersMap, watcherEvents, removing, mu, running, callerVars, runPc>>,
         NEW r \in Runners, NEW l \in {"got", "cancelled"}, listener[r] # "none",
         listener' = [listener EXCEPT ![r] = l]
  PROVE  RemovalInv'
<1> USE DEF callerVars, RemovalInv, Entries
<1>1. Typed' BY DEF Typed
<1>2. Locking' BY DEF Locking
<1>3. Launching' BY DEF Launching
<1>4. Distinct' BY DEF Distinct
<1>5. \A s \in Runners : (listener[s] = "none" <=> listener'[s] = "none")
                         /\ (listener'[s] = "wait" => listener[s] = "wait")
  BY DEF Typed
<1>6. OneRunner' BY <1>5 DEF OneRunner
<1>7. \A i : Told(i) => Told(i)' BY <1>5 DEF Told
<1>8. KnownOrTold' BY <1>7 DEF KnownOrTold, ToTell
<1>9. MarksAreKept' BY <1>7 DEF MarksAreKept, Marked
<1> QED BY <1>1, <1>2, <1>3, <1>4, <1>6, <1>8, <1>9

\* What the dispatcher does outside of the calls does not concern removals.
LEMMA DispatcherPreserves ==
  ASSUME RemovalInv, UNCHANGED <<watchersMap, watcherEvents, removing, mu, running, arg, next, last, listener, runPc>>,
         pc[Dispatcher] \in {"select", "callback"}, NEW l \in {"select", "callback", "ended"}, Goto(Dispatcher, l)
  PROVE  RemovalInv'
<1> USE DEF RemovalInv, Entries
<1>0. Dispatcher \in Callers BY DEF Callers
<1>1. /\ pc' \in [Callers -> {"ready", "off", "select", "callback", "ended", "lock", "range", "loop", "send"}]
      /\ pc'[Dispatcher] = l /\ \A p \in Callers \ {Dispatcher} : pc'[p] = pc[p]
  BY <1>0 DEF Typed, Goto
<1>2. Typed' BY <1>1 DEF Typed
<1>3. Locking' BY <1>0, <1>1 DEF Locking
<1>4. Launching' BY <1>0, <1>1 DEF Launching
<1>5. Distinct' BY DEF Distinct
<1>6. OneRunner' BY DEF OneRunner
<1>7. mu # Dispatcher BY <1>0 DEF Locking
<1>8. KnownOrTold' BY <1>1, <1>7 DEF KnownOrTold, ToTell, Told
<1>9. MarksAreKept' BY <1>1, <1>7 DEF MarksAreKept, Marked, Told
<1> QED BY <1>2, <1>3, <1>4, <1>5, <1>6, <1>8, <1>9

\* AddWatcher: the new entries are behind the old ones, with event types of their own, and
\* their watcher is known.
LEMMA AddPreserves ==
  ASSUME Orderly, RemovalInv, NEW p \in Callers, NEW w \in Watchers, AddWatcher(p, w)
  PROVE  RemovalInv'
<1> DEFINE n == Len(watcherEvents)
           k == Len(EventsOf[w])
           new == [i \in 1..k |-> [watcher |-> w, evType |-> EventsOf[w][i]]]
<1>0. Typed /\ Locking /\ Launching /\ Distinct /\ OneRunner /\ KnownOrTold /\ MarksAreKept BY DEF RemovalInv
<1>1. /\ EventsOf[w] \in Seq(Events) /\ k \in Nat /\ n \in Nat BY <1>0, EventsAssumption DEF Typed
<1>2. /\ new \in Seq([watcher : Watchers, evType : Events]) /\ Len(new) = k /\ DOMAIN new = 1..k
      /\ \A i \in 1..k : new[i].watcher = w /\ new[i].evType = EventsOf[w][i]
  BY <1>1
<1>3. /\ watcherEvents' = watcherEvents \o new /\ watchersMap' = watchersMap \cup {w}
      /\ \A i \in 1..n : watcherEvents[i].watcher # w
      /\ runPc # "launch"
      /\ UNCHANGED <<removing, mu, running, callerVars, runPc>>
      /\ IF running THEN Launch({<<n + i, "AddWatcher">> : i \in DOMAIN new}) ELSE UNCHANGED listener
  <2>1. "re-add" \notin Allow /\ "add in launch" \notin Allow BY DEF Orderly
  <2> QED BY <2>1 DEF AddWatcher, runnerVars
<1> HIDE DEF new
<1>4. /\ watcherEvents' \in Seq([watcher : Watchers, evType : Events]) /\ Len(watcherEvents') = n + k
      /\ \A i \in 1..n : watcherEvents'[i] = watcherEvents[i]
      /\ \A i \in (n + 1)..(n + k) : watcherEvents'[i] = new[i - n]
  <2> DEFINE E == [watcher : Watchers, evType : Events]
  <2>1. watcherEvents \in Seq(E) /\ new \in Seq(E) BY <1>0, <1>2 DEF Typed
  <2> HIDE DEF E
  <2>4. /\ watcherEvents \o new \in Seq(E) /\ Len(watcherEvents \o new) = n + Len(new)
        /\ \A i \in 1..(n + Len(new)) :
             (watcherEvents \o new)[i] = IF i <= n THEN watcherEvents[i] ELSE new[i - n]
    BY <2>1, ConcatProperties, Zenon
  <2>2. /\ watcherEvents \o new \in Seq(E) /\ Len(watcherEvents \o new) = n + k
        /\ \A i \in 1..(n + k) : (watcherEvents \o new)[i] = IF i <= n THEN watcherEvents[i] ELSE new[i - n]
    BY <1>2, <2>4
  <2>3. 1..n \subseteq 1..(n + k) /\ (n + 1)..(n + k) \subseteq 1..(n + k) BY <1>1
  <2> QED BY <1>1, <1>3, <2>2, <2>3 DEF E
<1>5. \A i \in (n + 1)..(n + k) :
        i - n \in 1..k /\ watcherEvents'[i].watcher = w /\ watcherEvents'[i].evType = EventsOf[w][i - n]
  BY <1>1, <1>2, <1>4, SMTT(30)
<1>6. \A i \in Entries' : i \in 1..n \/ i \in (n + 1)..(n + k) BY <1>1, <1>4 DEF Entries
<1>7. /\ listener' \in [Runners -> {"none", "wait", "got", "cancelled"}]
      /\ \A r \in Runners : \/ listener'[r] = listener[r]
                            \/ running = TRUE /\ r[1] \in (n + 1)..(n + k) /\ r[2] = "AddWatcher"
      /\ \A r \in Runners : r[1] \in 1..n => listener'[r] = listener[r]
  <2>1. CASE running
    <3>1. listener' = [r \in Runners |-> IF r \in {<<n + i, "AddWatcher">> : i \in DOMAIN new} THEN "wait"
                                         ELSE listener[r]]
      BY <1>3, <2>1 DEF Launch
    <3>2. \A r \in {<<n + i, "AddWatcher">> : i \in DOMAIN new} :
             r[1] \in (n + 1)..(n + k) /\ r[2] = "AddWatcher"
      BY <1>1, <1>2
    <3>3. \A r \in Runners : r[1] \in 1..n => r \notin {<<n + i, "AddWatcher">> : i \in DOMAIN new}
      BY <1>1, <3>2
    <3>4. listener' \in [Runners -> {"none", "wait", "got", "cancelled"}] BY <1>0, <3>1 DEF Typed
    <3>5. running = TRUE BY <1>0, <2>1 DEF Typed
    <3> QED BY <3>1, <3>2, <3>3, <3>4, <3>5
  <2>2. CASE ~running BY <1>0, <1>3, <2>2 DEF Typed
  <2> QED BY <2>1, <2>2
<1>8. Typed' BY <1>0, <1>3, <1>4, <1>7 DEF Typed, callerVars
<1>9. Locking' BY <1>0, <1>1, <1>3, <1>4 DEF Locking, Typed, callerVars
<1>10. Launching' BY <1>0, <1>3, <1>7 DEF Launching, callerVars
<1>11. Distinct'
  <2>1. ASSUME NEW i \in Entries'
        PROVE  \E j \in 1..Len(EventsOf[watcherEvents'[i].watcher]) :
                 watcherEvents'[i].evType = EventsOf[watcherEvents'[i].watcher][j]
    <3>1. CASE i \in 1..n BY <1>0, <1>4, <3>1, SMTT(30) DEF Distinct, Entries
    <3>2. CASE i \in (n + 1)..(n + k) BY <1>5, <3>2
    <3> QED BY <1>6, <2>1, <3>1, <3>2
  <2>2. ASSUME NEW i \in Entries' PROVE watcherEvents'[i].watcher \in Watchers
    <3>1. \A x \in [watcher : Watchers, evType : Events] : x.watcher \in Watchers OBVIOUS
    <3>2. watcherEvents'[i] \in [watcher : Watchers, evType : Events]
      BY <1>4, <2>2, ElementOfSeq DEF Entries
    <3> QED BY <3>1, <3>2
  <2>3. ASSUME NEW i \in Entries', NEW j \in Entries', watcherEvents'[i].evType = watcherEvents'[j].evType
        PROVE  i = j
    <3>1. CASE i \in 1..n /\ j \in 1..n BY <1>0, <1>4, <2>3, <3>1 DEF Distinct, Entries
    <3>2. watcherEvents'[i].watcher = watcherEvents'[j].watcher
      BY <2>1, <2>2, <2>3, EventsAssumption
    <3>3. CASE i \in (n + 1)..(n + k) /\ j \in (n + 1)..(n + k)
      <4>1. i - n = j - n BY <1>5, <2>3, <3>3, EventsAssumption
      <4> QED BY <1>1, <3>3, <4>1
    <3>4. CASE (i \in 1..n /\ j \in (n + 1)..(n + k)) \/ (j \in 1..n /\ i \in (n + 1)..(n + k))
      BY <1>3, <1>4, <1>5, <3>2, <3>4
    <3> QED BY <1>6, <3>1, <3>3, <3>4
  <2>4. \A e \in removing' : \E i \in Entries' : watcherEvents'[i].evType = e
    <3>1. Entries \subseteq Entries' BY <1>1, <1>4 DEF Entries
    <3> QED BY <1>0, <1>3, <1>4, <3>1 DEF Distinct, Entries
  <2> QED BY <2>1, <2>3, <2>4 DEF Distinct
<1>12. OneRunner'
  <2>1. ASSUME NEW r \in Runners, listener'[r] # "none"
        PROVE  \/ r[1] \in 1..n /\ listener[r] # "none"
               \/ r[1] \in (n + 1)..(n + k) /\ r[2] = "AddWatcher"
    BY <1>0, <1>7, <2>1 DEF OneRunner, Entries
  <2>2. \A r, s \in Runners : r[1] = s[1] /\ r[2] = s[2] => r = s BY DEF Runners
  <2>3. (1..n) \cap ((n + 1)..(n + k)) = {} BY <1>1
  <2>4. \A r \in Runners : listener'[r] # "none" => r[1] \in Entries' BY <1>1, <1>4, <2>1 DEF Entries
  <2>5. \A r, s \in Runners : listener'[r] # "none" /\ listener'[s] # "none" /\ r[1] = s[1] => r = s
    BY <1>0, <2>1, <2>2, <2>3 DEF OneRunner
  <2> QED BY <2>4, <2>5 DEF OneRunner
<1>13. \A i \in 1..n : Told(i) => Told(i)' BY <1>3, <1>7 DEF Told
<1>14. KnownOrTold'
  <2> SUFFICES ASSUME NEW i \in Entries'
               PROVE  watcherEvents'[i].watcher \in watchersMap' \/ ToTell(i)' \/ Told(i)'
    BY DEF KnownOrTold
  <2>1. CASE i \in 1..n
    <3>1. ToTell(i) => ToTell(i)' BY <1>3, <1>4, <2>1 DEF ToTell, callerVars
    <3> QED BY <1>0, <1>3, <1>4, <1>13, <2>1, <3>1 DEF KnownOrTold, Entries
  <2>2. CASE i \in (n + 1)..(n + k) BY <1>3, <1>5, <2>2
  <2> QED BY <1>6, <2>1, <2>2
<1>15. MarksAreKept'
  <2> SUFFICES ASSUME NEW i \in Entries', watcherEvents'[i].evType \in removing' PROVE Marked(i)'
    BY DEF MarksAreKept
  <2>1. PICK j \in Entries : watcherEvents[j].evType = watcherEvents'[i].evType
    BY <1>0, <1>3 DEF Distinct
  <2>2. j \in Entries' /\ watcherEvents'[j].evType = watcherEvents'[i].evType
    BY <1>1, <1>4, <2>1 DEF Entries
  <2>3. i = j BY <1>11, <2>2 DEF Distinct
  <2>4. Marked(i) BY <1>0, <1>3, <2>1, <2>3 DEF MarksAreKept
  <2>5. i \in 1..n BY <2>1, <2>3 DEF Entries
  <2> QED BY <1>3, <1>13, <2>4, <2>5 DEF Marked, callerVars
<1> QED BY <1>8, <1>9, <1>10, <1>11, <1>12, <1>14, <1>15 DEF RemovalInv

\* RemoveWatcher, before it has the mutex: the manager runs.
LEMMA RemovePreserves ==
  ASSUME Orderly, RemovalInv, NEW p \in Callers, NEW w \in Watchers, RemoveWatcher(p, w)
  PROVE  RemovalInv'
<1> USE DEF RemovalInv, Entries
<1>1. /\ UNCHANGED <<watchersMap, watcherEvents, removing, mu, running, next, last, listener, runPc>>
      /\ running = TRUE /\ pc[p] \in {"ready", "callback"}
      /\ pc' = [pc EXCEPT ![p] = "lock"] /\ arg' = [arg EXCEPT ![p] = w]
  BY DEF RemoveWatcher, Orderly, Idle, Goto, managerVars, runnerVars, Typed
<1>2. mu # p BY <1>1 DEF Locking
<1>3. /\ pc' \in [Callers -> {"ready", "off", "select", "callback", "ended", "lock", "range", "loop", "send"}]
      /\ arg' \in [Callers -> Watchers \cup {None}]
      /\ pc'[p] = "lock" /\ \A q \in Callers \ {p} : pc'[q] = pc[q] /\ arg'[q] = arg[q]
  BY <1>1 DEF Typed
<1>4. Typed' BY <1>1, <1>3 DEF Typed
<1>5. Locking' BY <1>1, <1>2, <1>3 DEF Locking
<1>6. Launching' BY <1>1, <1>3 DEF Launching, Callers
<1>7. Distinct' BY <1>1 DEF Distinct
<1>8. OneRunner' BY <1>1 DEF OneRunner
<1>9. KnownOrTold' BY <1>1, <1>2, <1>3 DEF KnownOrTold, ToTell, Told
<1>10. MarksAreKept' BY <1>1, <1>2, <1>3 DEF MarksAreKept, Marked, Told
<1> QED BY <1>4, <1>5, <1>6, <1>7, <1>8, <1>9, <1>10

\* Where a call returns to is not in the loop.
LEMMA ReturnLeavesTheLoop ==
  ASSUME Typed, NEW p \in Callers, Return(p)
  PROVE  /\ pc' \in [Callers -> {"ready", "off", "select", "callback", "ended", "lock", "range", "loop", "send"}]
         /\ arg' \in [Callers -> Watchers \cup {None}]
         /\ next' \in [Callers -> Nat \ {0}] /\ last' \in [Callers -> Nat]
         /\ pc'[p] \in {"ready", "callback"} /\ last'[p] = 0
         /\ \A q \in Callers \ {p} : /\ pc'[q] = pc[q] /\ arg'[q] = arg[q]
                                     /\ next'[q] = next[q] /\ last'[q] = last[q]
BY DEF Typed, Return, Goto, Home

\* removeLookup: the watcher leaves the map, and its entries are still to be told.
LEMMA LookupPreserves ==
  ASSUME RemovalInv, NEW p \in Callers, removeLookup(p)
  PROVE  RemovalInv'
<1> USE DEF RemovalInv, Entries
<1>1. /\ UNCHANGED <<watcherEvents, removing, running, listener, runPc>>
      /\ pc[p] = "lock" /\ mu = None /\ watchersMap' = watchersMap \ {arg[p]}
  BY DEF removeLookup, runnerVars
<1>a. p # None BY EventsAssumption DEF Callers
<1>b. Distinct' /\ OneRunner' BY <1>1 DEF Distinct, OneRunner
<1>2. CASE arg[p] \in watchersMap
  <2>1. mu' = p /\ pc' = [pc EXCEPT ![p] = "range"] /\ UNCHANGED <<arg, next, last>>
    BY <1>2 DEF removeLookup, Goto
  <2>2. /\ pc' \in [Callers -> {"ready", "off", "select", "callback", "ended", "lock", "range", "loop", "send"}]
        /\ pc'[p] = "range" /\ \A q \in Callers \ {p} : pc'[q] = pc[q]
    BY <2>1 DEF Typed
  <2>3. Typed' BY <1>1, <2>1, <2>2 DEF Typed
  <2>4. Locking' BY <1>1, <1>a, <2>1, <2>2, EventsAssumption DEF Locking, Callers
  <2>5. Launching' BY <1>1, <2>1, <2>2 DEF Launching, Callers
  <2>6. \A i : Told(i) => Told(i)' BY <1>1 DEF Told
  <2>7. ASSUME NEW i \in Entries'
        PROVE  watcherEvents'[i].watcher \in watchersMap' \/ ToTell(i)' \/ Told(i)'
    <3>1. CASE watcherEvents[i].watcher = arg[p] BY <1>1, <2>1, <2>2, <3>1 DEF ToTell
    <3>2. CASE watcherEvents[i].watcher # arg[p]
      <4>1. ~ToTell(i) BY <1>1, EventsAssumption DEF ToTell, Callers
      <4> QED BY <1>1, <2>6, <2>7, <3>2, <4>1 DEF KnownOrTold
    <3> QED BY <3>1, <3>2
  <2>8. ASSUME NEW i \in Entries', watcherEvents'[i].evType \in removing' PROVE Marked(i)'
    <3>1. Told(i) BY <1>1, <2>8, EventsAssumption DEF MarksAreKept, Marked, Callers
    <3> QED BY <2>6, <3>1 DEF Marked
  <2> QED BY <1>b, <2>3, <2>4, <2>5, <2>7, <2>8 DEF KnownOrTold, MarksAreKept
<1>3. CASE arg[p] \notin watchersMap
  <2>1. Return(p) /\ mu' = mu /\ watchersMap' = watchersMap BY <1>1, <1>3 DEF removeLookup
  <2>2. Typed' BY <1>1, <2>1, ReturnLeavesTheLoop DEF Typed
  <2>3. Locking'
    <3>1. last'[p] <= Len(watcherEvents) BY <2>1, ReturnLeavesTheLoop DEF Typed
    <3> QED BY <1>1, <1>a, <2>1, <3>1, ReturnLeavesTheLoop DEF Locking
  <2>4. Launching' BY <1>1, <2>1, ReturnLeavesTheLoop DEF Launching, Callers
  <2>5. KnownOrTold'
    <3>1. \A i \in Entries : ~ToTell(i) BY <1>1, EventsAssumption DEF ToTell, Callers
    <3> QED BY <1>1, <2>1, <3>1 DEF KnownOrTold, Told
  <2>6. MarksAreKept' BY <1>1, <1>a, <2>1, ReturnLeavesTheLoop DEF MarksAreKept, Marked, Told
  <2> QED BY <1>b, <2>2, <2>3, <2>4, <2>5, <2>6
<1> QED BY <1>2, <1>3

\* removeRange: the loop begins at the first entry and sees those there are.
LEMMA RangePreserves ==
  ASSUME RemovalInv, NEW p \in Callers, removeRange(p)
  PROVE  RemovalInv'
<1> USE DEF RemovalInv, Entries
<1>1. /\ UNCHANGED <<watchersMap, watcherEvents, removing, mu, running, arg, listener, runPc>>
      /\ pc[p] = "range" /\ pc' = [pc EXCEPT ![p] = "loop"]
      /\ next' = [next EXCEPT ![p] = 1] /\ last' = [last EXCEPT ![p] = Len(watcherEvents)]
  BY DEF removeRange, Goto, managerVars, runnerVars
<1>2. mu = p /\ Len(watcherEvents) \in Nat BY <1>1 DEF Locking, Typed
<1>3. /\ pc' \in [Callers -> {"ready", "off", "select", "callback", "ended", "lock", "range", "loop", "send"}]
      /\ next' \in [Callers -> Nat \ {0}] /\ last' \in [Callers -> Nat]
      /\ pc'[p] = "loop" /\ next'[p] = 1 /\ last'[p] = Len(watcherEvents)
      /\ \A q \in Callers \ {p} : pc'[q] = pc[q] /\ next'[q] = next[q] /\ last'[q] = last[q]
  BY <1>1, <1>2 DEF Typed
<1>4. Typed' BY <1>1, <1>3 DEF Typed
<1>5. Locking' BY <1>1, <1>2, <1>3 DEF Locking
<1>6. Launching' BY <1>1, <1>3 DEF Launching, Callers
<1>7. Distinct' /\ OneRunner' BY <1>1 DEF Distinct, OneRunner
<1>8. \A i \in Entries : ToTell(i) => ToTell(i)' BY <1>1, <1>2, <1>3 DEF ToTell
<1>9. KnownOrTold' BY <1>1, <1>8 DEF KnownOrTold, Told
<1>10. MarksAreKept' BY <1>1, <1>2, <1>3 DEF MarksAreKept, Marked, Told
<1> QED BY <1>4, <1>5, <1>6, <1>7, <1>9, <1>10

\* removeEntry: an entry that the loop passes is another watcher's, or told already.
LEMMA EntryPreserves ==
  ASSUME RemovalInv, NEW p \in Callers, removeEntry(p)
  PROVE  RemovalInv'
<1> USE DEF RemovalInv, Entries
<1>1. /\ UNCHANGED <<watchersMap, watcherEvents, running, listener, runPc>> /\ pc[p] = "loop"
  BY DEF removeEntry, runnerVars
<1>2. mu = p /\ running = TRUE /\ p # None BY <1>1, EventsAssumption DEF Locking, Callers
<1>3. \A i : Told(i) => Told(i)' BY <1>1 DEF Told
<1>b. OneRunner' BY <1>1 DEF OneRunner
<1>4. CASE next[p] > last[p] /\ mu' = None /\ Return(p) /\ UNCHANGED removing
  <2>1. Typed' BY <1>1, <1>4, ReturnLeavesTheLoop DEF Typed
  <2>2. Locking'
    <3>1. last'[p] <= Len(watcherEvents) BY <1>4, ReturnLeavesTheLoop DEF Typed
    <3> QED BY <1>1, <1>2, <1>4, <3>1, ReturnLeavesTheLoop, EventsAssumption DEF Locking, Callers
  <2>3. Launching' BY <1>1, <1>4, ReturnLeavesTheLoop DEF Launching, Callers
  <2>4. \A i \in Entries : ~ToTell(i)
    BY <1>1, <1>2, <1>4 DEF ToTell, Typed
  <2>5. KnownOrTold' BY <1>1, <1>3, <2>4 DEF KnownOrTold
  <2>6. \A i \in Entries : Marked(i) => Told(i) BY <1>1, <1>2 DEF Marked
  <2>7. MarksAreKept' BY <1>1, <1>3, <1>4, <2>6 DEF MarksAreKept, Marked
  <2>8. Distinct' BY <1>1, <1>4 DEF Distinct
  <2> QED BY <1>b, <2>1, <2>2, <2>3, <2>5, <2>7, <2>8
<1>5. ASSUME next[p] <= last[p], mu' = mu, UNCHANGED <<arg, last>>,
             watcherEvents[next[p]].evType \in removing \/ watcherEvents[next[p]].watcher # arg[p],
             next' = [next EXCEPT ![p] = @ + 1], UNCHANGED <<removing, pc>>
      PROVE  RemovalInv'
  <2>1. next' \in [Callers -> Nat \ {0}] /\ next'[p] = next[p] + 1 /\ \A q \in Callers \ {p} : next'[q] = next[q]
    BY <1>5 DEF Typed
  <2>2. Typed' BY <1>1, <1>5, <2>1 DEF Typed
  <2>3. Locking' BY <1>1, <1>5 DEF Locking
  <2>4. Launching' BY <1>1, <1>5 DEF Launching
  <2>5. Distinct' BY <1>1, <1>5 DEF Distinct
  <2>6. ASSUME NEW i \in Entries, ToTell(i) PROVE ToTell(i)' \/ Told(i)
    <3>1. arg[p] = watcherEvents[i].watcher /\ next[p] <= i /\ i <= last[p] BY <1>1, <1>2, <2>6 DEF ToTell
    <3>2. CASE i = next[p]
      <4>1. watcherEvents[i].evType \in removing BY <1>5, <3>1, <3>2
      <4> QED BY <1>1, <1>2, <4>1 DEF MarksAreKept, Marked
    <3>3. CASE i # next[p]
      <4>1. next'[p] <= i BY <2>1, <3>1, <3>3 DEF Typed
      <4> QED BY <1>1, <1>2, <1>5, <3>1, <4>1 DEF ToTell
    <3> QED BY <3>2, <3>3
  <2>7. KnownOrTold' BY <1>1, <1>3, <2>6 DEF KnownOrTold
  <2>8. \A i \in Entries : Marked(i) => Told(i) BY <1>1, <1>2 DEF Marked
  <2>9. MarksAreKept' BY <1>1, <1>3, <1>5, <2>8 DEF MarksAreKept, Marked
  <2> QED BY <1>b, <2>2, <2>3, <2>4, <2>5, <2>7, <2>9
<1>6. ASSUME next[p] <= last[p], mu' = mu, UNCHANGED <<arg, last, next>>,
             removing' = removing \cup {watcherEvents[next[p]].evType},
             next[p] \in Entries, pc' = [pc EXCEPT ![p] = "send"]
      PROVE  RemovalInv'
  <2>1. /\ pc' \in [Callers -> {"ready", "off", "select", "callback", "ended", "lock", "range", "loop", "send"}]
        /\ pc'[p] = "send" /\ \A q \in Callers \ {p} : pc'[q] = pc[q]
    BY <1>6 DEF Typed
  <2>2. Typed' BY <1>1, <1>6, <2>1 DEF Typed
  <2>3. Locking' BY <1>1, <1>2, <1>6, <2>1 DEF Locking
  <2>4. Launching' BY <1>1, <1>6, <2>1 DEF Launching, Callers
  <2>5. Distinct' BY <1>1, <1>6 DEF Distinct
  <2>6. \A i \in Entries : ToTell(i) => ToTell(i)' BY <1>1, <1>2, <1>6, <2>1 DEF ToTell
  <2>7. KnownOrTold' BY <1>1, <1>3, <2>6 DEF KnownOrTold
  <2>8. ASSUME NEW i \in Entries', watcherEvents'[i].evType \in removing' PROVE Marked(i)'
    <3>1. CASE i = next[p] BY <1>2, <1>6, <2>1, <3>1 DEF Marked
    <3>2. CASE i # next[p]
      <4>1. watcherEvents[i].evType \in removing BY <1>1, <1>6, <2>8, <3>2 DEF Distinct
      <4>2. Told(i) BY <1>1, <1>2, <2>8, <4>1 DEF MarksAreKept, Marked
      <4> QED BY <1>3, <4>2 DEF Marked
    <3> QED BY <3>1, <3>2
  <2> QED BY <1>b, <2>2, <2>3, <2>4, <2>5, <2>7, <2>8 DEF MarksAreKept
<1>7. next[p] <= last[p] => next[p] \in Entries BY DEF Typed, Locking
<1> QED BY <1>2, <1>4, <1>5, <1>6, <1>7 DEF removeEntry, Goto

\* removeSend: the one goroutine of the entry receives.
LEMMA SendPreserves ==
  ASSUME RemovalInv, NEW p \in Callers, removeSend(p)
  PROVE  RemovalInv'
<1> USE DEF RemovalInv, Entries
<1>1. /\ UNCHANGED <<watchersMap, watcherEvents, removing, mu, running, arg, last, runPc>>
      /\ pc[p] = "send" /\ pc' = [pc EXCEPT ![p] = "loop"] /\ next' = [next EXCEPT ![p] = @ + 1]
  BY DEF removeSend, Goto, managerVars
<1>2. PICK r \in Runners : /\ r[1] = next[p] /\ listener[r] = "wait"
                           /\ listener' = [listener EXCEPT ![r] = "got"]
  BY DEF removeSend
<1>3. mu = p BY <1>1 DEF Locking
<1>4. /\ pc' \in [Callers -> {"ready", "off", "select", "callback", "ended", "lock", "range", "loop", "send"}]
      /\ next' \in [Callers -> Nat \ {0}]
      /\ pc'[p] = "loop" /\ next'[p] = next[p] + 1
      /\ \A q \in Callers \ {p} : pc'[q] = pc[q] /\ next'[q] = next[q]
  BY <1>1 DEF Typed
<1>5. /\ listener' \in [Runners -> {"none", "wait", "got", "cancelled"}]
      /\ \A s \in Runners : (listener[s] = "none" <=> listener'[s] = "none")
                            /\ (listener'[s] = "wait" => listener[s] = "wait" /\ s # r)
  BY <1>2 DEF Typed
<1>6. Typed' BY <1>1, <1>4, <1>5 DEF Typed
<1>7. Locking' BY <1>1, <1>3, <1>4 DEF Locking
<1>8. Launching' BY <1>1, <1>4, <1>5 DEF Launching, Callers
<1>9. Distinct' BY <1>1 DEF Distinct
<1>10. OneRunner' BY <1>1, <1>5 DEF OneRunner
<1>11. \A i : Told(i) => Told(i)' BY <1>1, <1>5 DEF Told
<1>12. ASSUME NEW i \in Entries, i = next[p] PROVE Told(i)'
  <2>1. runPc \in {"wait", "returned"} BY <1>2 DEF Launching, Typed
  <2>2. \A s \in Runners : s[1] = next[p] /\ listener'[s] = "wait" => s = r
    BY <1>2, <1>5 DEF OneRunner
  <2>3. \A s \in Runners : s[1] = next[p] => listener'[s] # "wait" BY <1>5, <2>2
  <2> QED BY <1>1, <1>12, <2>1, <2>3 DEF Told
<1>13. KnownOrTold'
  <2>1. ASSUME NEW i \in Entries, ToTell(i) PROVE ToTell(i)' \/ Told(i)'
    <3>1. arg[p] = watcherEvents[i].watcher /\ next[p] <= i /\ i <= last[p] BY <1>1, <1>3, <2>1 DEF ToTell
    <3>2. CASE i = next[p] BY <1>12, <3>2
    <3>3. CASE i # next[p]
      <4>1. next'[p] <= i BY <1>4, <3>1, <3>3 DEF Typed
      <4> QED BY <1>1, <1>3, <3>1, <4>1 DEF ToTell
    <3> QED BY <3>2, <3>3
  <2> QED BY <1>1, <1>11, <2>1 DEF KnownOrTold
<1>14. MarksAreKept'
  <2>1. ASSUME NEW i \in Entries, Marked(i) PROVE Told(i)'
    <3>1. CASE Told(i) BY <1>11, <3>1
    <3>2. CASE i = next[p] BY <1>12, <3>2
    <3> QED BY <1>3, <2>1, <3>1, <3>2 DEF Marked
  <2> QED BY <1>1, <2>1 DEF MarksAreKept, Marked
<1> QED BY <1>6, <1>7, <1>8, <1>9, <1>10, <1>13, <1>14

\* Run and its launching loop: what is launched waits to be told, and a RemoveWatcher that
\* came before has not passed an entry of its watcher.
LEMMA LaunchPreserves ==
  ASSUME RemovalInv, launchWatchers
  PROVE  RemovalInv'
<1> USE DEF RemovalInv, Entries
<1>1. /\ UNCHANGED <<watchersMap, watcherEvents, removing, running, mu, arg, next, last>>
      /\ runPc = "launch" /\ runPc' = "wait" /\ pc' = [pc EXCEPT ![Dispatcher] = "select"]
      /\ listener' = [r \in Runners |-> IF r \in {<<i, "Run">> : i \in 1..Len(watcherEvents)} THEN "wait"
                                        ELSE listener[r]]
  BY DEF launchWatchers, Launch, Goto
<1>2. Dispatcher \in Callers BY DEF Callers
<1>3. /\ pc' \in [Callers -> {"ready", "off", "select", "callback", "ended", "lock", "range", "loop", "send"}]
      /\ pc[Dispatcher] = "off" /\ pc'[Dispatcher] = "select" /\ \A q \in Callers \ {Dispatcher} : pc'[q] = pc[q]
  BY <1>1, <1>2 DEF Typed, Launching
<1>4. /\ listener' \in [Runners -> {"none", "wait", "got", "cancelled"}]
      /\ \A r \in Runners : listener'[r] # "none" => r[1] \in Entries /\ r[2] = "Run"
  BY <1>1 DEF Typed, Launching
<1>5. Typed' BY <1>1, <1>3, <1>4 DEF Typed
<1>6. Locking' BY <1>1, <1>2, <1>3 DEF Locking
<1>7. Launching' BY <1>1 DEF Launching
<1>8. Distinct' BY <1>1 DEF Distinct
<1>9. OneRunner'
  <2>1. \A r, s \in Runners : r[1] = s[1] /\ r[2] = s[2] => r = s BY DEF Runners
  <2> QED BY <1>1, <1>4, <2>1 DEF OneRunner
<1>10. \A i : ~Told(i) BY <1>1 DEF Told
<1>11. mu # Dispatcher BY <1>2, <1>3 DEF Locking
<1>12. KnownOrTold' BY <1>1, <1>3, <1>10, <1>11 DEF KnownOrTold, ToTell
<1>13. MarksAreKept' BY <1>1, <1>3, <1>10, <1>11 DEF MarksAreKept, Marked
<1> QED BY <1>5, <1>6, <1>7, <1>8, <1>9, <1>12, <1>13

\* Run before its loop, its return, and the completion loop that takes a mark away.
LEMMA RunPreserves ==
  ASSUME RemovalInv, Run \/ RunReturns \/ deleteRemovingEvent
  PROVE  RemovalInv'
<1> USE DEF RemovalInv, Entries
<1>1. /\ UNCHANGED <<watchersMap, watcherEvents, mu, callerVars, listener>> /\ removing' \subseteq removing
      /\ \/ runPc = "idle" /\ runPc' = "launch" /\ running' = TRUE
         \/ runPc \in {"wait", "returned"} /\ runPc' \in {"wait", "returned"} /\ running' = running
         \/ runPc' = runPc /\ running' = running
  BY DEF Run, RunReturns, deleteRemovingEvent, managerVars, runnerVars, callerVars
<1>2. UNCHANGED <<pc, arg, next, last>> BY <1>1 DEF callerVars
<1>3. Typed' BY <1>1, <1>2 DEF Typed
<1>4. Locking' BY <1>1, <1>2 DEF Locking
<1>5. Launching' BY <1>1, <1>2 DEF Launching
<1>6. Distinct' BY <1>1 DEF Distinct
<1>7. OneRunner' BY <1>1 DEF OneRunner
<1>8. \A i : Told(i) => Told(i)' BY <1>1 DEF Told
<1>9. KnownOrTold' BY <1>1, <1>2, <1>8 DEF KnownOrTold, ToTell
<1>10. MarksAreKept' BY <1>1, <1>2, <1>8 DEF MarksAreKept, Marked
<1> QED BY <1>3, <1>4, <1>5, <1>6, <1>7, <1>9, <1>10

\* Every step of the manager keeps the invariant.
LEMMA RemovalStepPreserves == Orderly /\ RemovalInv /\ [Next]_vars => RemovalInv'
<1> SUFFICES ASSUME Orderly, RemovalInv, [Next]_vars PROVE RemovalInv'
  OBVIOUS
<1>1. ASSUME NEW p \in Callers,
             \/ \E w \in Watchers : AddWatcher(p, w) \/ RemoveWatcher(p, w)
             \/ CallerStep(p)
      PROVE  RemovalInv'
  BY <1>1, AddPreserves, RemovePreserves, LookupPreserves, RangePreserves, EntryPreserves, SendPreserves
     DEF CallerStep
<1>2. ASSUME NEW r \in Runners, listen(r) \/ endListener(r) PROVE RemovalInv'
  <2>1. /\ UNCHANGED <<watchersMap, watcherEvents, removing, mu, running, callerVars, runPc>>
        /\ \E s \in Runners, l \in {"got", "cancelled"} :
              listener[s] # "none" /\ listener' = [listener EXCEPT ![s] = l]
    BY <1>2 DEF listen, endListener, managerVars
  <2> QED BY <2>1, TellingPreserves
<1>3. ASSUME NEW r \in Runners, watcherReturns(r) \/ finish(r) \/ watcherDone(r) PROVE RemovalInv'
  <2>1. UNCHANGED removalVars
    BY <1>3 DEF watcherReturns, finish, watcherDone, managerVars, removalVars
  <2> QED BY <2>1, RemovalStutters
<1>4. ASSUME \/ \E r \in Runners : dispatch(r)
             \/ callbackReturns \/ dispatcherEnds
      PROVE  RemovalInv'
  <2>1. /\ UNCHANGED <<watchersMap, watcherEvents, removing, mu, running, arg, next, last, listener, runPc>>
        /\ pc[Dispatcher] \in {"select", "callback"}
        /\ pc' = pc \/ \E l \in {"select", "callback", "ended"} : Goto(Dispatcher, l)
    BY <1>4 DEF dispatch, callbackReturns, dispatcherEnds, managerVars, runnerVars
  <2>2. CASE pc' = pc BY <2>1, <2>2, RemovalStutters DEF removalVars, callerVars
  <2> QED BY <2>1, <2>2, DispatcherPreserves
<1>5. CASE \/ \E ev \in Events, s \in Subs : Subscribe(ev, s) \/ Unsubscribe(ev, s)
           \/ completionStarts \/ completionEnds \/ CancelContext \/ UNCHANGED vars
  <2>1. UNCHANGED removalVars
    BY <1>5 DEF Subscribe, Unsubscribe, completionStarts, completionEnds, CancelContext, vars, managerVars,
                runnerVars, removalVars
  <2> QED BY <2>1, RemovalStutters
<1> QED BY <1>1, <1>2, <1>3, <1>4, <1>5, LaunchPreserves, RunPreserves DEF Next, RunnerStep, CompletionStep

\* RemoveWatcher: a watcher that runs and waits to be told is known to the manager, or is the
\* one whose removal is under way, whoever adds and removes what at the same time, callbacks
\* included, and whenever a watcher gives up by itself or the context is cancelled.
THEOREM NoWatcherIsLeftBehind == Orderly => (Spec => []RemovedAreTold)
<1> SUFFICES ASSUME Orderly PROVE Spec => []RemovedAreTold
  OBVIOUS
<1>1. Init => RemovalInv BY RemovalInitial
<1>2. RemovalInv /\ [Next]_vars => RemovalInv' BY RemovalStepPreserves
<1>3. RemovalInv => RemovedAreTold
  <2> SUFFICES ASSUME RemovalInv, NEW r \in Runners, listener[r] = "wait"
               PROVE  \/ WatcherOf(r) \in watchersMap
                      \/ \E p \in Callers : mu = p /\ arg[p] = WatcherOf(r)
    BY DEF RemovedAreTold
  <2>1. r[1] \in Entries BY DEF RemovalInv, OneRunner
  <2>2. ~Told(r[1]) BY DEF Told
  <2>3. watcherEvents[r[1]].watcher \in watchersMap \/ ToTell(r[1])
    BY <2>1, <2>2 DEF RemovalInv, KnownOrTold
  <2> QED BY <2>3 DEF ToTell, WatcherOf
<1> QED BY <1>1, <1>2, <1>3, PTL DEF Spec

=============================================================================
