------------------------------ MODULE PluginMap ------------------------------
(***************************************************************************)
(* What the plugin manager promises of its map of plugins, whoever asks:   *)
(* an entry changes only while its plugin is marked as in progress, an     *)
(* object is never put over another one, and one that has left the map, or *)
(* was lost with the process, never comes back.                            *)
(***************************************************************************)
CONSTANTS
    Names,      \* plugin names
    Objects,    \* Plugin objects
    None        \* no object

VARIABLES
    held,       \* name -> the object the manager holds
    busy,       \* names with a request in progress
    used        \* objects that were in the map

Init ==
    /\ held = [n \in Names |-> None]
    /\ busy = {}
    /\ used = {}

Accept(n) ==
    /\ n \notin busy
    /\ busy' = busy \cup {n}
    /\ UNCHANGED <<held, used>>

Add(n, o) ==
    /\ n \in busy /\ held[n] = None /\ o \notin used
    /\ held' = [held EXCEPT ![n] = o]
    /\ used' = used \cup {o}
    /\ UNCHANGED busy

Drop(n) ==
    /\ n \in busy /\ held[n] # None
    /\ held' = [held EXCEPT ![n] = None]
    /\ UNCHANGED <<busy, used>>

Finish(n) ==
    /\ n \in busy
    /\ busy' = busy \ {n}
    /\ UNCHANGED <<held, used>>

\* The process ends, and the next one holds new objects for the plugins that it finds.
Restart ==
    \E found \in SUBSET Names : \E new \in [found -> Objects \ used] :
        /\ \A m, n \in found : new[m] = new[n] => m = n
        /\ held' = [n \in Names |-> IF n \in found THEN new[n] ELSE None]
        /\ busy' = found
        /\ used' = used \cup {new[n] : n \in found}

Next ==
    \/ \E n \in Names : \/ Accept(n) \/ Drop(n) \/ Finish(n)
                        \/ \E o \in Objects : Add(n, o)
    \/ Restart

Spec == Init /\ [][Next]_<<held, busy, used>>
=============================================================================
