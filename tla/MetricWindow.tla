---------------------------- MODULE MetricWindow ----------------------------
(***************************************************************************)
(* What the metrics kept for a plugin promise: the most recent ones, in    *)
(* the order they were collected, at most Capacity of them, and each       *)
(* reported at most once.                                                  *)
(***************************************************************************)
EXTENDS Naturals, Sequences

CONSTANTS
    Metrics,    \* measurements
    Capacity    \* how many are kept

VARIABLES
    window,     \* the metrics kept, oldest first
    reported    \* the metrics in the last report

vars == <<window, reported>>

Init == window = <<>> /\ reported = <<>>

Collect(m) ==
    /\ window' = IF Len(window) = Capacity THEN Append(Tail(window), m) ELSE Append(window, m)
    /\ UNCHANGED reported

Report == reported' = window /\ window' = <<>>

Next == (\E m \in Metrics : Collect(m)) \/ Report

Spec == Init /\ [][Next]_vars

=============================================================================
