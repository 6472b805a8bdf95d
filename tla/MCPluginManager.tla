-------------------------- MODULE MCPluginManager --------------------------
(***************************************************************************)
(* Instances of PluginManager for TLC.                                     *)
(***************************************************************************)
EXTENDS PluginManager, TLC

\* No plugin has a local manifest; or one does.
NoLocal == [n \in Names |-> None]
AllLocal == [n \in Names |-> CHOOSE r \in Revs : TRUE]

\* Pids and request slots are interchangeable.
Symmetry == Permutations(Pids) \cup Permutations(Slots)

=============================================================================
