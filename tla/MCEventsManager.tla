--------------------------- MODULE MCEventsManager ---------------------------
(***************************************************************************)
(* Instances of EventsManager for TLC.                                     *)
(***************************************************************************)
EXTENDS EventsManager, TLC

CONSTANTS metadata, sshca, longpoll, read

\* One event type for each watcher, as the watchers of the agent have.
OneEach == (metadata :> <<longpoll>>) @@ (sshca :> <<read>>)

=============================================================================
