---------------------------- MODULE PluginEngine ----------------------------
(***************************************************************************)
(* The workflow engine of the plugin manager: which steps a request runs   *)
(* on a plugin, and which status each step gives the plugin while it runs  *)
(* and when it fails (internal/plugin/manager/pluginengine.go,             *)
(* pluginlauncher.go, plugindisabler.go).                                  *)
(*                                                                         *)
(* A step is a string.  "stop" and "remove" are the two uses of stopStep:  *)
(* "remove" is the one with cleanup = TRUE.                                *)
(***************************************************************************)
EXTENDS Sequences

\* The steps a workflow is made of.
StepKind == {"download", "unpack", "stop", "remove", "launch"}

\* acpb.CurrentPluginStates_StatusValue.
StatusValue == {"INSTALLING", "INSTALL_FAILED", "STARTING", "RUNNING",
                "CRASHED", "STOPPING", "STOPPED", "UNSPECIFIED"}

\* Step.Status(): what runSteps stores before it runs the step.
StepStatus(step) ==
    CASE step \in {"download", "unpack"} -> "INSTALLING"
      [] step \in {"stop", "remove"}     -> "STOPPING"
      [] step = "launch"                 -> "STARTING"

\* Step.ErrorStatus(): what runSteps stores when the step fails.
StepErrorStatus(step) ==
    CASE step \in {"download", "unpack"} -> "INSTALL_FAILED"
      [] step \in {"stop", "remove"}     -> "UNSPECIFIED"
      [] step = "launch"                 -> "CRASHED"

\* A local plugin is already on disk: there is nothing to fetch.
preLaunchWorkflow(local) == IF local THEN <<>> ELSE <<"download", "unpack">>

\* A first installation.
generateInstallWorkflow(local) == preLaunchWorkflow(local) \o <<"launch">>

\* Faulty variant: nothing makes sure that the process is not alive.
launchAgain == <<"launch">>

\* A crashed plugin, or one that cannot take a new configuration at run time.
relaunchWorkflow == <<"stop", "launch">>

=============================================================================
