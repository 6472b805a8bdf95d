----------------------------- MODULE Descriptor -----------------------------
(***************************************************************************)
(* What the agent reads out of the metadata (internal/metadata): the       *)
(* attributes of the instance and of the project, and how the two combine. *)
(* The text of an attribute is a boolean or anything else, which counts as *)
(* not there.                                                              *)
(***************************************************************************)

Texts == {"true", "false", "other"}

\* strconv.ParseBool into a *bool.
ParseBool(text) == IF text \in {"true", "false"} THEN text ELSE "nil"

\* attributes.UnmarshalJSON, for a set of keys with boolean values.
UnmarshalFlags(raw) == [k \in DOMAIN raw |-> ParseBool(raw[k])]

\* The keys of sshKeys, the old attribute, block those of the project.
UnmarshalSSHKeys(sshKeys, oldSSHKeys, blockProjectKeys) ==
    [keys |-> sshKeys \cup oldSSHKeys,
     blocked |-> ParseBool(blockProjectKeys) = "true" \/ oldSSHKeys # {}]

\* windowsKeys.UnmarshalJSON: a line that is malformed, incomplete or expired is left out.
UnmarshalWindowsKeys(lines, bad, expired) == (lines \ bad) \ expired

\* A *bool of the instance comes before that of the project.
instanceOverProject(instance, project, default) ==
    IF instance # "nil" THEN instance = "true"
    ELSE IF project # "nil" THEN project = "true" ELSE default

OSLoginEnabled(instance, project) ==
    instanceOverProject(instance["enable-oslogin"], project["enable-oslogin"], FALSE)

TwoFactorEnabled(instance, project) ==
    instanceOverProject(instance["enable-oslogin-2fa"], project["enable-oslogin-2fa"], FALSE)

SecurityKeyEnabled(instance, project) ==
    instanceOverProject(instance["enable-oslogin-sk"], project["enable-oslogin-sk"], FALSE)

CertRequiredEnabled(instance, project) ==
    instanceOverProject(instance["enable-oslogin-certificates"], project["enable-oslogin-certificates"], FALSE)

\* Without an attribute the core plugin is what its configuration file says.
HasCorePluginEnabled(instance, project, isCorePluginEnabled) ==
    instanceOverProject(instance, project, isCorePluginEnabled)

UserSSHKeys(instance, project) ==
    instance.keys \cup (IF instance.blocked THEN {} ELSE project.keys)
=============================================================================
