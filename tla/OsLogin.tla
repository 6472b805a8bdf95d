------------------------------ MODULE OsLogin ------------------------------
(***************************************************************************)
(* The OS Login module of the core plugin (cmd/core_plugin/oslogin): on a  *)
(* metadata event it writes, or rolls back, its blocks in the              *)
(* configuration files of sshd, nsswitch, PAM and group, restarts the      *)
(* services, and starts or stops the handler and the watcher of the pipe   *)
(* through which sshd reads the trusted certificates.  Any step may fail;  *)
(* the process may be restarted between two steps.                         *)
(***************************************************************************)
EXTENDS Naturals, Sequences, Descriptor

CONSTANTS
    OlFlags,        \* the attributes that vary, enable-oslogin among them
    MaxOlChanges,   \* bound: changes of the metadata
    MaxOlRestarts,  \* bound: restarts of the core plugin
    MaxOlFaults     \* bound: steps that fail

VARIABLES
    wantedMode,             \* the metadata
    prevMetadata,           \* osloginModule.prevMetadata: a mode or {"nil"}
    olEnabled,              \* osloginModule.enabled
    failedConfiguration,
    olPc,                   \* what is left of the setup or the rollback in progress
    olMode,                 \* the descriptor it works with
    olErrors,               \* a step of the setup has failed
    olFile,                 \* what the configuration files hold
    sshdRuns,               \* the content of sshd_config that sshd runs with
    pipeHandler, pipeWatch, \* pipeEventHandler and pipeEventWatcher are there
    olLeft, olRestarts, olFaults

\* The attributes of an instance or a project; the ones that do not vary are not there.
AllFlags == {"enable-oslogin", "enable-oslogin-2fa", "enable-oslogin-sk", "enable-oslogin-certificates"}
OlAttributes == {UnmarshalFlags([k \in AllFlags |-> IF k \in OlFlags THEN raw[k] ELSE "other"]) :
                     raw \in [OlFlags -> Texts]}

\* OS Login is off, or on with a set of features.
Off == {"off"}
modeOf(instance, project) ==
    IF ~OSLoginEnabled(instance, project) THEN Off
    ELSE {f \in {"2fa", "sk", "certs"} :
            \/ f = "2fa" /\ TwoFactorEnabled(instance, project)
            \/ f = "sk" /\ SecurityKeyEnabled(instance, project)
            \/ f = "certs" /\ CertRequiredEnabled(instance, project)}

Modes == {modeOf(i, p) : i \in OlAttributes, p \in OlAttributes}

\* sshd reads the pipe for certificates, without security keys.
CertModes == {m \in Modes : "certs" \in m /\ "sk" \notin m}

vars == <<wantedMode, prevMetadata, olEnabled, failedConfiguration, olPc, olMode, olErrors,
          olFile, sshdRuns, pipeHandler, pipeWatch, olLeft, olRestarts, olFaults>>

Files == {"sshd", "nsswitch", "pam", "group"}
setupSteps == <<"dirs", "sshd", "nsswitch", "pam", "group", "services", "sudoers">>
rollbackSteps == <<"sshd", "nsswitch", "pam", "group", "services">>

Init ==
    /\ wantedMode \in Modes /\ prevMetadata = {"nil"} /\ olEnabled = FALSE
    /\ failedConfiguration = FALSE /\ olPc = <<>> /\ olMode = Off /\ olErrors = FALSE
    /\ olFile = [f \in Files |-> Off] /\ sshdRuns = Off
    /\ pipeHandler = FALSE /\ pipeWatch = FALSE
    /\ olLeft = MaxOlChanges /\ olRestarts = MaxOlRestarts
    /\ olFaults = MaxOlFaults

\* textconfig.Apply and setupNSSwitch: what a file holds once it was set up for a mode.
\* sshd and PAM depend on the mode; nsswitch and group do not.
content(f, mode) == IF mode = Off THEN Off ELSE IF f \in {"sshd", "pam"} THEN mode ELSE {"on"}

isOSLoginConfiguredOnDisk == \E f \in Files : olFile[f] # Off

\* External: the metadata changes.
changeMode ==
    /\ olLeft > 0 /\ olLeft' = olLeft - 1
    /\ \E m \in Modes : m # wantedMode /\ wantedMode' = m
    /\ UNCHANGED <<prevMetadata, olEnabled, failedConfiguration, olPc, olMode, olErrors, olFile,
                   sshdRuns, pipeHandler, pipeWatch, olRestarts, olFaults>>

\* osloginSetup for the descriptor of an event: nothing to do when the metadata has not
\* changed and the last attempt succeeded, or when OS Login is off and was never on.
osloginSetup ==
    /\ olPc = <<>>
    /\ prevMetadata # wantedMode \/ failedConfiguration
    /\ prevMetadata' = wantedMode /\ olMode' = wantedMode /\ olErrors' = FALSE
    /\ IF wantedMode = Off
       THEN /\ olPc' = IF ~olEnabled /\ ~isOSLoginConfiguredOnDisk THEN <<>> ELSE rollbackSteps
            /\ UNCHANGED <<pipeHandler, pipeWatch>>
       ELSE /\ olPc' = setupSteps
            /\ pipeHandler' = TRUE /\ pipeWatch' = TRUE
    /\ UNCHANGED <<wantedMode, olEnabled, failedConfiguration, olFile, sshdRuns, olLeft,
                   olRestarts, olFaults>>

\* Each file is cleaned up first, so an attempt that fails leaves the old content or none.
write(f, ok) ==
    \E c \in IF ok THEN {content(f, olMode)} ELSE {Off, olFile[f]} : olFile' = [olFile EXCEPT ![f] = c]

fault(ok) == olFaults' = (IF ok THEN olFaults ELSE olFaults - 1) /\ (ok \/ olFaults > 0)

\* restartServices: sshd reads its configuration.
restartServices(ok) == sshdRuns' = IF ok THEN olFile["sshd"] ELSE sshdRuns

\* A step of osloginSetup.  An error is remembered and the next step is taken, except that
\* without the directories of SLES 16 nothing more is done.
setupStep(ok) ==
    LET s == Head(olPc) IN
    /\ olPc # <<>> /\ olMode # Off /\ fault(ok)
    /\ IF s \in Files THEN write(s, ok) ELSE UNCHANGED olFile
    /\ IF s = "services" THEN restartServices(ok) ELSE UNCHANGED sshdRuns
    /\ olErrors' = (olErrors \/ ~ok)
    /\ olPc' = IF s = "dirs" /\ ~ok THEN <<>> ELSE Tail(olPc)
    /\ IF olPc' = <<>>
       THEN olEnabled' = ~olErrors' /\ failedConfiguration' = olErrors'
       ELSE UNCHANGED <<olEnabled, failedConfiguration>>
    /\ UNCHANGED <<wantedMode, prevMetadata, olMode, pipeHandler, pipeWatch, olLeft, olRestarts>>

\* Faulty variant: a failed rollback is not remembered.
disableOSLogin_Forgets(ok) ==
    LET s == Head(olPc) IN
    /\ olPc # <<>> /\ olMode = Off /\ fault(ok)
    /\ IF s \in Files THEN write(s, ok) ELSE UNCHANGED olFile
    /\ IF s = "services" THEN restartServices(ok) ELSE UNCHANGED sshdRuns
    /\ olPc' = IF ok THEN Tail(olPc) ELSE <<>>
    /\ IF olPc' = <<>>
       THEN olEnabled' = FALSE /\ failedConfiguration' = FALSE /\ pipeHandler' = FALSE /\ pipeWatch' = FALSE
       ELSE UNCHANGED <<olEnabled, failedConfiguration, pipeHandler, pipeWatch>>
    /\ UNCHANGED <<wantedMode, prevMetadata, olMode, olErrors, olLeft, olRestarts>>

\* A step of disableOSLogin.  The first error ends it; at its end, whatever the outcome,
\* the handler and the watcher of the pipe are taken away.
disableOSLogin(ok) ==
    LET s == Head(olPc) IN
    /\ olPc # <<>> /\ olMode = Off /\ fault(ok)
    /\ IF s \in Files THEN write(s, ok) ELSE UNCHANGED olFile
    /\ IF s = "services" THEN restartServices(ok) ELSE UNCHANGED sshdRuns
    /\ olPc' = IF ok THEN Tail(olPc) ELSE <<>>
    /\ IF olPc' = <<>>
       THEN olEnabled' = FALSE /\ failedConfiguration' = ~ok /\ pipeHandler' = FALSE /\ pipeWatch' = FALSE
       ELSE UNCHANGED <<olEnabled, failedConfiguration, pipeHandler, pipeWatch>>
    /\ UNCHANGED <<wantedMode, prevMetadata, olMode, olErrors, olLeft, olRestarts>>

\* The core plugin goes away at any point and is started again.
olRestart ==
    /\ olRestarts > 0 /\ olRestarts' = olRestarts - 1
    /\ prevMetadata' = {"nil"} /\ olEnabled' = FALSE /\ failedConfiguration' = FALSE
    /\ olPc' = <<>> /\ olMode' = Off /\ olErrors' = FALSE
    /\ pipeHandler' = FALSE /\ pipeWatch' = FALSE
    /\ UNCHANGED <<wantedMode, olFile, sshdRuns, olLeft, olFaults>>

Next ==
    \/ changeMode \/ osloginSetup \/ olRestart
    \/ \E ok \in BOOLEAN : setupStep(ok) \/ disableOSLogin(ok)

\* Metadata events keep coming, and a setup or rollback goes on.
Fairness ==
    /\ WF_vars(osloginSetup)
    /\ WF_vars(\E ok \in BOOLEAN : setupStep(ok) \/ disableOSLogin(ok))

Spec == Init /\ [][Next]_vars /\ Fairness

-----------------------------------------------------------------------------
\* The files on disk come to say what the metadata says, and stay so, although steps fail
\* and the plugin is restarted in the middle of a change (osloginSetup, disableOSLogin).
FilesFollowMetadata ==
    \A m \in Modes :
      (wantedMode = m) ~> (wantedMode # m \/ \A f \in Files : olFile[f] = content(f, m))

\* "Make sure we only stop responding to requests to the ssh trusted ca pipe when all
\* user's configuration is rolled back" (disableOSLogin): while this process has OS Login
\* set up, an sshd_config that names the pipe has its handler.
PipeIsAnswered ==
    (prevMetadata # {"nil"} /\ olFile["sshd"] \in CertModes) => pipeHandler

=============================================================================
