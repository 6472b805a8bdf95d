---------------------------- MODULE MCCorePlugin ----------------------------
(***************************************************************************)
(* The events manager and the modules of the core plugin, checked by one   *)
(* run of TLC.  They share no state that the properties are about: what    *)
(* they get from each other (a metadata event, a subscription) each of     *)
(* them models for itself.  part says which one moves in a behaviour: its  *)
(* specification holds of its own variables, and the others stay in a      *)
(* state of their Init.                                                    *)
(***************************************************************************)
EXTENDS EventsManager, TLC

CONSTANTS
    sshca, readEvent, writeEvent,
    e1, e2, EarlyModules, LateModules, NoNetworkRequired, NetworkEnabled, MaxStarts,
    Keys, Entries, NoEntry, MaxMdChanges, MaxModRestarts,
    MaxReads, MaxPipeErrors, MayRemove,
    Users, SshKeySet, LocalUsers, DeprovisionRemove, MaxKeyChanges, MaxKeyRestarts, MaxKeyFaults,
    KeyTypes, MaxInstances, MaxFbStarts,
    MaxJobs, MaxCredsFetches, MaxMtlsRestarts,
    NumNics, Vlans, Addrs, DhclientInstalled, IPForwarding, NamePrefix,
    MaxNetChanges, MaxNetRestarts, MaxNetFaults

\* A stage constructs its own modules.
ASSUME ModulesAssumption == LateModules \cap {EarlyModules[i] : i \in DOMAIN EarlyModules} = {}

\* A disk is that of one instance at least.
ASSUME InstancesAssumption == MaxInstances \in Nat \ {0}

VARIABLES
    part,
    server, starts, cancelFn, cancelled, mdsWatcher, stage, metrics, earlyInitDone, sigHandled,
    initStatus,
    md, regPublicKeys, regDiagnostics, prev, diffKeys, setupKeys, password, answered,
    diagRunning, collected, hwclock, mdLeft, modRestarts,
    pipePc, cancelPc, canceled, ctxCancelled, waitingWrite, pipeExists, readers, writeEnds,
    handlerPc, readsLeft, pipeErrors,
    mdUserKeys, mdOsLogin, lastUserKeyMap, lastEnabled, onetimePlatformSetupFinished,
    supplementalGroups, accountsOf, googleUsers, authorizedKeys, leftAlone, sudoers, keyPc,
    keyTodo, keyUser, keyErrs, keyLeft, keyRestarts, keyFaults,
    instance, instanceIDFile, fbPc, keysLeft, pubLeft, privateKey, publicKey, generated, fbStarts,
    hostRoot, signer, mtlsUp, mtlsJob, jobsMade, useNativeStore, rootCertsInstalled, credsPc,
    fetched, rootFile, clientFile, pfxFile, rootStore, clientStore, prevCtx, num, cleanLeft, clientKept,
    mtlsRestarts,
    netMd, plugged, nicDaemon, netplanCli, managePrimary, systemdConfigDir, prevNetMd, netFailed,
    seenBadMacs, netPc, nicConfigs, activeMgr, mgrIndex, forceReload, rollbackFailed, managed,
    dirConfigured, conf, netplanFile, dropins, listedVlans, loaded, routes, netChanges, netRestarts, netFaults

pluginVars == <<server, starts, cancelFn, cancelled, mdsWatcher, stage, metrics, earlyInitDone,
                sigHandled, initStatus>>
metadataVars == <<md, regPublicKeys, regDiagnostics, prev, diffKeys, setupKeys, password,
                  answered, diagRunning, collected, hwclock, mdLeft, modRestarts>>
pipeVars == <<pipePc, cancelPc, canceled, ctxCancelled, waitingWrite, pipeExists, readers,
              writeEnds, handlerPc, readsLeft, pipeErrors>>
keysVars == <<mdUserKeys, mdOsLogin, lastUserKeyMap, lastEnabled, onetimePlatformSetupFinished,
              supplementalGroups, accountsOf, googleUsers, authorizedKeys, leftAlone, sudoers,
              keyPc, keyTodo, keyUser, keyErrs, keyLeft, keyRestarts, keyFaults>>
bootVars == <<instance, instanceIDFile, fbPc, keysLeft, pubLeft, privateKey, publicKey,
              generated, fbStarts>>
mtlsVars == <<hostRoot, signer, mtlsUp, mtlsJob, jobsMade, useNativeStore, rootCertsInstalled,
              credsPc, fetched, rootFile, clientFile, pfxFile, rootStore, clientStore, prevCtx,
              num, cleanLeft, clientKept, mtlsRestarts>>
networkVars == <<netMd, plugged, nicDaemon, netplanCli, managePrimary, systemdConfigDir, prevNetMd, netFailed,
                 seenBadMacs, netPc, nicConfigs, activeMgr, mgrIndex, forceReload,
                 rollbackFailed, managed, dirConfigured, conf, netplanFile, dropins, listedVlans, loaded,
                 routes, netChanges, netRestarts, netFaults>>

Plugin == INSTANCE CorePlugin
Metadata == INSTANCE MetadataModules
Pipe == INSTANCE PipeWatcher WITH runPc <- pipePc
SshKeyModule == INSTANCE SshKeys
Boot == INSTANCE FirstBoot
Mtls == INSTANCE MtlsCreds
Network == INSTANCE NetworkSetup

\* A watcher with two event types.
TwoEvents == (sshca :> <<readEvent, writeEvent>>)

\* The early modules are run in this order.
EarlyOrder == <<e1, e2>>

-----------------------------------------------------------------------------
Parts == {"events", "plugin", "metadata", "pipe", "keys", "boot", "mtls", "network"}

\* Which of its initial states a part that does not move is in does not matter.
CorePluginInit ==
    /\ part \in Parts
    /\ Init /\ (part # "events" => subscribers = [e \in Events |-> {}])
    /\ Plugin!Init /\ Metadata!Init /\ Pipe!Init /\ SshKeyModule!Init /\ Boot!Init /\ Mtls!Init
    /\ Network!Init
    /\ part # "network" => nicDaemon = "nm" /\ netplanCli /\ managePrimary /\ ~systemdConfigDir

\* All but part p stays as it is.
Only(p) ==
    /\ UNCHANGED part
    /\ p # "events" => UNCHANGED vars
    /\ p # "plugin" => UNCHANGED pluginVars
    /\ p # "metadata" => UNCHANGED metadataVars
    /\ p # "pipe" => UNCHANGED pipeVars
    /\ p # "keys" => UNCHANGED keysVars
    /\ p # "boot" => UNCHANGED bootVars
    /\ p # "mtls" => UNCHANGED mtlsVars
    /\ p # "network" => UNCHANGED networkVars

EventsStep == part = "events" /\ Next /\ Only("events")
PluginStep == part = "plugin" /\ Plugin!Next /\ Only("plugin")
MetadataStep == part = "metadata" /\ Metadata!Next /\ Only("metadata")
PipeStep == part = "pipe" /\ Pipe!Next /\ Only("pipe")
KeysStep == part = "keys" /\ SshKeyModule!Next /\ Only("keys")
BootStep == part = "boot" /\ Boot!Next /\ Only("boot")
MtlsStep == part = "mtls" /\ Mtls!Next /\ Only("mtls")
NetworkStep == part = "network" /\ Network!Next /\ Only("network")

CorePluginNext ==
    \/ EventsStep \/ PluginStep \/ MetadataStep \/ PipeStep
    \/ KeysStep \/ BootStep \/ MtlsStep \/ NetworkStep

allVars == <<part, vars, pluginVars, metadataVars, pipeVars, keysVars, bootVars, mtlsVars,
             networkVars>>

CorePluginSpec == CorePluginInit /\ [][CorePluginNext]_allVars

-----------------------------------------------------------------------------
\* The agent hears that the early initialization is done when it is (CorePlugin).
ReadyMeansInitialized == Plugin!ReadyMeansInitialized

\* A password request that counts as dealt with was answered (MetadataModules).
KnownKeysAreAnswered == Metadata!KnownKeysAreAnswered

\* There is never a second write end of the certificate pipe (PipeWatcher).
OneAnswerAtATime == Pipe!OneAnswerAtATime

\* The accounts on record whose key files were seen to have exactly the keys of the metadata
\* (SshKeys).
RecordedUsersHaveTheirKeys == SshKeyModule!RecordedUsersHaveTheirKeys

\* A host key of an instance is generated once at most (FirstBoot).
HostKeysAreStable == Boot!HostKeysAreStable

\* The client credentials on disk are verified by the root next to them (MtlsCreds).
ClientIsVerified == Mtls!ClientIsVerified

\* Only the active network manager has the NICs in its configuration (NetworkSetup).
OneManagerConfigures == Network!OneManagerConfigures

=============================================================================
