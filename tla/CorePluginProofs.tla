-------------------------- MODULE CorePluginProofs --------------------------
(***************************************************************************)
(* Safety of the core plugin's parts, for every value of their constants.  *)
(* Each part has an inductive invariant of its own; a step of the sum is a *)
(* step of one part, and leaves the variables of the others alone.         *)
(***************************************************************************)
EXTENDS MCCorePlugin, TLAPS

\* In a step of the sum a component takes a step of its own, or its variables stay.
LEMMA OneModuleMoves ==
  [CorePluginNext]_allVars =>
    /\ Plugin!Next \/ UNCHANGED pluginVars
    /\ Metadata!Next \/ UNCHANGED metadataVars
    /\ Pipe!Next \/ UNCHANGED pipeVars
    /\ SshKeyModule!Next \/ UNCHANGED keysVars
    /\ Boot!Next \/ UNCHANGED bootVars
    /\ Mtls!Next \/ UNCHANGED mtlsVars
    /\ Network!Next \/ UNCHANGED networkVars
BY DEF CorePluginNext, allVars, Only, EventsStep, PluginStep, MetadataStep, PipeStep, KeysStep,
       BootStep, MtlsStep, NetworkStep

-----------------------------------------------------------------------------
(* The first boot                                                          *)

\* The types that the argument needs.
BootTyped ==
    /\ instance \in Boot!Ids
    /\ instanceIDFile \in 0..instance
    /\ fbPc \in {"down", "check", "id", "keys", "boto"}
    /\ keysLeft \subseteq KeyTypes
    /\ generated \in [Boot!Ids -> [KeyTypes -> Nat]]

\* What an instance has not begun it has no keys of, and while its id is not recorded, or a
\* key type is still to come, none of it was generated.
KeysToCome ==
    /\ \A i \in Boot!Ids, t \in KeyTypes : i > instance => generated[i][t] = 0
    /\ instanceIDFile # instance => \A t \in KeyTypes : generated[instance][t] = 0
    /\ fbPc = "id" => instanceIDFile # instance
    /\ fbPc \in {"keys", "boto"} => instanceIDFile = instance
    /\ fbPc = "keys" => \A t \in keysLeft : generated[instance][t] = 0

\* Inductive.
BootInv == BootTyped /\ KeysToCome /\ Boot!HostKeysAreStable

\* A plugin that was never started has generated no key.
LEMMA BootInitial == Boot!Init => BootInv
<1> SUFFICES ASSUME Boot!Init PROVE BootInv
  OBVIOUS
<1>1. BootTyped BY InstancesAssumption DEF Boot!Init, BootTyped, Boot!Ids
<1>2. KeysToCome /\ Boot!HostKeysAreStable
  BY InstancesAssumption DEF Boot!Init, KeysToCome, Boot!HostKeysAreStable, Boot!Ids
<1> QED BY <1>1, <1>2 DEF BootInv

\* The first boot keeps its invariant: a key is generated only while it is to come.
LEMMA BootStepPreserves == BootInv /\ Boot!Next => BootInv'
<1> SUFFICES ASSUME BootInv, Boot!Next PROVE BootInv'
  OBVIOUS
<1>0. BootTyped /\ KeysToCome /\ Boot!HostKeysAreStable BY DEF BootInv
<1> USE DEF BootInv
<1>1. CASE Boot!moduleSetup \/ Boot!firstbootRun \/ Boot!writeBotoConfig \/ Boot!fbFails
  <2>1. /\ UNCHANGED <<instance, instanceIDFile, generated>>
        /\ fbPc' \in {"down", "check", "id"}
        /\ fbPc' = "id" => instanceIDFile # instance
        /\ keysLeft' \subseteq keysLeft
    BY <1>1 DEF Boot!moduleSetup, Boot!firstbootRun, Boot!writeBotoConfig, Boot!fbFails
  <2> QED BY <1>0, <2>1 DEF BootTyped, KeysToCome, Boot!HostKeysAreStable
<1>2. CASE Boot!writeInstanceID
  <2>1. BootTyped' BY <1>0, <1>2, InstancesAssumption DEF Boot!writeInstanceID, BootTyped, Boot!Ids
  <2>2. KeysToCome' BY <1>0, <1>2, InstancesAssumption DEF Boot!writeInstanceID, BootTyped, KeysToCome, Boot!Ids
  <2>3. Boot!HostKeysAreStable' BY <1>0, <1>2 DEF Boot!writeInstanceID, Boot!HostKeysAreStable
  <2> QED BY <2>1, <2>2, <2>3
<1>3. CASE Boot!writeSSHKeys
  <2>1. CASE UNCHANGED generated
    <3>1. /\ UNCHANGED <<instance, instanceIDFile>> /\ keysLeft' \subseteq keysLeft
          /\ fbPc = "keys" /\ fbPc' \in {"keys", "boto"}
      BY <1>3 DEF Boot!writeSSHKeys
    <3> QED BY <1>0, <2>1, <3>1 DEF BootTyped, KeysToCome, Boot!HostKeysAreStable
  <2>2. ASSUME NEW t \in keysLeft, keysLeft' = keysLeft \ {t}, UNCHANGED <<instance, instanceIDFile, fbPc>>,
               fbPc = "keys", generated' = [generated EXCEPT ![instance][t] = @ + 1]
        PROVE  BootInv'
    <3>1. t \in KeyTypes /\ generated[instance][t] = 0 BY <1>0, <2>2 DEF BootTyped, KeysToCome
    <3>2. /\ generated' \in [Boot!Ids -> [KeyTypes -> Nat]]
          /\ generated'[instance][t] = 1
          /\ \A i \in Boot!Ids, s \in KeyTypes : i # instance \/ s # t => generated'[i][s] = generated[i][s]
      BY <1>0, <2>2, <3>1 DEF BootTyped
    <3>3. BootTyped' BY <1>0, <2>2, <3>2 DEF BootTyped
    <3>4. KeysToCome' BY <1>0, <2>2, <3>2, InstancesAssumption DEF BootTyped, KeysToCome, Boot!Ids
    <3>5. Boot!HostKeysAreStable' BY <1>0, <2>2, <3>1, <3>2 DEF BootTyped, Boot!HostKeysAreStable
    <3> QED BY <3>3, <3>4, <3>5
  <2> QED BY <1>3, <2>1, <2>2 DEF Boot!writeSSHKeys
<1>4. CASE Boot!cloneDisk
  <2>1. BootTyped' BY <1>0, <1>4, InstancesAssumption DEF Boot!cloneDisk, BootTyped, Boot!Ids
  <2>2. KeysToCome' BY <1>0, <1>4, InstancesAssumption DEF Boot!cloneDisk, BootTyped, KeysToCome, Boot!Ids
  <2>3. Boot!HostKeysAreStable' BY <1>0, <1>4 DEF Boot!cloneDisk, Boot!HostKeysAreStable
  <2> QED BY <2>1, <2>2, <2>3
<1> QED BY <1>1, <1>2, <1>3, <1>4 DEF Boot!Next

\* The steps of the other parts keep it.
LEMMA BootStutters == BootInv /\ UNCHANGED bootVars => BootInv'
BY DEF BootInv, BootTyped, KeysToCome, Boot!HostKeysAreStable, bootVars

\* firstbootRun, writeSSHKeys: a host key of an instance is generated at most once, however
\* often the plugin starts and whichever step before it failed, and a clone of the disk gets
\* keys of its own.
THEOREM HostKeysOnce == CorePluginSpec => []HostKeysAreStable
<1>1. CorePluginInit => BootInv BY BootInitial DEF CorePluginInit
<1>2. BootInv /\ [CorePluginNext]_allVars => BootInv'
  BY OneModuleMoves, BootStepPreserves, BootStutters
<1>3. BootInv => HostKeysAreStable BY DEF BootInv, HostKeysAreStable
<1> QED BY <1>1, <1>2, <1>3, PTL DEF CorePluginSpec

-----------------------------------------------------------------------------
(* The credentials for the metadata server                                 *)

\* The types that the argument needs.
MtlsTyped ==
    /\ hostRoot \in Nat \ {0} /\ mtlsUp \in BOOLEAN
    /\ signer \in [Mtls!Serials -> Nat] /\ rootFile \in Nat
    /\ clientFile \in Mtls!Serials \cup {0}
    /\ fetched \in [Mtls!Jobs -> Mtls!Serials \cup {0}]
    /\ rootCertsInstalled \in [Mtls!Jobs -> BOOLEAN]
    /\ credsPc \in [Mtls!Jobs -> {"idle", "root", "fetch", "write", "pfx", "store"}]
    /\ clientKept \in BOOLEAN

\* Of one process: before setup nothing runs, and a client file that the cleanup has passed
\* is one it could not remove; after it, client credentials go with the host's root; a root that it installed, and one that it
\* verified against, is the host's, and what is about to be written is signed by it.
OneRoot ==
    /\ ~mtlsUp /\ "client" \notin cleanLeft /\ ~clientKept => clientFile = 0
    /\ mtlsUp /\ clientFile # 0 /\ ~clientKept => rootFile = hostRoot
    /\ mtlsJob # 0 => mtlsUp
    /\ \A j \in Mtls!Jobs :
         /\ ~mtlsUp => credsPc[j] = "idle" /\ rootCertsInstalled[j] = FALSE
         /\ rootCertsInstalled[j] => rootFile = hostRoot
         /\ credsPc[j] = "write" => /\ fetched[j] \in Mtls!Serials
                                    /\ signer[fetched[j]] = hostRoot /\ rootFile = hostRoot

\* Inductive: a certificate on disk was issued, so issuing another one does not change it.
MtlsInv == MtlsTyped /\ OneRoot /\ Mtls!ClientIsVerified /\ (clientFile # 0 => signer[clientFile] # 0)

\* Before the module is set up nothing runs.
LEMMA MtlsInitial == Mtls!Init => MtlsInv
<1> SUFFICES ASSUME Mtls!Init PROVE MtlsInv
  OBVIOUS
<1>1. MtlsTyped
  <2>1. hostRoot \in Nat \ {0} /\ rootFile \in Nat /\ clientFile \in Mtls!Serials \cup {0}
    BY DEF Mtls!Init
  <2>4. signer \in [Mtls!Serials -> Nat] BY DEF Mtls!Init
  <2>5. mtlsUp \in BOOLEAN /\ clientKept \in BOOLEAN BY Zenon DEF Mtls!Init
  <2>6. fetched \in [Mtls!Jobs -> Mtls!Serials \cup {0}]
    BY DEF Mtls!Init
  <2>2. credsPc \in [Mtls!Jobs -> {"idle", "root", "fetch", "write", "pfx", "store"}]
    BY DEF Mtls!Init
  <2>3. rootCertsInstalled \in [Mtls!Jobs -> BOOLEAN] BY DEF Mtls!Init
  <2> QED BY <2>1, <2>2, <2>3, <2>4, <2>5, <2>6 DEF MtlsTyped
<1>2. OneRoot /\ clientFile = 0 BY DEF Mtls!Init, OneRoot
<1> QED BY <1>1, <1>2 DEF MtlsInv, Mtls!ClientIsVerified

\* The steps of the two jobs, of the event callback and of a restart keep the invariant.
LEMMA MtlsStepPreserves == MtlsInv /\ Mtls!Next => MtlsInv'
<1> SUFFICES ASSUME MtlsInv, Mtls!Next PROVE MtlsInv'
  OBVIOUS
<1>0. MtlsTyped /\ OneRoot /\ Mtls!ClientIsVerified /\ (clientFile # 0 => signer[clientFile] # 0)
  BY DEF MtlsInv
<1> USE DEF MtlsInv, Mtls!ClientIsVerified
<1>1. CASE Mtls!setup
  <2>1. /\ mtlsUp = FALSE /\ mtlsUp' = TRUE /\ cleanLeft = {}
        /\ UNCHANGED <<hostRoot, signer, mtlsJob, fetched, rootCertsInstalled, credsPc,
                       clientFile, rootFile, cleanLeft, clientKept>>
    BY <1>0, <1>1 DEF Mtls!setup, MtlsTyped, Mtls!jobs, Mtls!files
  <2>2. ~clientKept => clientFile = 0 BY <1>0, <2>1 DEF OneRoot
  <2>3. MtlsTyped' BY <1>0, <2>1 DEF MtlsTyped
  <2>4. OneRoot' BY <1>0, <2>1, <2>2 DEF MtlsTyped, OneRoot
  <2> QED BY <1>0, <2>1, <2>3, <2>4
<1>8. ASSUME NEW e \in Mtls!CredsEntries, Mtls!cleanupCreds(e) PROVE MtlsInv'
  <2>1. /\ mtlsUp = FALSE /\ cleanLeft' = cleanLeft \ {e}
        /\ rootFile' \in {rootFile, 0} /\ clientFile' \in {clientFile, 0}
        /\ e = "client" => clientKept' = (clientFile' # 0)
        /\ e # "client" => clientKept' = clientKept /\ clientFile' = clientFile
        /\ UNCHANGED <<hostRoot, signer, mtlsUp, mtlsJob, fetched, rootCertsInstalled, credsPc>>
    BY <1>0, <1>8 DEF Mtls!cleanupCreds, MtlsTyped, Mtls!jobs
  <2>2. clientKept' \in BOOLEAN
    <3>1. CASE e = "client" BY <2>1, <3>1, Zenon
    <3>2. CASE e # "client" BY <1>0, <2>1, <3>2, Zenon DEF MtlsTyped
    <3> QED BY <3>1, <3>2
  <2>3. MtlsTyped' BY <1>0, <2>1, <2>2 DEF MtlsTyped
  <2>4. OneRoot'
    <3>1. "client" \notin cleanLeft' /\ ~clientKept' => clientFile' = 0
      <4>1. CASE e = "client" BY <2>1, <4>1
      <4>2. CASE e # "client" BY <1>0, <2>1, <4>2 DEF OneRoot
      <4> QED BY <4>1, <4>2
    <3>2. \A j \in Mtls!Jobs : credsPc[j] = "idle" /\ rootCertsInstalled[j] = FALSE
      BY <1>0, <2>1 DEF OneRoot
    <3> QED BY <1>0, <2>1, <3>1, <3>2 DEF OneRoot
  <2>5. Mtls!ClientIsVerified'
    <3>1. CASE e = "client" BY <1>0, <2>1, <3>1
    <3>2. CASE e # "client" BY <1>0, <2>1, <3>2
    <3> QED BY <3>1, <3>2
  <2> QED BY <1>0, <2>1, <2>3, <2>4, <2>5
<1>2. CASE Mtls!eventCallback
  <2>1. /\ mtlsUp /\ UNCHANGED <<hostRoot, signer, mtlsUp, rootFile, clientFile, fetched, rootCertsInstalled,
                                  clientKept>>
        /\ credsPc' = credsPc \/ \E j : credsPc' = [credsPc EXCEPT ![j] = "root"]
    BY <1>2 DEF Mtls!eventCallback, Mtls!files
  <2> QED BY <1>0, <2>1 DEF MtlsTyped, OneRoot
<1>3. ASSUME NEW j \in Mtls!Jobs,
             Mtls!tick(j) \/ Mtls!runFails(j) \/ Mtls!writePFX(j) \/ Mtls!storeClientCert(j)
      PROVE  MtlsInv'
  <2>1. /\ UNCHANGED <<hostRoot, signer, mtlsUp, mtlsJob, rootFile, clientFile, fetched, rootCertsInstalled>>
        /\ UNCHANGED clientKept
        /\ \E p \in {"idle", "root", "store"} : credsPc' = [credsPc EXCEPT ![j] = p]
    BY <1>3 DEF Mtls!tick, Mtls!runFails, Mtls!writePFX, Mtls!storeClientCert, Mtls!files
  <2>2. mtlsUp
    BY <1>0, <1>3 DEF Mtls!tick, Mtls!runFails, Mtls!writePFX, Mtls!storeClientCert, OneRoot, Mtls!Jobs
  <2> QED BY <1>0, <2>1, <2>2 DEF MtlsTyped, OneRoot
<1>4. ASSUME NEW j \in Mtls!Jobs, Mtls!installRoot(j) PROVE MtlsInv'
  <2>1. /\ UNCHANGED <<hostRoot, signer, mtlsUp, mtlsJob, clientFile, fetched, clientKept>> /\ credsPc[j] = "root"
        /\ credsPc' = [credsPc EXCEPT ![j] = "fetch"]
        /\ rootCertsInstalled' = [rootCertsInstalled EXCEPT ![j] = TRUE]
        /\ rootFile' = IF rootCertsInstalled[j] THEN rootFile ELSE hostRoot
    BY <1>4 DEF Mtls!installRoot, Mtls!writeRootCACert
  <2>2. mtlsUp BY <1>0, <2>1 DEF OneRoot
  <2>3. rootFile' = hostRoot BY <1>0, <2>1 DEF OneRoot
  <2>4. MtlsTyped' BY <1>0, <2>1, <2>3 DEF MtlsTyped
  <2>5. OneRoot' BY <1>0, <2>1, <2>2, <2>3 DEF MtlsTyped, OneRoot
  <2>6. clientFile # 0 /\ ~clientKept => signer[clientFile] = hostRoot
    BY <1>0, <2>2 DEF MtlsTyped, OneRoot
  <2> QED BY <1>0, <2>1, <2>3, <2>4, <2>5, <2>6
<1>5. ASSUME NEW j \in Mtls!Jobs, Mtls!fetchClientCredentials(j) PROVE MtlsInv'
  <2>1. PICK s \in Mtls!Serials :
          /\ signer[s] = 0 /\ signer' = [signer EXCEPT ![s] = hostRoot]
          /\ fetched' = [fetched EXCEPT ![j] = s]
          /\ credsPc' = [credsPc EXCEPT ![j] = IF Mtls!verifySign(hostRoot) THEN "write" ELSE "idle"]
    BY <1>5 DEF Mtls!fetchClientCredentials
  <2>2. /\ UNCHANGED <<hostRoot, mtlsUp, mtlsJob, rootFile, clientFile, rootCertsInstalled, clientKept>>
        /\ credsPc[j] = "fetch"
    BY <1>5 DEF Mtls!fetchClientCredentials, Mtls!files
  <2>3. mtlsUp BY <1>0, <2>2 DEF OneRoot
  <2>4. credsPc'[j] = "write" => rootFile = hostRoot
    BY <1>0, <2>1 DEF MtlsTyped, Mtls!verifySign
  <2>5. \A t \in Mtls!Serials : signer[t] # 0 => signer'[t] = signer[t]
    BY <1>0, <2>1 DEF MtlsTyped
  <2>6. MtlsTyped' BY <1>0, <2>1, <2>2 DEF MtlsTyped
  <2>7. OneRoot'
    <3>1. ASSUME NEW k \in Mtls!Jobs, credsPc'[k] = "write"
          PROVE  fetched'[k] \in Mtls!Serials /\ signer'[fetched'[k]] = hostRoot /\ rootFile = hostRoot
      <4>1. CASE k = j BY <1>0, <2>1, <2>4, <3>1, <4>1 DEF MtlsTyped
      <4>2. CASE k # j
        <5>1. credsPc[k] = "write" /\ fetched'[k] = fetched[k] BY <1>0, <2>1, <3>1, <4>2 DEF MtlsTyped
        <5> QED BY <1>0, <2>5, <5>1 DEF MtlsTyped, OneRoot
      <4> QED BY <4>1, <4>2
    <3> QED BY <1>0, <2>2, <2>3, <3>1 DEF OneRoot
  <2> QED BY <1>0, <2>2, <2>5, <2>6, <2>7 DEF MtlsTyped
<1>6. ASSUME NEW j \in Mtls!Jobs, Mtls!writeClientCredentials(j) PROVE MtlsInv'
  <2>1. /\ UNCHANGED <<hostRoot, signer, mtlsUp, mtlsJob, rootFile, fetched, rootCertsInstalled>>
        /\ credsPc[j] = "write" /\ clientFile' = fetched[j] /\ clientKept' = FALSE
        /\ \E p \in {"idle", "pfx"} : credsPc' = [credsPc EXCEPT ![j] = p]
    BY <1>6 DEF Mtls!writeClientCredentials
  <2>2. mtlsUp /\ rootFile = hostRoot /\ fetched[j] \in Mtls!Serials /\ signer[fetched[j]] = hostRoot
    BY <1>0, <2>1 DEF OneRoot
  <2> QED BY <1>0, <2>1, <2>2 DEF MtlsTyped, OneRoot
<1>7. CASE Mtls!restart
  <2>1. /\ UNCHANGED <<signer, rootFile, clientFile, clientKept>> /\ "client" \in cleanLeft'
        /\ mtlsUp' = FALSE /\ mtlsJob' = 0
        /\ hostRoot' \in {hostRoot, hostRoot + 1}
        /\ rootCertsInstalled' = [j \in Mtls!Jobs |-> FALSE]
        /\ credsPc' = [j \in Mtls!Jobs |-> "idle"] /\ fetched' = [j \in Mtls!Jobs |-> 0]
    BY <1>7 DEF Mtls!restart, Mtls!CredsEntries
  <2>2. MtlsTyped'
    <3>1. rootCertsInstalled' \in [Mtls!Jobs -> BOOLEAN] BY <2>1
    <3>2. credsPc' \in [Mtls!Jobs -> {"idle", "root", "fetch", "write", "pfx", "store"}] BY <2>1
    <3>3. fetched' \in [Mtls!Jobs -> Mtls!Serials \cup {0}] BY <2>1
    <3>4. hostRoot' \in Nat \ {0} BY <1>0, <2>1 DEF MtlsTyped
    <3>5. mtlsUp' \in BOOLEAN /\ clientKept' \in BOOLEAN BY <1>0, <2>1, Zenon DEF MtlsTyped
    <3>6. signer' \in [Mtls!Serials -> Nat] /\ rootFile' \in Nat /\ clientFile' \in Mtls!Serials \cup {0}
      BY <1>0, <2>1 DEF MtlsTyped
    <3> QED BY <3>1, <3>2, <3>3, <3>4, <3>5, <3>6 DEF MtlsTyped
  <2>3. OneRoot' BY <2>1 DEF OneRoot
  <2> QED BY <1>0, <2>1, <2>2, <2>3
<1> QED BY <1>1, <1>2, <1>3, <1>4, <1>5, <1>6, <1>7, <1>8 DEF Mtls!Next

\* The steps of the other parts keep it.
LEMMA MtlsStutters == MtlsInv /\ UNCHANGED mtlsVars => MtlsInv'
BY DEF MtlsInv, MtlsTyped, OneRoot, Mtls!ClientIsVerified, mtlsVars

\* cleanupCreds, fetchClientCredentials, writeClientCredentials: client credentials on disk
\* are signed by the root next to them, with jobs that overlap, a cleanup that stops or
\* fails at any entry and a host that changes its root at a restart; but for a client file
\* that a cleanup could not remove and that has not been replaced since.
THEOREM CredentialsVerify == CorePluginSpec => []ClientIsVerified
<1>1. CorePluginInit => MtlsInv BY MtlsInitial DEF CorePluginInit
<1>2. MtlsInv /\ [CorePluginNext]_allVars => MtlsInv'
  BY OneModuleMoves, MtlsStepPreserves, MtlsStutters
<1>3. MtlsInv => ClientIsVerified BY DEF MtlsInv, ClientIsVerified
<1> QED BY <1>1, <1>2, <1>3, PTL DEF CorePluginSpec

-----------------------------------------------------------------------------
(* The password requests                                                   *)

\* Inductive: what the registry will be given is answered, but for the keys still to do.
MetadataInv ==
    /\ Metadata!KnownKeysAreAnswered
    /\ setupKeys.on \in BOOLEAN
    /\ setupKeys.on => setupKeys.keys \subseteq answered \cup diffKeys

\* At first no key is recorded and no accounts are being set up.
LEMMA MetadataInitial == Metadata!Init => MetadataInv
BY DEF Metadata!Init, MetadataInv, Metadata!KnownKeysAreAnswered, Metadata!Idle

\* An answered key leaves the keys to do, and only then are all of them recorded.
LEMMA MetadataStepPreserves == MetadataInv /\ Metadata!Next => MetadataInv'
<1> SUFFICES ASSUME MetadataInv, Metadata!Next PROVE MetadataInv'
  OBVIOUS
<1> USE DEF MetadataInv, Metadata!KnownKeysAreAnswered
<1>1. CASE UNCHANGED <<regPublicKeys, setupKeys, diffKeys, answered>>
  BY <1>1
<1>2. CASE Metadata!setupAccounts
  <2> DEFINE new == Metadata!modifiedKeys(regPublicKeys, md.keys)
             s == [keys |-> md.keys, on |-> new # {}]
  <2>1. CASE setupKeys' = s /\ diffKeys' = new /\ UNCHANGED <<regPublicKeys, answered>>
    <3>1. s.on \in BOOLEAN BY Zenon
    <3>2. s.keys \subseteq regPublicKeys \cup new BY DEF Metadata!modifiedKeys
    <3> HIDE DEF s, new
    <3> QED BY <2>1, <3>1, <3>2
  <2> QED BY <1>1, <1>2, <2>1 DEF Metadata!setupAccounts
<1>3. CASE Metadata!answer
  <2>1. PICK k \in diffKeys :
          \/ answered' = answered \cup {k} /\ diffKeys' = diffKeys \ {k} /\ UNCHANGED setupKeys
          \/ setupKeys' = Metadata!Idle /\ UNCHANGED answered
    BY <1>3 DEF Metadata!answer
  <2>2. UNCHANGED regPublicKeys BY <1>3 DEF Metadata!answer
  <2>3. CASE setupKeys' = Metadata!Idle /\ UNCHANGED answered BY <2>2, <2>3 DEF Metadata!Idle
  <2>4. CASE answered' = answered \cup {k} /\ diffKeys' = diffKeys \ {k} /\ UNCHANGED setupKeys
    BY <2>2, <2>4
  <2> QED BY <2>1, <2>3, <2>4
<1>4. CASE Metadata!writeKeys BY <1>4 DEF Metadata!writeKeys, Metadata!Idle
<1>5. CASE Metadata!restart BY <1>5 DEF Metadata!restart, Metadata!Idle
<1>6. CASE Metadata!change \/ Metadata!handleDiagnosticsRequest \/ Metadata!diagnosticsDone \/ Metadata!clockSetup
  BY <1>1, <1>6 DEF Metadata!change, Metadata!handleDiagnosticsRequest, Metadata!diagnosticsDone,
                    Metadata!clockSetup, Metadata!accountsVars
<1> QED BY <1>2, <1>3, <1>4, <1>5, <1>6 DEF Metadata!Next

\* The steps of the other parts keep the invariant.
LEMMA MetadataStutters == MetadataInv /\ UNCHANGED metadataVars => MetadataInv'
BY DEF MetadataInv, Metadata!KnownKeysAreAnswered, metadataVars

\* setupAccounts: a key that the registry records as dealt with was answered, although the
\* registry is written after the answers and a request may fail between two of them.
THEOREM NoPasswordRequestIsLost == CorePluginSpec => []KnownKeysAreAnswered
<1>1. CorePluginInit => MetadataInv BY MetadataInitial DEF CorePluginInit
<1>2. MetadataInv /\ [CorePluginNext]_allVars => MetadataInv'
  BY OneModuleMoves, MetadataStepPreserves, MetadataStutters
<1>3. MetadataInv => KnownKeysAreAnswered BY DEF MetadataInv, KnownKeysAreAnswered
<1> QED BY <1>1, <1>2, <1>3, PTL DEF CorePluginSpec

-----------------------------------------------------------------------------
(* The pipe watcher                                                        *)

\* Inductive: who has the write end.  While no answer is awaited only Run can have one, and
\* an answer is awaited until the subscriber has closed its own.
PipeInv ==
    /\ waitingWrite \in BOOLEAN /\ writeEnds \in {0, 1}
    /\ pipePc \in {"create", "open", "check", "send", "error", "failing"} => waitingWrite = FALSE
    /\ waitingWrite = FALSE => /\ writeEnds = IF pipePc \in {"check", "send"} THEN 1 ELSE 0
                               /\ handlerPc \notin {"write", "closed"}
                               /\ pipePc \notin {"event", "queued"}
    /\ pipePc \in {"event", "queued"} => writeEnds = 1 /\ handlerPc \notin {"write", "closed"}
    /\ handlerPc = "write" => writeEnds = 1
    /\ handlerPc = "closed" => writeEnds = 0

\* At first there is no write end.
LEMMA PipeInitial == Pipe!Init => PipeInv
BY DEF Pipe!Init, PipeInv

\* Every hand over of the write end keeps the invariant.
LEMMA PipeStepPreserves == PipeInv /\ Pipe!Next => PipeInv'
<1> SUFFICES ASSUME PipeInv, Pipe!Next PROVE PipeInv'
  OBVIOUS
<1> USE DEF PipeInv, Pipe!runReturns
<1>1. CASE Pipe!waitWrite BY <1>1 DEF Pipe!waitWrite
<1>2. CASE Pipe!onContextDone BY <1>2 DEF Pipe!onContextDone
<1>3. CASE Pipe!createNamedPipe BY <1>3 DEF Pipe!createNamedPipe
<1>4. CASE Pipe!openPipe BY <1>4 DEF Pipe!openPipe
<1>5. CASE Pipe!checkCanceled BY <1>5 DEF Pipe!checkCanceled
<1>6. CASE Pipe!returnEvent BY <1>6 DEF Pipe!returnEvent
<1>7. CASE Pipe!dispatch BY <1>7 DEF Pipe!dispatch
<1>10. CASE Pipe!runWatcher BY <1>10 DEF Pipe!runWatcher
<1>8. CASE Pipe!writeFile
  <2>1. CASE handlerPc = "write" BY <1>8, <2>1 DEF Pipe!writeFile
  <2>2. CASE handlerPc = "closed"
    <3>1. handlerPc' = "idle" /\ waitingWrite' = FALSE /\ UNCHANGED <<writeEnds, pipePc>>
      BY <1>8, <2>2 DEF Pipe!writeFile
    <3>2. waitingWrite = TRUE /\ writeEnds = 0 /\ pipePc \notin {"event", "queued"} BY <2>2
    <3> QED BY <3>1, <3>2
  <2> QED BY <1>8, <2>1, <2>2 DEF Pipe!writeFile
<1>9. CASE Pipe!readPipe \/ Pipe!Close \/ Pipe!removeWatcher
  BY <1>9 DEF Pipe!readPipe, Pipe!Close, Pipe!removeWatcher
<1> QED BY <1>1, <1>2, <1>3, <1>4, <1>5, <1>6, <1>7, <1>8, <1>9, <1>10 DEF Pipe!Next, Pipe!Run

\* The steps of the other parts keep it.
LEMMA PipeStutters == PipeInv /\ UNCHANGED pipeVars => PipeInv'
BY DEF PipeInv, pipeVars

\* PipeWatcher.Run, waitWrite: there is at most one write end of the certificate pipe, so the
\* answers to two readers never mix, in whatever order Run, the subscriber and the
\* cancellation take their steps.
THEOREM AnswersDoNotMix == CorePluginSpec => []OneAnswerAtATime
<1>1. CorePluginInit => PipeInv BY PipeInitial DEF CorePluginInit
<1>2. PipeInv /\ [CorePluginNext]_allVars => PipeInv'
  BY OneModuleMoves, PipeStepPreserves, PipeStutters
<1>3. PipeInv => OneAnswerAtATime BY DEF PipeInv, OneAnswerAtATime, Pipe!OneAnswerAtATime
<1> QED BY <1>1, <1>2, <1>3, PTL DEF CorePluginSpec

-----------------------------------------------------------------------------
(* The stages of the core plugin                                           *)

\* What becomes of an early module that does not fail.
Expected(m) == IF Plugin!networkSkips(m) THEN "skipped" ELSE "succeeded"

\* Inductive: the stage says what has been decided of the modules so far.
PluginInv ==
    /\ starts \in Nat /\ (mdsWatcher = 0 => stage = "none")
    /\ metrics \in [Plugin!Modules -> {"none", "running", "skipped", "succeeded", "failed"}]
    /\ earlyInitDone \in BOOLEAN
    /\ stage \in {"none", "early"} <=> earlyInitDone = FALSE
    /\ initStatus = "done" => earlyInitDone = TRUE
    /\ \A m \in LateModules : stage \in {"none", "early", "late"} => metrics[m] = "none"
    /\ \A m \in Plugin!Early : Plugin!isDone(m) => metrics[m] = Expected(m)
    /\ \A m \in Plugin!Early : earlyInitDone = TRUE => Plugin!isDone(m)

\* At first no module has run.
LEMMA PluginInitial == Plugin!Init => PluginInv
<1> SUFFICES ASSUME Plugin!Init PROVE PluginInv
  OBVIOUS
<1>1. metrics \in [Plugin!Modules -> {"none", "running", "skipped", "succeeded", "failed"}]
  BY DEF Plugin!Init
<1> QED BY <1>1 DEF Plugin!Init, PluginInv, Plugin!Modules, Plugin!isDone

\* A module moves in the stage it belongs to, and the late ones are not early ones.
LEMMA PluginStepPreserves == PluginInv /\ Plugin!Next => PluginInv'
<1> SUFFICES ASSUME PluginInv, Plugin!Next PROVE PluginInv'
  OBVIOUS
<1>a. LateModules \cap Plugin!Early = {} BY ModulesAssumption DEF Plugin!Early
<1>1. CASE UNCHANGED <<starts, mdsWatcher, stage, metrics, earlyInitDone, initStatus>>
  BY <1>1 DEF PluginInv, Plugin!isDone
<1>2. CASE Plugin!Start
  BY <1>2 DEF Plugin!Start, PluginInv, Plugin!isDone
<1>3. CASE Plugin!GetStatus
  BY <1>3 DEF Plugin!GetStatus, PluginInv, Plugin!isDone
<1>4. CASE Plugin!RunBlocking
  <2>1. PICK m \in Plugin!Early, s \in {"skipped", "succeeded", "failed"} :
          metrics' = [metrics EXCEPT ![m] = s] /\ s \in {Expected(m), "failed"}
    BY <1>4 DEF Plugin!RunBlocking, Expected, Plugin!Early
  <2>2. m \notin LateModules /\ m \in Plugin!Modules
    BY <1>a DEF Plugin!Modules
  <2>3. UNCHANGED <<starts, mdsWatcher, stage, earlyInitDone, initStatus>> /\ earlyInitDone = FALSE
    BY <1>4 DEF Plugin!RunBlocking, PluginInv
  <2>4. metrics' \in [Plugin!Modules -> {"none", "running", "skipped", "succeeded", "failed"}]
    BY <2>1 DEF PluginInv, Expected
  <2>5. metrics'[m] = s /\ \A n \in Plugin!Modules \ {m} : metrics'[n] = metrics[n]
    BY <2>1, <2>2 DEF PluginInv
  <2>6. \A n \in Plugin!Early : Plugin!isDone(n)' => metrics'[n] = Expected(n)
    BY <2>1, <2>5 DEF PluginInv, Plugin!isDone, Plugin!Modules
  <2>7. \A n \in LateModules : metrics'[n] = metrics[n] BY <2>2, <2>5 DEF Plugin!Modules
  <2> QED BY <2>3, <2>4, <2>6, <2>7 DEF PluginInv, Expected, Plugin!networkSkips
<1>5. CASE Plugin!earlyDone
  BY <1>5 DEF Plugin!earlyDone, PluginInv, Plugin!isDone
<1>6. CASE Plugin!getDescriptor
  <2>1. UNCHANGED <<starts, mdsWatcher, earlyInitDone, initStatus>> /\ stage = "late"
    BY <1>6 DEF Plugin!getDescriptor
  <2>2. CASE UNCHANGED <<stage, metrics>> BY <1>1, <2>1, <2>2
  <2>3. CASE /\ stage' = "modules"
             /\ metrics' = [m \in Plugin!Modules |->
                   IF m \notin LateModules THEN metrics[m]
                   ELSE IF Plugin!networkSkips(m) THEN "skipped" ELSE "running"]
    <3>1. metrics' \in [Plugin!Modules -> {"none", "running", "skipped", "succeeded", "failed"}]
      BY <2>3 DEF PluginInv
    <3>2. \A m \in Plugin!Early : metrics'[m] = metrics[m]
      BY <1>a, <2>3 DEF Plugin!Modules
    <3> QED BY <2>1, <2>3, <3>1, <3>2 DEF PluginInv, Plugin!isDone, Expected, Plugin!networkSkips
  <2> QED BY <1>6, <2>2, <2>3 DEF Plugin!getDescriptor
<1>7. ASSUME NEW m \in LateModules, Plugin!RunConcurrent(m) PROVE PluginInv'
  <2>1. /\ UNCHANGED <<starts, mdsWatcher, stage, earlyInitDone, initStatus>> /\ stage = "modules"
        /\ \E s \in {"failed", "succeeded"} : metrics' = [metrics EXCEPT ![m] = s]
    BY <1>7 DEF Plugin!RunConcurrent
  <2>2. \A e \in Plugin!Early : metrics'[e] = metrics[e]
    BY <1>a, <2>1 DEF PluginInv, Plugin!Modules
  <2> QED BY <2>1, <2>2 DEF PluginInv, Plugin!isDone, Expected, Plugin!networkSkips
<1>8. CASE Plugin!lateDone
  BY <1>8 DEF Plugin!lateDone, PluginInv, Plugin!isDone
<1>10. CASE Plugin!osloginCallback
  BY <1>10 DEF Plugin!osloginCallback, PluginInv, Plugin!isDone
<1>9. CASE \/ Plugin!initPluginServer \/ Plugin!StopRequest \/ Plugin!sigHandler \/ Plugin!over
           \/ Plugin!runAgentEnds \/ \E shutdown \in BOOLEAN : Plugin!handleVMEvent(shutdown)
  BY <1>1, <1>9 DEF Plugin!initPluginServer, Plugin!StopRequest, Plugin!sigHandler, Plugin!over, Plugin!vars,
         Plugin!runAgentEnds, Plugin!handleVMEvent
<1> QED BY <1>2, <1>3, <1>4, <1>5, <1>6, <1>7, <1>8, <1>9, <1>10 DEF Plugin!Next, Plugin!runAgent

\* The steps of the other parts keep the invariant.
LEMMA PluginStutters == PluginInv /\ UNCHANGED pluginVars => PluginInv'
BY DEF PluginInv, Plugin!isDone, pluginVars

\* GetStatus, RunBlocking: when the agent is told that the early initialization is done, every
\* early module has succeeded, or needs the network while it is disabled; no late module has
\* begun before.
THEOREM ReadyIsTrue == CorePluginSpec => []ReadyMeansInitialized
<1>1. CorePluginInit => PluginInv BY PluginInitial DEF CorePluginInit
<1>2. PluginInv /\ [CorePluginNext]_allVars => PluginInv'
  BY OneModuleMoves, PluginStepPreserves, PluginStutters
<1>3. PluginInv => ReadyMeansInitialized
  BY DEF PluginInv, ReadyMeansInitialized, Plugin!ReadyMeansInitialized, Expected, Plugin!isDone
<1> QED BY <1>1, <1>2, <1>3, PTL DEF CorePluginSpec

-----------------------------------------------------------------------------
(* The accounts of the SSH keys                                            *)

\* The types that the argument needs.
KeysTyped ==
    /\ googleUsers \subseteq Users /\ leftAlone \subseteq Users
    /\ keyTodo \subseteq Users /\ keyUser \subseteq Users /\ keyErrs \in BOOLEAN
    /\ lastEnabled \in BOOLEAN /\ mdOsLogin \in BOOLEAN
    /\ authorizedKeys \in [Users -> SUBSET SshKeySet] /\ lastUserKeyMap \in [Users -> SUBSET SshKeySet]
    /\ mdUserKeys \in [Users -> SUBSET SshKeySet]
    /\ keyPc \in {"idle", "platform", "users", "create", "record", "keys", "unused", "remove"}

\* The keys of a user that the last pass was about: none under OS Login.
WantedKeys(u) == IF lastEnabled THEN lastUserKeyMap[u] ELSE {}

\* What a pass without an error has done so far, but for the files it left alone.
PassSoFar ==
    keyErrs = FALSE =>
      /\ keyPc \in {"platform", "users", "create", "record", "keys"} =>
           lastEnabled = TRUE /\ keyTodo \subseteq Users
      /\ keyPc = "platform" => keyTodo = {}
      /\ keyPc = "users" => \A u \in keyTodo \ leftAlone : authorizedKeys[u] = lastUserKeyMap[u]
      /\ keyPc \in {"create", "record", "keys"} =>
           \A u \in (keyTodo \ keyUser) \ leftAlone : authorizedKeys[u] = lastUserKeyMap[u]
      /\ keyPc = "unused" /\ lastEnabled = TRUE =>
           \A u \in SshKeyModule!active \ leftAlone : authorizedKeys[u] = lastUserKeyMap[u]
      /\ keyPc = "remove" =>
           /\ keyTodo \subseteq Users
           /\ \A u \in keyTodo : WantedKeys(u) = {}
           /\ \A u \in ((googleUsers \cap accountsOf) \ keyTodo) \ leftAlone : authorizedKeys[u] = WantedKeys(u)

\* Inductive.
KeysInv == KeysTyped /\ PassSoFar /\ SshKeyModule!RecordedUsersHaveTheirKeys

\* A plugin that was never started has recorded no account.
LEMMA KeysInitial == SshKeyModule!Init => KeysInv
<1> SUFFICES ASSUME SshKeyModule!Init PROVE KeysInv
  OBVIOUS
<1>1. /\ SshKeyModule!NoKeys \in [Users -> SUBSET SshKeySet]
  BY DEF SshKeyModule!NoKeys
<1>2. KeysTyped BY <1>1 DEF SshKeyModule!Init, KeysTyped
<1>3. PassSoFar BY DEF SshKeyModule!Init, PassSoFar
<1>4. SshKeyModule!RecordedUsersHaveTheirKeys
  BY DEF SshKeyModule!Init, SshKeyModule!RecordedUsersHaveTheirKeys
<1> QED BY <1>2, <1>3, <1>4 DEF KeysInv

\* error: a pass that has failed once stays failed.
LEMMA ErrorIsKept ==
  ASSUME NEW ok \in BOOLEAN, SshKeyModule!error(ok), keyErrs \in BOOLEAN
  PROVE  keyErrs' \in BOOLEAN /\ (keyErrs' = FALSE => keyErrs = FALSE /\ ok = TRUE)
BY Zenon DEF SshKeyModule!error

\* The keys a user may have are keys.
LEMMA ValidKeys == SshKeyModule!findValidKeys \subseteq SUBSET SshKeySet
BY DEF SshKeyModule!findValidKeys, SshKeyModule!UserSSHKeys, SshKeyModule!UnmarshalSSHKeys

\* Every step of a pass over the accounts keeps the invariant.
LEMMA KeysStepPreserves == KeysInv /\ SshKeyModule!Next => KeysInv'
<1> SUFFICES ASSUME KeysInv, SshKeyModule!Next PROVE KeysInv'
  OBVIOUS
<1>0. KeysTyped /\ PassSoFar /\ SshKeyModule!RecordedUsersHaveTheirKeys BY DEF KeysInv
<1> USE DEF SshKeyModule!mdVars, SshKeyModule!memory, SshKeyModule!system
<1>a. ASSUME keyPc' # "idle" PROVE SshKeyModule!RecordedUsersHaveTheirKeys'
  BY <1>a DEF SshKeyModule!RecordedUsersHaveTheirKeys
<1>1. CASE SshKeyModule!changeKeys
  <2>1. UNCHANGED <<lastUserKeyMap, lastEnabled, accountsOf, googleUsers, authorizedKeys, leftAlone, keyPc, keyTodo, keyUser, keyErrs>>
    BY <1>1 DEF SshKeyModule!changeKeys
  <2>2. mdOsLogin' \in BOOLEAN BY <1>0, <1>1, Zenon DEF SshKeyModule!changeKeys, KeysTyped
  <2>3. mdUserKeys' \in [Users -> SUBSET SshKeySet]
    BY <1>0, <1>1, ValidKeys DEF SshKeyModule!changeKeys, KeysTyped
  <2>4. KeysTyped' BY <1>0, <2>1, <2>2, <2>3 DEF KeysTyped
  <2>5. PassSoFar' BY <1>0, <2>1 DEF PassSoFar, WantedKeys, SshKeyModule!active
  <2>6. SshKeyModule!RecordedUsersHaveTheirKeys'
    BY <1>0, <2>1 DEF SshKeyModule!RecordedUsersHaveTheirKeys, SshKeyModule!NoKeys
  <2> QED BY <2>4, <2>5, <2>6 DEF KeysInv
<1>2. CASE SshKeyModule!metadataSSHKeySetup
  <2>1. /\ UNCHANGED <<mdUserKeys, mdOsLogin, accountsOf, googleUsers, authorizedKeys, leftAlone>>
        /\ lastUserKeyMap' = mdUserKeys /\ keyTodo' = {} /\ keyUser' = {}
        /\ keyPc' \in {"unused", "users", "platform"}
    BY <1>2 DEF SshKeyModule!metadataSSHKeySetup
  <2>2. keyPc' # "unused" => mdOsLogin = FALSE
    BY <1>0, <1>2 DEF SshKeyModule!metadataSSHKeySetup, KeysTyped
  <2>3. keyPc' = "unused" => mdOsLogin = TRUE
    BY <1>0, <1>2 DEF SshKeyModule!metadataSSHKeySetup, KeysTyped
  <2>4. keyErrs' \in BOOLEAN /\ lastEnabled' \in BOOLEAN /\ (lastEnabled' = TRUE <=> mdOsLogin = FALSE)
    BY <1>0, <1>2, Zenon DEF SshKeyModule!metadataSSHKeySetup, KeysTyped
  <2>5. KeysTyped' BY <1>0, <2>1, <2>4 DEF KeysTyped
  <2>6. PassSoFar' BY <1>0, <2>1, <2>2, <2>3, <2>4 DEF PassSoFar, KeysTyped
  <2> QED BY <1>a, <2>1, <2>5, <2>6 DEF KeysInv
<1>3. CASE SshKeyModule!addSystemUsers
  <2>1. UNCHANGED <<mdUserKeys, mdOsLogin, lastUserKeyMap, lastEnabled, accountsOf, googleUsers, authorizedKeys, leftAlone, keyErrs>>
        /\ keyPc = "users"
    BY <1>3 DEF SshKeyModule!addSystemUsers
  <2>2. CASE keyTodo = SshKeyModule!active /\ keyPc' = "unused" /\ UNCHANGED <<keyTodo, keyUser>>
    <3>1. KeysTyped' BY <1>0, <2>1, <2>2 DEF KeysTyped
    <3>2. PassSoFar' BY <1>0, <2>1, <2>2 DEF PassSoFar, SshKeyModule!active
    <3> QED BY <1>a, <2>2, <3>1, <3>2 DEF KeysInv
  <2>3. ASSUME NEW u \in SshKeyModule!active \ keyTodo, keyUser' = {u}, keyTodo' = keyTodo \cup {u},
               keyPc' \in {"keys", "create"}
        PROVE  KeysInv'
    <3>1. u \in Users BY DEF SshKeyModule!active
    <3>2. KeysTyped' BY <1>0, <2>1, <2>3, <3>1 DEF KeysTyped
    <3>3. PassSoFar' BY <1>0, <2>1, <2>3, <3>1 DEF PassSoFar
    <3> QED BY <1>a, <2>3, <3>2, <3>3 DEF KeysInv
  <2> QED BY <1>3, <2>2, <2>3 DEF SshKeyModule!addSystemUsers, SshKeyModule!ensureUserExists
<1>4. CASE SshKeyModule!keyRestart
  <2>1. /\ UNCHANGED <<mdUserKeys, mdOsLogin, accountsOf, googleUsers, authorizedKeys, leftAlone>>
        /\ lastUserKeyMap' = SshKeyModule!NoKeys /\ lastEnabled' = FALSE /\ keyErrs' = FALSE
        /\ keyPc' = "idle" /\ keyTodo' = {} /\ keyUser' = {}
    BY <1>4 DEF SshKeyModule!keyRestart
  <2>2. SshKeyModule!NoKeys \in [Users -> SUBSET SshKeySet] BY DEF SshKeyModule!NoKeys
  <2>3. KeysTyped' BY <1>0, <2>1, <2>2 DEF KeysTyped
  <2>4. PassSoFar' BY <2>1 DEF PassSoFar
  <2>5. SshKeyModule!RecordedUsersHaveTheirKeys'
    BY <2>1 DEF SshKeyModule!RecordedUsersHaveTheirKeys, SshKeyModule!NoKeys
  <2> QED BY <2>3, <2>4, <2>5 DEF KeysInv
<1>5. ASSUME NEW ok \in BOOLEAN,
             SshKeyModule!setPlatformConfiguration(ok) \/ SshKeyModule!CreateUser(ok)
      PROVE  KeysInv'
  <2>1. /\ UNCHANGED <<mdUserKeys, mdOsLogin, lastUserKeyMap, lastEnabled, googleUsers, authorizedKeys, leftAlone, keyTodo, keyUser>>
        /\ keyPc \in {"platform", "create"} /\ keyPc' \in {"users", "record"}
        /\ SshKeyModule!error(ok)
        /\ keyPc = "platform" => keyPc' = "users"
        /\ keyPc = "create" /\ ok = TRUE => keyPc' = "record"
    BY <1>5 DEF SshKeyModule!setPlatformConfiguration, SshKeyModule!CreateUser
  <2>2. keyErrs' \in BOOLEAN /\ (keyErrs' = FALSE => keyErrs = FALSE /\ ok = TRUE)
    BY <1>0, <2>1, ErrorIsKept DEF KeysTyped
  <2>3. KeysTyped' BY <1>0, <2>1, <2>2 DEF KeysTyped
  <2>4. PassSoFar' BY <1>0, <2>1, <2>2 DEF PassSoFar
  <2> QED BY <1>a, <2>1, <2>3, <2>4 DEF KeysInv
<1>6. ASSUME NEW ok \in BOOLEAN, SshKeyModule!addToGUsers(ok) PROVE KeysInv'
  <2>1. /\ UNCHANGED <<mdUserKeys, mdOsLogin, lastUserKeyMap, lastEnabled, authorizedKeys, leftAlone, keyTodo, keyUser, keyErrs>>
        /\ keyPc = "record" /\ keyPc' = "keys" /\ googleUsers' \subseteq googleUsers \cup keyUser
    BY <1>6 DEF SshKeyModule!addToGUsers
  <2>3. KeysTyped' BY <1>0, <2>1 DEF KeysTyped
  <2>4. PassSoFar' BY <1>0, <2>1 DEF PassSoFar
  <2> QED BY <1>a, <2>1, <2>3, <2>4 DEF KeysInv
<1>7. ASSUME NEW ok \in BOOLEAN, SshKeyModule!updateSSHKeys(ok) PROVE KeysInv'
  <2>1. /\ UNCHANGED <<mdUserKeys, mdOsLogin, lastUserKeyMap, lastEnabled, googleUsers, keyTodo, keyUser>>
        /\ keyPc = "keys" /\ keyPc' = "users" /\ SshKeyModule!error(ok)
    BY <1>7 DEF SshKeyModule!updateSSHKeys
  <2>2. PICK written \in BOOLEAN :
          /\ \/ ok = FALSE
             \/ written = TRUE /\ leftAlone' = leftAlone \ keyUser
             \/ leftAlone' = leftAlone \cup keyUser
          /\ leftAlone' \subseteq leftAlone \cup keyUser
          /\ \A u \in leftAlone \ keyUser : u \in leftAlone'
          /\ authorizedKeys' = [u \in Users |-> IF written /\ u \in keyUser THEN lastUserKeyMap[u]
                                                ELSE authorizedKeys[u]]
    <3>1. PICK left \in BOOLEAN, written \in BOOLEAN :
            /\ left => ok
            /\ SshKeyModule!leave(keyUser, left)
            /\ ok => written = ~left
            /\ authorizedKeys' = [u \in Users |-> IF written /\ u \in keyUser THEN lastUserKeyMap[u]
                                                  ELSE authorizedKeys[u]]
      BY <1>7 DEF SshKeyModule!updateSSHKeys
    <3>2. /\ leftAlone' \subseteq leftAlone \cup keyUser
          /\ \A u \in leftAlone \ keyUser : u \in leftAlone'
      BY <3>1 DEF SshKeyModule!leave
    <3>3. CASE left = TRUE
      BY <3>1, <3>2, <3>3 DEF SshKeyModule!leave
    <3>4. CASE left = FALSE
      BY <3>1, <3>2, <3>4 DEF SshKeyModule!leave
    <3> QED BY <3>3, <3>4
  <2>3. keyErrs' \in BOOLEAN /\ (keyErrs' = FALSE => keyErrs = FALSE /\ ok = TRUE)
    BY <1>0, <2>1, ErrorIsKept DEF KeysTyped
  <2>4. KeysTyped' BY <1>0, <2>1, <2>2, <2>3 DEF KeysTyped
  <2>5. PassSoFar' BY <1>0, <2>1, <2>2, <2>3 DEF PassSoFar
  <2> QED BY <1>a, <2>1, <2>4, <2>5 DEF KeysInv
<1>8. ASSUME NEW ok \in BOOLEAN, SshKeyModule!ListGoogleUsers(ok) PROVE KeysInv'
  <2>1. /\ UNCHANGED <<mdUserKeys, mdOsLogin, lastUserKeyMap, lastEnabled, accountsOf, googleUsers, authorizedKeys, leftAlone, keyUser>>
        /\ keyPc = "unused" /\ keyPc' = "remove" /\ SshKeyModule!error(ok)
        /\ ok = TRUE /\ lastEnabled = TRUE => keyTodo' = googleUsers \ SshKeyModule!active
        /\ ok = TRUE /\ lastEnabled = FALSE => keyTodo' = googleUsers
        /\ keyTodo' \subseteq googleUsers
    BY <1>8 DEF SshKeyModule!ListGoogleUsers
  <2>3. keyErrs' \in BOOLEAN /\ (keyErrs' = FALSE => keyErrs = FALSE /\ ok = TRUE)
    BY <1>0, <2>1, ErrorIsKept DEF KeysTyped
  <2>4. KeysTyped' BY <1>0, <2>1, <2>3 DEF KeysTyped
  <2>5. PassSoFar'
    <3>1. CASE lastEnabled = TRUE
      BY <1>0, <2>1, <2>3, <3>1 DEF PassSoFar, KeysTyped, WantedKeys, SshKeyModule!active
    <3>2. CASE lastEnabled = FALSE
      BY <1>0, <2>1, <2>3, <3>2 DEF PassSoFar, KeysTyped, WantedKeys
    <3> QED BY <1>0, <3>1, <3>2 DEF KeysTyped
  <2> QED BY <1>a, <2>1, <2>4, <2>5 DEF KeysInv
<1>9. ASSUME NEW ok \in BOOLEAN, SshKeyModule!deprovisionUnusedUsers(ok) PROVE KeysInv'
  <2>1. UNCHANGED <<mdUserKeys, mdOsLogin, lastUserKeyMap, lastEnabled, keyUser>> /\ keyPc = "remove"
    BY <1>9 DEF SshKeyModule!deprovisionUnusedUsers
  <2>2. CASE keyTodo = {} /\ keyPc' = "idle"
             /\ UNCHANGED <<accountsOf, googleUsers, authorizedKeys, leftAlone, keyTodo, keyErrs>>
    <3>1. KeysTyped' /\ PassSoFar' BY <1>0, <2>1, <2>2 DEF KeysTyped, PassSoFar
    <3>2. SshKeyModule!RecordedUsersHaveTheirKeys'
      BY <1>0, <2>1, <2>2 DEF SshKeyModule!RecordedUsersHaveTheirKeys, PassSoFar, WantedKeys, KeysTyped
    <3> QED BY <3>1, <3>2 DEF KeysInv
  <2>3. ASSUME NEW u \in keyTodo,
               SshKeyModule!error(ok /\ SshKeyModule!FindUser(u) /\ (supplementalGroups \/ DeprovisionRemove)),
               keyTodo' = keyTodo \ {u}, keyPc' = keyPc,
               \/ UNCHANGED <<accountsOf, googleUsers, authorizedKeys, leftAlone>> /\ (~SshKeyModule!FindUser(u) \/ ~ok)
               \/ /\ \/ authorizedKeys' = [authorizedKeys EXCEPT ![u] = {}] /\ leftAlone' = leftAlone \ {u}
                     \/ authorizedKeys' = authorizedKeys /\ leftAlone' = leftAlone \cup {u}
                  /\ accountsOf' \subseteq accountsOf /\ googleUsers' \subseteq googleUsers
        PROVE  KeysInv'
    <3> DEFINE fine == ok /\ SshKeyModule!FindUser(u) /\ (supplementalGroups \/ DeprovisionRemove)
    <3>1. fine \in BOOLEAN /\ (fine = TRUE => ok /\ SshKeyModule!FindUser(u)) BY Zenon
    <3>2. SshKeyModule!error(fine) BY <2>3
    <3> HIDE DEF fine
    <3>3. keyErrs' \in BOOLEAN /\ (keyErrs' = FALSE => keyErrs = FALSE /\ fine = TRUE)
      BY <1>0, <3>1, <3>2, ErrorIsKept DEF KeysTyped
    <3>5. ASSUME keyErrs' = FALSE
          PROVE  \/ authorizedKeys' = [authorizedKeys EXCEPT ![u] = {}] /\ leftAlone' = leftAlone \ {u}
                 \/ authorizedKeys' = authorizedKeys /\ leftAlone' = leftAlone \cup {u}
      BY <2>3, <3>1, <3>3, <3>5
    <3>0. u \in Users BY <1>0 DEF KeysTyped
    <3>4. KeysTyped' BY <1>0, <2>1, <2>3, <3>0, <3>3 DEF KeysTyped
    <3>6. PassSoFar'
      <4> SUFFICES ASSUME keyErrs' = FALSE
                   PROVE  /\ keyTodo' \subseteq Users
                          /\ \A v \in keyTodo' : WantedKeys(v)' = {}
                          /\ \A v \in ((googleUsers' \cap accountsOf') \ keyTodo') \ leftAlone' :
                               authorizedKeys'[v] = WantedKeys(v)'
        BY <2>1, <2>3 DEF PassSoFar
      <4>1. keyErrs = FALSE /\ \A v : WantedKeys(v)' = WantedKeys(v)
        BY <2>1, <3>3 DEF WantedKeys
      <4>2. keyTodo \subseteq Users BY <1>0, <2>1, <4>1 DEF PassSoFar, KeysTyped
      <4>3. /\ u \in leftAlone' \/ authorizedKeys'[u] = {}
            /\ \A v \in Users \ {u} : authorizedKeys'[v] = authorizedKeys[v]
            /\ \A v \in Users \ {u} : v \in leftAlone => v \in leftAlone'
        BY <1>0, <3>5, <4>2 DEF KeysTyped
      <4>4. accountsOf' \subseteq accountsOf /\ googleUsers' \subseteq googleUsers BY <2>3
      <4>5. ASSUME NEW v \in ((googleUsers' \cap accountsOf') \ keyTodo') \ leftAlone'
            PROVE  authorizedKeys'[v] = WantedKeys(v)'
        <5>1. CASE v = u BY <1>0, <2>1, <4>1, <4>3, <5>1 DEF PassSoFar
        <5>2. CASE v # u
          <6>1. v \in ((googleUsers \cap accountsOf) \ keyTodo) \ leftAlone /\ v \in Users \ {u}
            BY <1>0, <2>3, <4>3, <4>4, <5>2 DEF KeysTyped
          <6> QED BY <1>0, <2>1, <4>1, <4>3, <6>1 DEF PassSoFar
        <5> QED BY <5>1, <5>2
      <4>6. \A v \in keyTodo' : WantedKeys(v)' = {} BY <1>0, <2>1, <2>3, <4>1 DEF PassSoFar
      <4> QED BY <2>3, <4>2, <4>5, <4>6
    <3> QED BY <1>a, <2>1, <2>3, <3>4, <3>6 DEF KeysInv
  <2> QED BY <1>9, <2>2, <2>3 DEF SshKeyModule!deprovisionUnusedUsers, SshKeyModule!DelUser,
          SshKeyModule!removeFromGUsers, SshKeyModule!leave
<1> QED BY <1>1, <1>2, <1>3, <1>4, <1>5, <1>6, <1>7, <1>8, <1>9 DEF SshKeyModule!Next

\* The steps of the other parts keep it.
LEMMA KeysStutter == KeysInv /\ UNCHANGED keysVars => KeysInv'
BY DEF KeysInv, KeysTyped, PassSoFar, WantedKeys, SshKeyModule!active, SshKeyModule!NoKeys,
       SshKeyModule!RecordedUsersHaveTheirKeys, keysVars

\* metadataSSHKeySetup, deprovisionUnusedUsers: after a pass without an error, every account on
\* record has exactly the keys that the metadata gave it, or none under OS Login, whichever
\* step of an earlier pass failed and wherever the plugin was restarted.
THEOREM AccountsHaveTheirKeys == CorePluginSpec => []RecordedUsersHaveTheirKeys
<1>1. CorePluginInit => KeysInv BY KeysInitial DEF CorePluginInit
<1>2. KeysInv /\ [CorePluginNext]_allVars => KeysInv'
  BY OneModuleMoves, KeysStepPreserves, KeysStutter
<1>3. KeysInv => RecordedUsersHaveTheirKeys BY DEF KeysInv, RecordedUsersHaveTheirKeys
<1> QED BY <1>1, <1>2, <1>3, PTL DEF CorePluginSpec

-----------------------------------------------------------------------------
(* The network managers                                                    *)

\* Manager m has no configuration of the agent on disk for a NIC that is configured, where it
\* looks for one.
GaveUp(m) ==
    /\ (m = "networkd" => Network!DirIsKnown) =>
         conf[m] \cap Network!OkNics \subseteq (IF m = "wicked" THEN {0} ELSE {})
    /\ m = "netplan" => dropins \cap Network!OkNics = {}

\* The managers that must have nothing left.
Others == Network!ManagerSet \ (rollbackFailed \cup {activeMgr})

\* The managers that the rollback under way has passed, and all of them from the setup on.
Passed ==
    /\ netPc = "rollback" =>
         \A i \in 1..(mgrIndex - 1) : Network!Managers[i] \in Others => GaveUp(Network!Managers[i])
    /\ netPc = "setup" \/ (netPc = "routes" /\ managed) => \A m \in Others : GaveUp(m)

\* dhclient, which cannot release a lease unless it is installed, is not active either.
DhclientIsInstalled ==
    /\ netPc \in {"rollback", "setup"} /\ activeMgr = "dhclient" => DhclientInstalled
    /\ ~DhclientInstalled => conf["dhclient"] = {}

\* Inductive, when netplan names its drop-ins without a prefix.
NetworkInv ==
    /\ conf = [m \in Network!ManagerSet |-> conf[m]]
    /\ activeMgr \in Network!ManagerSet /\ mgrIndex \in 1..5
    /\ DhclientIsInstalled /\ Passed

\* There are five managers, each with its index.
LEMMA ManagersAre ==
  /\ Network!ManagerSet = {"netplan", "nm", "networkd", "wicked", "dhclient"}
  /\ Len(Network!Managers) = 5 /\ DOMAIN Network!Managers = 1..5
  /\ \A i \in 1..5 : Network!Managers[i] \in Network!ManagerSet
  /\ \A m \in Network!ManagerSet : \E i \in 1..5 : m = Network!Managers[i]
BY DEF Network!ManagerSet, Network!Managers

\* At first nothing is configured.
LEMMA NetworkInitial == Network!Init => NetworkInv
<1> SUFFICES ASSUME Network!Init PROVE NetworkInv
  OBVIOUS
<1>1. conf = [m \in Network!ManagerSet |-> conf[m]] BY DEF Network!Init
<1>2. activeMgr \in Network!ManagerSet /\ mgrIndex \in 1..5 BY ManagersAre DEF Network!Init
<1>3. DhclientIsInstalled /\ Passed BY ManagersAre DEF Network!Init, DhclientIsInstalled, Passed
<1> QED BY <1>1, <1>2, <1>3 DEF NetworkInv

\* A manager that is not active gives the configured NICs up in its rollback.
LEMMA RollbackGivesUp ==
  ASSUME NetworkInv, NEW m \in Network!ManagerSet, m # activeMgr, ~NamePrefix
  PROVE  /\ (m = "networkd" => Network!DirIsKnown) =>
              Network!RollbackOf(m, m = activeMgr).conf \cap Network!OkNics
                \subseteq (IF m = "wicked" THEN {0} ELSE {})
         /\ Network!RollbackDropins(FALSE) \cap Network!OkNics = {}
<1>0. Network!RollbackNics(FALSE) = Network!OkNics BY DEF Network!RollbackNics
<1>1. Network!RollbackDropins(FALSE) \cap Network!OkNics = {} BY <1>0 DEF Network!RollbackDropins
<1>a. (m = activeMgr) = FALSE OBVIOUS
<1>2. (m = "networkd" => Network!DirIsKnown) =>
        Network!RollbackOf(m, FALSE).conf \cap Network!OkNics \subseteq (IF m = "wicked" THEN {0} ELSE {})
  <2>1. CASE m = "netplan"
    BY <2>1 DEF Network!RollbackOf, Network!netplanRollback, Network!Result
  <2>2. CASE m = "nm"
    BY <1>0, <2>2 DEF Network!RollbackOf, Network!nmRollback, Network!Result
  <2>3. CASE m = "networkd"
    BY <1>0, <2>3 DEF Network!RollbackOf, Network!networkdRollback, Network!rollbackConfiguration, Network!Result
  <2>4. CASE m = "wicked"
    BY <1>0, <2>4 DEF Network!RollbackOf, Network!wickedRollback, Network!Result
  <2>5. CASE m = "dhclient"
    <3>1. CASE DhclientInstalled
      BY <2>5, <3>1 DEF Network!RollbackOf, Network!dhclientRollback, Network!Result
    <3>2. CASE ~DhclientInstalled
      BY <2>5, <3>2 DEF Network!RollbackOf, Network!dhclientRollback, Network!Result,
         NetworkInv, DhclientIsInstalled
    <3> QED BY <3>1, <3>2
  <2> QED BY <2>1, <2>2, <2>3, <2>4, <2>5, ManagersAre
<1> QED BY <1>a, <1>1, <1>2

\* Every step of a setup, of the metadata and a restart keep the invariant.
LEMMA NetworkStepPreserves == ~NamePrefix /\ NetworkInv /\ Network!Next => NetworkInv'
<1> SUFFICES ASSUME ~NamePrefix, NetworkInv, Network!Next PROVE NetworkInv'
  OBVIOUS
<1>0. /\ conf = [m \in Network!ManagerSet |-> conf[m]]
      /\ activeMgr \in Network!ManagerSet /\ mgrIndex \in 1..5
      /\ DhclientIsInstalled /\ Passed
  BY DEF NetworkInv
<1> USE DEF Network!mdv, Network!modv, Network!setupv, Network!dropinv, Network!mgrv
<1>1. CASE Network!networkSetup
  <2>1. /\ UNCHANGED <<activeMgr, mgrIndex, rollbackFailed, conf, dropins>>
        /\ netPc' \in {"idle", "active", "routes"}
        /\ netPc' = "routes" => managed' = FALSE
    <3>1. netPc = "idle" /\ UNCHANGED <<activeMgr, mgrIndex, rollbackFailed, conf, dropins>>
      BY <1>1 DEF Network!networkSetup
    <3>2. CASE netPc' = netPc BY <3>1, <3>2
    <3>3. CASE /\ managed' = Network!networkMetadataChanged
               /\ netPc' = IF Network!networkMetadataChanged THEN "active"
                           ELSE IF Network!routeChanged \/ netFailed THEN "routes" ELSE "idle"
      <4>1. CASE Network!networkMetadataChanged BY <3>1, <3>3, <4>1
      <4>2. CASE ~Network!networkMetadataChanged
        <5>1. Network!networkMetadataChanged \in BOOLEAN BY DEF Network!networkMetadataChanged
        <5> QED BY <3>1, <3>3, <4>2, <5>1
      <4> QED BY <4>1, <4>2
    <3> QED BY <1>1, <3>1, <3>2, <3>3 DEF Network!networkSetup
  <2> QED BY <1>0, <2>1 DEF NetworkInv, DhclientIsInstalled, Passed
<1>2. CASE Network!activeManager
  <2>1. UNCHANGED <<conf, dropins, nicConfigs, managed>> /\ mgrIndex' = 1 /\ netPc' \in {"idle", "rollback"}
    BY <1>2 DEF Network!activeManager
  <2>2. CASE netPc' = "idle" /\ UNCHANGED activeMgr
    BY <1>0, <2>1, <2>2 DEF NetworkInv, DhclientIsInstalled, Passed
  <2>3. ASSUME NEW i \in DOMAIN Network!Managers, Network!IsManaging(Network!Managers[i]),
               activeMgr' = Network!Managers[i]
        PROVE  NetworkInv'
    <3>1. activeMgr' \in Network!ManagerSet BY <2>3, ManagersAre
    <3>2. activeMgr' = "dhclient" => DhclientInstalled
      BY <2>3 DEF Network!IsManaging, Network!dhclientIsManaging
    <3>3. DhclientIsInstalled' BY <1>0, <2>1, <3>2 DEF DhclientIsInstalled
    <3>4. Passed' BY <2>1 DEF Passed
    <3> QED BY <1>0, <2>1, <3>1, <3>3, <3>4 DEF NetworkInv
  <2> QED BY <1>2, <2>2, <2>3 DEF Network!activeManager
<1>3. CASE Network!rollback
  <2> DEFINE m == Network!Managers[mgrIndex]
             r == Network!RollbackOf(m, m = activeMgr)
  <2>0. m \in Network!ManagerSet BY <1>0, ManagersAre
  <2>1. /\ netPc = "rollback"
        /\ UNCHANGED <<nicConfigs, activeMgr, managed, systemdConfigDir, dirConfigured>>
    BY <1>3 DEF Network!rollback
  <2>2. CASE netPc' = "panic" /\ UNCHANGED <<conf, mgrIndex>>
    BY <1>0, <2>1, <2>2 DEF NetworkInv, DhclientIsInstalled, Passed
  <2>3. ASSUME netPc' # "panic"
        PROVE  NetworkInv'
    <3>1. \/ /\ conf' = [conf EXCEPT ![m] = r.conf]
             /\ dropins' = IF m = "netplan" THEN Network!RollbackDropins(m = activeMgr) ELSE dropins
             /\ rollbackFailed' = rollbackFailed
          \/ /\ \E left \in SUBSET conf[m] : conf' = [conf EXCEPT ![m] = left]
             /\ m # "netplan" => dropins' = dropins
             /\ rollbackFailed' = rollbackFailed \cup {m}
      <4>1. CASE Network!rollbackFails(m, m = activeMgr)
        BY <4>1 DEF Network!rollbackFails, Network!HalfWay
      <4> QED BY <1>3, <2>3, <4>1 DEF Network!rollback, Network!rollbackFiles
    <3>2. \/ mgrIndex = 5 /\ netPc' = "setup" /\ mgrIndex' = mgrIndex
          \/ mgrIndex # 5 /\ netPc' = "rollback" /\ mgrIndex' = mgrIndex + 1
      BY <1>3, <2>1, <2>3, ManagersAre DEF Network!rollback
    <3>3. Network!OkNics' = Network!OkNics /\ Network!DirIsKnown' = Network!DirIsKnown
      BY <2>1 DEF Network!OkNics, Network!DirIsKnown
    <3>4. m = "dhclient" /\ ~DhclientInstalled => r.conf = conf["dhclient"]
      BY DEF Network!RollbackOf, Network!dhclientRollback, Network!Result
    <3>5. ASSUME NEW k \in Network!ManagerSet, k = m, k \in Others'
          PROVE  GaveUp(k)'
      <4>1. k # activeMgr /\ k \notin rollbackFailed' BY <2>1, <3>5 DEF Others
      <4>2. /\ conf' = [conf EXCEPT ![k] = Network!RollbackOf(k, k = activeMgr).conf]
            /\ dropins' = IF k = "netplan" THEN Network!RollbackDropins(FALSE) ELSE dropins
        BY <3>1, <3>5, <4>1
      <4>3. conf'[k] = Network!RollbackOf(k, k = activeMgr).conf BY <1>0, <4>2
      <4>4. /\ (k = "networkd" => Network!DirIsKnown) =>
                 Network!RollbackOf(k, k = activeMgr).conf \cap Network!OkNics
                   \subseteq (IF k = "wicked" THEN {0} ELSE {})
            /\ Network!RollbackDropins(FALSE) \cap Network!OkNics = {}
        BY <4>1, RollbackGivesUp
      <4> QED BY <3>3, <4>2, <4>3, <4>4 DEF GaveUp
    <3>6. ASSUME NEW k \in Network!ManagerSet, k # m, k \in Others', GaveUp(k)
          PROVE  GaveUp(k)'
      <4>1. conf'[k] = conf[k] BY <1>0, <3>1, <3>6
      <4>2. k = "netplan" => dropins' = dropins BY <3>1, <3>6
      <4> QED BY <3>3, <3>6, <4>1, <4>2 DEF GaveUp
    <3>7. Others' \subseteq Others BY <2>1, <3>1 DEF Others
    <3>8. \A i \in 1..mgrIndex : Network!Managers[i] \in Others' => GaveUp(Network!Managers[i])'
      <4> SUFFICES ASSUME NEW i \in 1..mgrIndex, Network!Managers[i] \in Others'
                   PROVE  GaveUp(Network!Managers[i])'
        OBVIOUS
      <4>1. CASE Network!Managers[i] = m BY <2>0, <3>5, <4>1
      <4>2. CASE Network!Managers[i] # m
        <5>1. i \in 1..(mgrIndex - 1) BY <1>0, <4>2
        <5>2. GaveUp(Network!Managers[i]) BY <1>0, <2>1, <3>7, <5>1 DEF Passed
        <5>3. Network!Managers[i] \in Network!ManagerSet BY DEF Others
        <5> QED BY <3>6, <4>2, <5>2, <5>3
      <4> QED BY <4>1, <4>2
    <3>9. Passed'
      <4>1. CASE mgrIndex = 5 /\ netPc' = "setup"
        <5>1. ASSUME NEW k \in Others' PROVE GaveUp(k)'
          <6>1. PICK i \in 1..5 : k = Network!Managers[i] BY <5>1, ManagersAre DEF Others
          <6> QED BY <3>8, <4>1, <5>1, <6>1
        <5> QED BY <4>1, <5>1 DEF Passed
      <4>2. CASE netPc' = "rollback" /\ mgrIndex' = mgrIndex + 1
        <5>1. 1..(mgrIndex' - 1) = 1..mgrIndex BY <1>0, <4>2
        <5> QED BY <3>8, <4>2, <5>1 DEF Passed
      <4> QED BY <3>2, <4>1, <4>2
    <3>10. DhclientIsInstalled'
      <4>1. ~DhclientInstalled => conf'["dhclient"] = {}
        <5>1. CASE m = "dhclient" /\ ~DhclientInstalled
          BY <1>0, <2>0, <3>1, <3>4, <5>1 DEF DhclientIsInstalled
        <5>2. CASE m # "dhclient"
          <6>1. conf'["dhclient"] = conf["dhclient"] BY <1>0, <3>1, <5>2, ManagersAre
          <6> QED BY <1>0, <6>1 DEF DhclientIsInstalled
        <5> QED BY <5>1, <5>2
      <4> QED BY <1>0, <2>1, <4>1 DEF DhclientIsInstalled
    <3>11. conf' = [k \in Network!ManagerSet |-> conf'[k]] BY <1>0, <3>1
    <3>12. mgrIndex' \in 1..5 BY <1>0, <3>2
    <3> QED BY <1>0, <2>1, <3>9, <3>10, <3>11, <3>12 DEF NetworkInv
  <2>4. netPc' = "panic" => UNCHANGED <<conf, mgrIndex>>
    BY <1>3, <2>1 DEF Network!rollback
  <2> QED BY <2>2, <2>3, <2>4
<1>4. CASE Network!managerSetup
  <2>1. /\ netPc = "setup" /\ netPc' \in {"routes", "idle"}
        /\ UNCHANGED <<nicConfigs, activeMgr, mgrIndex, rollbackFailed, managed, systemdConfigDir, dirConfigured>>
        /\ conf' = [conf EXCEPT ![activeMgr] = Network!SetupOf(activeMgr).conf]
        /\ activeMgr # "netplan" => dropins' = dropins
    BY <1>4 DEF Network!managerSetup
  <2>2. Network!OkNics' = Network!OkNics /\ Others' = Others /\ Network!DirIsKnown' = Network!DirIsKnown
    BY <2>1 DEF Network!OkNics, Others, Network!DirIsKnown
  <2>3. \A m \in Others : conf'[m] = conf[m] /\ (m = "netplan" => dropins' = dropins)
    BY <1>0, <2>1 DEF Others
  <2>4. Passed' BY <1>0, <2>1, <2>2, <2>3 DEF Passed, GaveUp
  <2>5. DhclientIsInstalled' BY <1>0, <2>1, ManagersAre DEF DhclientIsInstalled
  <2>6. conf' = [k \in Network!ManagerSet |-> conf'[k]] BY <1>0, <2>1
  <2> QED BY <1>0, <2>1, <2>4, <2>5, <2>6 DEF NetworkInv
<1>5. CASE Network!routeSetup
  <2>1. netPc' = "idle" /\ UNCHANGED <<conf, activeMgr, mgrIndex>> BY <1>5 DEF Network!routeSetup
  <2> QED BY <1>0, <2>1 DEF NetworkInv, DhclientIsInstalled, Passed
<1>6. CASE Network!netChange
  <2>1. UNCHANGED <<nicConfigs, netPc, activeMgr, mgrIndex, rollbackFailed, managed, conf, dropins,
                    systemdConfigDir, dirConfigured>>
    BY <1>6 DEF Network!netChange
  <2> QED BY <1>0, <2>1
    DEF NetworkInv, DhclientIsInstalled, Passed, GaveUp, Others, Network!OkNics, Network!DirIsKnown
<1>7. CASE Network!netRestart
  <2>1. netPc' = "idle" /\ UNCHANGED <<activeMgr, mgrIndex>>
        /\ (conf' = conf \/ conf' = [conf EXCEPT !["dhclient"] = {}])
    BY <1>7 DEF Network!netRestart
  <2>2. conf' = [k \in Network!ManagerSet |-> conf'[k]] BY <1>0, <2>1
  <2>3. ~DhclientInstalled => conf'["dhclient"] = {} BY <1>0, <2>1, ManagersAre DEF DhclientIsInstalled
  <2> QED BY <1>0, <2>1, <2>2, <2>3 DEF NetworkInv, DhclientIsInstalled, Passed
<1> QED BY <1>1, <1>2, <1>3, <1>4, <1>5, <1>6, <1>7 DEF Network!Next

\* The steps of the other parts keep it.
LEMMA NetworkStutters == NetworkInv /\ UNCHANGED networkVars => NetworkInv'
BY DEF NetworkInv, DhclientIsInstalled, Passed, GaveUp, Others, Network!OkNics, Network!DirIsKnown, networkVars

\* rollback, runManagerSetup: where netplan names its drop-ins of networkd without a prefix (on
\* Debian 12 it does not: RollbackDropins), no manager but the active one has a configuration
\* of the agent left for a configured NIC when the setup is done, wherever earlier ones
\* stopped; unless its rollback failed in this setup, or networkd does not know the directory.
THEOREM ManagersExclude == ~NamePrefix => (CorePluginSpec => []OneManagerConfigures)
<1> SUFFICES ASSUME ~NamePrefix PROVE CorePluginSpec => []OneManagerConfigures
  OBVIOUS
<1>1. CorePluginInit => NetworkInv BY NetworkInitial DEF CorePluginInit
<1>2. NetworkInv /\ [CorePluginNext]_allVars => NetworkInv'
  BY OneModuleMoves, NetworkStepPreserves, NetworkStutters
<1>3. NetworkInv => OneManagerConfigures
  BY DEF NetworkInv, Passed, GaveUp, Others, OneManagerConfigures, Network!OneManagerConfigures
<1> QED BY <1>1, <1>2, <1>3, PTL DEF CorePluginSpec

=============================================================================
