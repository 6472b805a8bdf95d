----------------------------- MODULE MtlsCreds -----------------------------
(***************************************************************************)
(* The credentials for the metadata server over mTLS                       *)
(* (cmd/core_plugin/agentcrypto).  A metadata event schedules or           *)
(* unschedules the job; a run of it installs the root certificate of the   *)
(* host (an UEFI variable) once, then fetches client credentials, verifies *)
(* them against the installed root and installs them.  A run that is under *)
(* way when its job is unscheduled goes on, next to the first run of the   *)
(* next job.  Before that, a process removes what the last one left, entry *)
(* by entry; a removal that fails is only logged.  The process may die     *)
(* anywhere, and a reboot may bring another root.                          *)
(***************************************************************************)
EXTENDS Naturals, FiniteSets, Descriptor

CONSTANTS
    MaxJobs,        \* bound: jobs scheduled
    MaxCredsFetches,    \* bound: client credentials issued
    MaxMtlsRestarts \* bound: restarts of the core plugin, with or without a reboot

VARIABLES
    hostRoot,       \* the root certificate the host offers
    signer,         \* per serial issued, the root it is signed by; 0 is not issued
    mtlsUp,         \* the module is set up
    mtlsJob,        \* the job that is scheduled; 0 is none
    jobsMade,       \* jobs made so far
    useNativeStore, rootCertsInstalled,     \* per job
    credsPc,          \* per job, its run: idle, root, fetch, write, pfx, store
    fetched,        \* per job, the serial its run has fetched
    rootFile, clientFile, pfxFile,  \* the files of the credentials directory; 0 is none
    rootStore, clientStore,         \* certificates in the native store
    prevCtx,        \* the client certificate this process put there last
    num,            \* per job, the serial its run found in the file it replaced; 0 is none
    cleanLeft,      \* what the cleanup of this process has still to remove
    clientKept,     \* the client file is one that a cleanup could not remove
    mtlsRestarts

vars == <<hostRoot, signer, mtlsUp, mtlsJob, jobsMade, useNativeStore, rootCertsInstalled, credsPc, fetched,
          rootFile, clientFile, pfxFile, rootStore, clientStore, prevCtx, num, cleanLeft, clientKept, mtlsRestarts>>
files == <<rootFile, clientFile, pfxFile, rootStore, clientStore, prevCtx, num, cleanLeft, clientKept>>
jobs == <<mtlsJob, jobsMade, useNativeStore, rootCertsInstalled, credsPc, fetched>>

Jobs == 1..MaxJobs
Serials == 1..MaxCredsFetches
Roots == 1..(MaxMtlsRestarts + 1)
CredsEntries == {"stores", "pfx", "root", "client"}

TypeOK ==
    /\ hostRoot \in Roots /\ signer \in [Serials -> Roots \cup {0}]
    /\ mtlsUp \in BOOLEAN /\ mtlsJob \in Jobs \cup {0} /\ jobsMade \in 0..MaxJobs
    /\ useNativeStore \in [Jobs -> BOOLEAN] /\ rootCertsInstalled \in [Jobs -> BOOLEAN]
    /\ credsPc \in [Jobs -> {"idle", "root", "fetch", "write", "pfx", "store"}]
    /\ fetched \in [Jobs -> Serials \cup {0}]
    /\ rootFile \in Roots \cup {0} /\ clientFile \in Serials \cup {0} /\ pfxFile \in Serials \cup {0}
    /\ rootStore \subseteq Roots /\ clientStore \subseteq Serials /\ prevCtx \in Serials \cup {0}
    /\ num \in [Jobs -> Serials \cup {0}] /\ cleanLeft \subseteq CredsEntries /\ clientKept \in BOOLEAN
    /\ mtlsRestarts \in 0..MaxMtlsRestarts

Init ==
    /\ hostRoot = 1 /\ signer = [s \in Serials |-> 0] /\ mtlsUp = FALSE
    /\ mtlsJob = 0 /\ jobsMade = 0
    /\ useNativeStore = [j \in Jobs |-> FALSE] /\ rootCertsInstalled = [j \in Jobs |-> FALSE]
    /\ credsPc = [j \in Jobs |-> "idle"] /\ fetched = [j \in Jobs |-> 0]
    /\ rootFile = 0 /\ clientFile = 0 /\ pfxFile = 0 /\ rootStore = {} /\ clientStore = {} /\ prevCtx = 0
    /\ num = [j \in Jobs |-> 0] /\ cleanLeft = CredsEntries /\ clientKept = FALSE
    /\ mtlsRestarts = MaxMtlsRestarts

\* The system store of root certificates and, on Windows, that of client certificates.
addCtxToLocalSystemStore(store, cert) == store \cup {cert}
deleteCert(store, cert) == store \ {cert}

\* cleanupCreds: the certificates that the files name are taken out of the stores, then the
\* files are removed, in any order.  Each of these may fail and is then left.
cleanupCreds(e) ==
    /\ ~mtlsUp /\ e \in cleanLeft /\ ("stores" \in cleanLeft => e = "stores")
    /\ cleanLeft' = cleanLeft \ {e}
    /\ rootStore' \in {rootStore, IF e = "stores" THEN deleteCert(rootStore, rootFile) ELSE rootStore}
    /\ clientStore' \in {clientStore, IF e = "stores" THEN deleteCert(clientStore, clientFile) ELSE clientStore}
    /\ pfxFile' \in {pfxFile, IF e = "pfx" THEN 0 ELSE pfxFile}
    /\ rootFile' \in {rootFile, IF e = "root" THEN 0 ELSE rootFile}
    /\ clientFile' \in {clientFile, IF e = "client" THEN 0 ELSE clientFile}
    /\ clientKept' = IF e = "client" THEN clientFile' # 0 ELSE clientKept
    /\ UNCHANGED <<hostRoot, signer, mtlsUp, jobs, prevCtx, num, mtlsRestarts>>

\* Faulty variant: the module subscribes before the cleanup is over.
setup_Early ==
    /\ ~mtlsUp /\ mtlsUp' = TRUE
    /\ UNCHANGED <<hostRoot, signer, jobs, files, mtlsRestarts>>

\* setup cleans up first, then the module subscribes.
setup ==
    /\ ~mtlsUp /\ cleanLeft = {} /\ mtlsUp' = TRUE
    /\ UNCHANGED <<hostRoot, signer, jobs, files, mtlsRestarts>>

\* The knobs of the instance and of the project come before the configuration file; a job
\* also needs the client credentials key to be readable.
nativeStoreKnob(instance, project, config) ==
    instanceOverProject(ParseBool(instance), ParseBool(project), config)
enableJob(instance, project, config, readable) ==
    ~instanceOverProject(ParseBool(instance), ParseBool(project), config) /\ readable

EnableJobs == {enableJob(i, p, c, r) : i \in Texts, p \in Texts, c \in BOOLEAN, r \in BOOLEAN}
NativeStores == {nativeStoreKnob(i, p, c) : i \in Texts, p \in Texts, c \in BOOLEAN}

\* eventCallback schedules the job if it is not yet, with the store knob of this moment, or
\* unschedules it; a scheduled job starts with a run.
eventCallback ==
    /\ mtlsUp
    /\ \E shouldSchedule \in EnableJobs :
         \/ /\ ~shouldSchedule /\ mtlsJob # 0 /\ mtlsJob' = 0
            /\ UNCHANGED <<jobsMade, useNativeStore, credsPc>>
         \/ /\ shouldSchedule /\ mtlsJob = 0 /\ jobsMade < MaxJobs
            /\ jobsMade' = jobsMade + 1 /\ mtlsJob' = jobsMade + 1
            /\ \E native \in NativeStores : useNativeStore' = [useNativeStore EXCEPT ![jobsMade + 1] = native]
            /\ credsPc' = [credsPc EXCEPT ![jobsMade + 1] = "root"]
    /\ UNCHANGED <<hostRoot, signer, mtlsUp, rootCertsInstalled, fetched, files, mtlsRestarts>>

\* The next tick of MTLSScheduleInterval.
tick(j) ==
    /\ mtlsJob = j /\ credsPc[j] = "idle" /\ credsPc' = [credsPc EXCEPT ![j] = "root"]
    /\ UNCHANGED <<hostRoot, signer, mtlsUp, mtlsJob, jobsMade, useNativeStore, rootCertsInstalled, fetched,
                   files, mtlsRestarts>>

\* The root is written; with the native store it replaces there the one that was on disk,
\* as far as that can be deleted.
writeRootCACert(native) ==
    /\ rootFile' = hostRoot
    /\ rootStore' \in IF native THEN {addCtxToLocalSystemStore(rest, hostRoot) :
                                       rest \in {rootStore, deleteCert(rootStore, rootFile)}}
                      ELSE {rootStore}

\* readRootCACert and writeRootCACert, on the first run of the job that gets this far.
installRoot(j) ==
    /\ credsPc[j] = "root" /\ credsPc' = [credsPc EXCEPT ![j] = "fetch"]
    /\ rootCertsInstalled' = [rootCertsInstalled EXCEPT ![j] = TRUE]
    /\ IF rootCertsInstalled[j] THEN UNCHANGED <<rootFile, rootStore>> ELSE writeRootCACert(useNativeStore[j])
    /\ UNCHANGED <<hostRoot, signer, mtlsUp, mtlsJob, jobsMade, useNativeStore, fetched, clientFile, pfxFile,
                   clientStore, prevCtx, num, cleanLeft, clientKept, mtlsRestarts>>

\* The certificate is signed by the root on disk.
verifySign(issuer) == rootFile = issuer

\* fetchClientCredentials: the server issues a certificate, the TPM decrypts its key, and
\* the certificate is checked.
fetchClientCredentials(j) ==
    /\ credsPc[j] = "fetch"
    /\ \E s \in Serials :
         /\ signer[s] = 0 /\ \A t \in Serials : signer[t] = 0 => s <= t
         /\ signer' = [signer EXCEPT ![s] = hostRoot]
         /\ fetched' = [fetched EXCEPT ![j] = s]
         /\ credsPc' = [credsPc EXCEPT ![j] = IF verifySign(hostRoot) THEN "write" ELSE "idle"]
    /\ UNCHANGED <<hostRoot, mtlsUp, mtlsJob, jobsMade, useNativeStore, rootCertsInstalled, files, mtlsRestarts>>

\* writeClientCredentials replaces the file and keeps the serial of the old one.
writeClientCredentials(j) ==
    /\ credsPc[j] = "write" /\ clientFile' = fetched[j] /\ clientKept' = FALSE
    /\ num' = [num EXCEPT ![j] = clientFile]
    /\ \E windows \in BOOLEAN : credsPc' = [credsPc EXCEPT ![j] = IF windows THEN "pfx" ELSE "idle"]
    /\ UNCHANGED <<hostRoot, signer, mtlsUp, mtlsJob, jobsMade, useNativeStore, rootCertsInstalled, fetched,
                   rootFile, pfxFile, rootStore, clientStore, prevCtx, cleanLeft, mtlsRestarts>>

\* On Windows the PFX file follows,
writePFX(j) ==
    /\ credsPc[j] = "pfx" /\ pfxFile' = fetched[j]
    /\ credsPc' = [credsPc EXCEPT ![j] = IF useNativeStore[j] THEN "store" ELSE "idle"]
    /\ UNCHANGED <<hostRoot, signer, mtlsUp, mtlsJob, jobsMade, useNativeStore, rootCertsInstalled, fetched,
                   rootFile, clientFile, rootStore, clientStore, prevCtx, num, cleanLeft, clientKept, mtlsRestarts>>

\* and the certificate in the native store, in place of the last one of this process, or of
\* the one in the replaced file if there is none, as far as that can be deleted.
storeClientCert(j) ==
    /\ credsPc[j] = "store" /\ credsPc' = [credsPc EXCEPT ![j] = "idle"]
    /\ LET previous == IF prevCtx # 0 THEN prevCtx ELSE num[j]
       IN  \E rest \in {clientStore, deleteCert(clientStore, previous)} :
             clientStore' = addCtxToLocalSystemStore(rest, fetched[j])
    /\ prevCtx' = fetched[j]
    /\ UNCHANGED <<hostRoot, signer, mtlsUp, mtlsJob, jobsMade, useNativeStore, rootCertsInstalled, fetched,
                   rootFile, clientFile, pfxFile, rootStore, num, cleanLeft, clientKept, mtlsRestarts>>

\* A step of Run fails: the next tick starts it over.
runFails(j) ==
    /\ credsPc[j] # "idle" /\ credsPc' = [credsPc EXCEPT ![j] = "idle"]
    /\ UNCHANGED <<hostRoot, signer, mtlsUp, mtlsJob, jobsMade, useNativeStore, rootCertsInstalled, fetched,
                   files, mtlsRestarts>>

\* The core plugin dies and starts again; with a reboot the host may offer another root.
restart ==
    /\ mtlsRestarts > 0 /\ mtlsRestarts' = mtlsRestarts - 1
    /\ mtlsUp' = FALSE /\ prevCtx' = 0
    /\ hostRoot' \in {hostRoot, hostRoot + 1}
    /\ mtlsJob' = 0 /\ jobsMade' = 0
    /\ useNativeStore' = [j \in Jobs |-> FALSE] /\ rootCertsInstalled' = [j \in Jobs |-> FALSE]
    /\ credsPc' = [j \in Jobs |-> "idle"] /\ fetched' = [j \in Jobs |-> 0]
    /\ num' = [j \in Jobs |-> 0] /\ cleanLeft' = CredsEntries
    /\ UNCHANGED <<signer, rootFile, clientFile, pfxFile, rootStore, clientStore, clientKept>>

Next ==
    \/ (\E e \in CredsEntries : cleanupCreds(e)) \/ setup \/ eventCallback \/ restart
    \/ \E j \in Jobs : \/ tick(j) \/ installRoot(j) \/ fetchClientCredentials(j) \/ writeClientCredentials(j)
                       \/ writePFX(j) \/ storeClientCert(j) \/ runFails(j)

Spec == Init /\ [][Next]_vars

-----------------------------------------------------------------------------
\* Run, verifySign, cleanupCreds: client credentials never stand next to a root that does not
\* verify them, also when two jobs run at once, a run or a cleanup stops half way because it
\* fails or the process dies, and a reboot brings another root; but for a client file that a
\* cleanup could not remove and that has not been replaced since.
ClientIsVerified ==
    clientFile # 0 /\ rootFile # 0 /\ ~clientKept => rootFile = signer[clientFile]

=============================================================================
