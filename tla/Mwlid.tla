-------------------------------- MODULE Mwlid --------------------------------
(***************************************************************************)
(* The managed workload identity extension (cmd/mwlid_extension).  A       *)
(* refresh writes credentials, from the gRPC service or from the metadata  *)
(* server, into a directory named for the second it starts in, points a    *)
(* symbolic link at it and removes the old directory.  It runs at the      *)
(* start, on a timer and when the identity in the metadata changes; a loop *)
(* that was stopped may still be at work when the next one starts, and two *)
(* refreshes of one second have one directory.                             *)
(***************************************************************************)
EXTENDS Naturals, FiniteSets

CONSTANTS
    MaxRefreshes,   \* bound: refreshes begun
    MaxExtStarts    \* bound: Start requests

VARIABLES
    grpcService,    \* the gRPC service is configured and available, or the metadata server is asked
    loop,           \* per Start, its core loop: none, run, stopped (context done), ended
    refreshPc,      \* per loop, where its refresh is (RefreshPcs)
    target,         \* per loop, the directory it works on
    oldTarget,      \* per loop, what the link pointed at
    dirs,           \* per directory: absent, status, part, whole (all of one refresh)
    temp,           \* directories that a temporary link points at
    link,           \* the directory the published link points at; 0 is no link
    mdsUuid, prevUUID,  \* the identity in the metadata, and the one a loop knows
    mdsChan,        \* per loop, the identity channel holds a change
    begun,          \* refreshes begun
    second,         \* the second the last of them began in, of those one began in
    shared          \* the directories of more than one refresh

vars == <<grpcService, loop, refreshPc, target, oldTarget, dirs, temp, link, mdsUuid, prevUUID, mdsChan,
          begun, second, shared>>
disk == <<dirs, temp, link>>
watch == <<mdsUuid, prevUUID, mdsChan>>
names == <<begun, second, shared>>

Loops == 1..MaxExtStarts
Dirs == 1..MaxRefreshes
Uuids == 0..2
RefreshPcs == {"idle", "certs", "bundle", "files", "rest", "status", "ids", "anchors",
               "temp", "remove", "rename", "clean", "old"}

TypeOK ==
    /\ grpcService \in BOOLEAN
    /\ loop \in [Loops -> {"none", "run", "stopped", "ended"}]
    /\ refreshPc \in [Loops -> RefreshPcs]
    /\ target \in [Loops -> Dirs \cup {0}] /\ oldTarget \in [Loops -> Dirs \cup {0}]
    /\ dirs \in [Dirs -> {"absent", "status", "part", "whole"}] /\ temp \subseteq Dirs
    /\ link \in Dirs \cup {0} /\ mdsUuid \in Uuids /\ prevUUID \in [Loops -> Uuids]
    /\ mdsChan \in [Loops -> BOOLEAN] /\ begun \in 0..MaxRefreshes
    /\ second \in Dirs \cup {0} /\ shared \subseteq Dirs

Init ==
    /\ loop = [l \in Loops |-> "none"] /\ refreshPc = [l \in Loops |-> "idle"]
    /\ target = [l \in Loops |-> 0] /\ oldTarget = [l \in Loops |-> 0]
    /\ dirs = [d \in Dirs |-> "absent"] /\ temp = {} /\ link = 0
    /\ mdsUuid = 1 /\ prevUUID = [l \in Loops |-> 0] /\ mdsChan = [l \in Loops |-> FALSE]
    /\ begun = 0 /\ second = 0 /\ shared = {} /\ grpcService \in BOOLEAN

\* Start is a no-op on a running extension; Stop cancels the context of the loop.
Start(l) ==
    /\ loop[l] = "none" /\ \A k \in Loops : loop[k] # "run" /\ (k < l => loop[k] # "none")
    /\ loop' = [loop EXCEPT ![l] = "run"]
    /\ UNCHANGED <<refreshPc, target, oldTarget, disk, watch, names>>

Stop(l) ==
    /\ loop[l] = "run" /\ loop' = [loop EXCEPT ![l] = "stopped"]
    /\ UNCHANGED <<refreshPc, target, oldTarget, disk, watch, names>>

\* coreLoop sees the context done.
loopEnds(l) ==
    /\ loop[l] = "stopped" /\ refreshPc[l] = "idle" /\ loop' = [loop EXCEPT ![l] = "ended"]
    /\ UNCHANGED <<refreshPc, target, oldTarget, disk, watch, names>>

\* runRefresher, for the start of the loop, the timer or a change; generateTmpDirNames names
\* the directory after the second, which may be that of the refresh before.  Without the
\* gRPC service the metadata server is asked.
runRefresher(l) ==
    /\ loop[l] \in {"run", "stopped"} /\ refreshPc[l] = "idle" /\ begun < MaxRefreshes
    /\ begun' = begun + 1
    /\ second' \in {second, second + 1} \ {0}
    /\ shared' = IF second' = second THEN shared \cup {second} ELSE shared
    /\ target' = [target EXCEPT ![l] = second']
    /\ refreshPc' = [refreshPc EXCEPT ![l] = IF grpcService THEN "certs" ELSE "status"]
    /\ mdsChan' = [mdsChan EXCEPT ![l] = FALSE]
    /\ UNCHANGED <<loop, oldTarget, disk, mdsUuid, prevUUID>>

goto(l, pc) == refreshPc' = [refreshPc EXCEPT ![l] = pc]

\* Faulty variant: the link is rotated when the certificates are there, before the bundle is.
refreshCredsWithGRPC_Early(l) ==
    /\ \/ refreshPc[l] = "certs" /\ goto(l, "bundle") /\ UNCHANGED dirs
       \/ refreshPc[l] = "bundle" /\ goto(l, "files") /\ UNCHANGED dirs
       \/ /\ refreshPc[l] = "files" /\ goto(l, "temp")
          /\ dirs' = [dirs EXCEPT ![target[l]] = "part"]
    /\ UNCHANGED <<loop, target, oldTarget, temp, link, watch, names>>

\* refreshCredsWithGRPC: certificates and bundle are fetched, with retries, then written one
\* after the other, over the files of a refresh of the same second.
refreshCredsWithGRPC(l) ==
    /\ \/ refreshPc[l] = "certs" /\ goto(l, "bundle") /\ UNCHANGED dirs
       \/ refreshPc[l] = "bundle" /\ goto(l, "files") /\ UNCHANGED dirs
       \/ refreshPc[l] = "files" /\ goto(l, "rest") /\ dirs' = [dirs EXCEPT ![target[l]] = "part"]
       \/ refreshPc[l] = "rest" /\ goto(l, "temp") /\ dirs' = [dirs EXCEPT ![target[l]] = "whole"]
    /\ UNCHANGED <<loop, target, oldTarget, temp, link, watch, names>>

\* What os.Stat says of the link: it follows it.
StatNotExist == link \notin {d \in Dirs : dirs[d] # "absent"}

\* writeCredsFromMDS: a status that cannot be read is no error; the status is published by
\* itself when there is no link; identities and trust anchors follow.
writeCredsFromMDS(l) ==
    /\ refreshPc[l] = "status"
    /\ \/ goto(l, "temp") /\ UNCHANGED disk
       \/ /\ dirs' = [dirs EXCEPT ![target[l]] = IF @ = "absent" THEN "status" ELSE @]
          /\ UNCHANGED temp
          /\ \/ ~StatNotExist /\ goto(l, "ids") /\ UNCHANGED link
             \/ StatNotExist /\ link = 0 /\ goto(l, "ids") /\ link' = target[l]
             \/ StatNotExist /\ link # 0 /\ goto(l, "idle") /\ UNCHANGED link
    /\ UNCHANGED <<loop, target, oldTarget, watch, names>>

\* The certificates of the identity, and its key if there is one.
writeWorkloadIdentities(l) ==
    /\ refreshPc[l] = "ids" /\ goto(l, "anchors")
    /\ dirs' = [dirs EXCEPT ![target[l]] = "part"]
    /\ UNCHANGED <<loop, target, oldTarget, temp, link, watch, names>>

\* The anchors of its trust domain; no matching domain is a failure.
writeTrustAnchors(l) ==
    /\ refreshPc[l] = "anchors" /\ goto(l, "temp")
    /\ dirs' = [dirs EXCEPT ![target[l]] = "whole"]
    /\ UNCHANGED <<loop, target, oldTarget, temp, link, watch, names>>

\* refreshCreds rotates: a temporary link, which is an error when there is one already, the
\* old target, the link removed, the temporary one renamed, the link read again, and the old
\* directory removed when it is another one.
rotate(l) ==
    /\ \/ /\ refreshPc[l] = "temp" /\ target[l] \notin temp /\ goto(l, "remove")
          /\ temp' = temp \cup {target[l]} /\ oldTarget' = [oldTarget EXCEPT ![l] = link]
          /\ UNCHANGED <<dirs, link>>
       \/ /\ refreshPc[l] = "remove" /\ goto(l, "rename") /\ link' = 0
          /\ UNCHANGED <<dirs, temp, oldTarget>>
       \/ /\ refreshPc[l] = "rename" /\ goto(l, "clean")
          /\ link' = target[l] /\ temp' = temp \ {target[l]}
          /\ UNCHANGED <<dirs, oldTarget>>
       \/ /\ refreshPc[l] = "clean"
          /\ goto(l, IF link \in {0, oldTarget[l]} \/ oldTarget[l] = 0 THEN "idle" ELSE "old")
          /\ UNCHANGED <<dirs, temp, link, oldTarget>>
       \/ /\ refreshPc[l] = "old" /\ goto(l, "idle")
          /\ \E c \in {"absent", "part"} :     \* RemoveAll may end half way
               /\ c = "part" => dirs[oldTarget[l]] = "whole"
               /\ dirs' = [dirs EXCEPT ![oldTarget[l]] = c]
          /\ UNCHANGED <<temp, link, oldTarget>>
    /\ UNCHANGED <<loop, target, watch, names>>

\* A step fails: what was written stays where it is.
refreshFails(l) ==
    /\ refreshPc[l] # "idle" /\ goto(l, "idle")
    /\ UNCHANGED <<loop, target, oldTarget, disk, watch, names>>

\* watchIdentity: the first identity seen is the one the first refresh is for.
watchIdentity(l) ==
    /\ loop[l] = "run" /\ ~mdsChan[l] /\ prevUUID[l] # mdsUuid
    /\ prevUUID' = [prevUUID EXCEPT ![l] = mdsUuid]
    /\ mdsChan' = [mdsChan EXCEPT ![l] = prevUUID[l] # 0]
    /\ UNCHANGED <<loop, refreshPc, target, oldTarget, disk, mdsUuid, names>>

\* External: the identity of the instance is changed.
changeIdentity ==
    /\ mdsUuid = 1 /\ mdsUuid' = 2
    /\ UNCHANGED <<loop, refreshPc, target, oldTarget, disk, prevUUID, mdsChan, names>>

Next ==
    /\ UNCHANGED grpcService
    /\ \/ changeIdentity
       \/ \E l \in Loops :
         \/ Start(l) \/ Stop(l) \/ loopEnds(l) \/ runRefresher(l) \/ watchIdentity(l)
         \/ refreshCredsWithGRPC(l) \/ writeCredsFromMDS(l)
         \/ writeWorkloadIdentities(l) \/ writeTrustAnchors(l)
         \/ rotate(l) \/ refreshFails(l)

Spec == Init /\ [][Next]_vars

-----------------------------------------------------------------------------
\* refreshCreds, "Only rotate on success of all steps above": with the gRPC service, whoever
\* follows the published link finds whole credentials, at every moment of a refresh that
\* fails half way or overlaps another loop's, unless it leads to the directory of two
\* refreshes that began in the same second.
LinkLeadsToCredentials ==
    grpcService /\ link \notin shared \cup {0} => dirs[link] = "whole"

\* The same of every directory: not so, the second refresh writes over what is published.
AnyLinkLeadsToCredentials == grpcService /\ link # 0 => dirs[link] = "whole"

\* writeCredsFromMDS, "This ensures that the symlink directory always exists and contains the
\* config_status to surface config errors to the VM": a published link leads to a directory.
LinkLeadsToDirectory == link # 0 => dirs[link] # "absent"

=============================================================================
