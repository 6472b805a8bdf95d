------------------------------ MODULE Snapshot ------------------------------
(***************************************************************************)
(* Guest consistent snapshots (cmd/core_plugin/snapshot) with the LRU      *)
(* caches of the operations seen (internal/lru).  The host announces a     *)
(* snapshot with a pre request, upon which pre.sh freezes the disks, and   *)
(* its end with a post request, upon which post.sh thaws them.  Each       *)
(* request is handled by a goroutine of its own; a request may be lost     *)
(* with the stream, or come twice.  A watchdog runs post.sh when no post   *)
(* request comes.                                                          *)
(***************************************************************************)
EXTENDS Naturals, Sequences, SequencesExt

CONSTANTS
    Operations,     \* operation ids
    Pre, Post,      \* OperationType_PRE_SNAPSHOT, OperationType_POST_SNAPSHOT
    PreCopies, PostCopies,  \* bound: how often a request of a kind comes
    MaxIDCacheSize  \* maxIDCacheSize

Kinds == {Pre, Post}
Copies(k) == 1..(IF k = Pre THEN PreCopies ELSE PostCopies)
Requests == {r \in Operations \X Kinds \X (1..(PreCopies + PostCopies)) : r[3] \in Copies(r[2])}

VARIABLES
    stream,         \* listen: down, up, or stopped (the context of the module is done)
    seenIDs,        \* per kind, the LRU cache, most recent first
    handler,        \* per request: none, get, put, cancel, script, arm, done
    pendingWatchdogs,   \* per operation, the pre request whose watchdog is registered; 0 is none
    watchdog,       \* per operation and pre request: none, armed, cancelled, mark, script, done
    frozen,         \* operations whose pre.sh froze the disks
    postFailed      \* those among them for which a post.sh has been tried and has not thawed

vars == <<stream, seenIDs, handler, pendingWatchdogs, watchdog, frozen, postFailed>>

TypeOK ==
    /\ stream \in {"down", "up", "stopped"}
    /\ \A k \in Kinds : ToSet(seenIDs[k]) \subseteq Operations
    /\ handler \in [Requests -> {"none", "get", "put", "cancel", "script", "arm", "done"}]
    /\ pendingWatchdogs \in [Operations -> 0..PreCopies]
    /\ watchdog \in [Operations \X Copies(Pre) -> {"none", "armed", "cancelled", "mark", "script", "done"}]
    /\ postFailed \subseteq frozen /\ frozen \subseteq Operations

Init ==
    /\ stream = "down"
    /\ seenIDs = [k \in Kinds |-> <<>>]
    /\ handler = [r \in Requests |-> "none"]
    /\ pendingWatchdogs = [op \in Operations |-> 0]
    /\ watchdog = [w \in Operations \X Copies(Pre) |-> "none"]
    /\ frozen = {} /\ postFailed = {}

\* lru.Get promotes the key it finds; lru.Put evicts the oldest key of a full cache.
Promote(key, ring) == <<key>> \o SelectSeq(ring, LAMBDA x : x # key)
LruGet(ring, key) == IF key \in ToSet(ring) THEN Promote(key, ring) ELSE ring
LruPut(ring, key) ==
    IF key \in ToSet(ring) \/ Len(ring) < MaxIDCacheSize THEN Promote(key, ring)
    ELSE Promote(key, SubSeq(ring, 1, Len(ring) - 1))

\* listen connects, and connects again after a broken stream.
listen ==
    /\ \/ stream = "down" /\ stream' = "up"
       \/ stream = "up" /\ stream' = "down"
    /\ UNCHANGED <<seenIDs, handler, pendingWatchdogs, watchdog, frozen, postFailed>>

\* The plugin is stopped: a script that runs is killed, goroutines see the context done.
stopModule ==
    /\ stream # "stopped" /\ stream' = "stopped"
    /\ UNCHANGED <<seenIDs, handler, pendingWatchdogs, watchdog, frozen, postFailed>>

\* A request arrives on the stream and gets its goroutine.
recv(r) ==
    /\ stream = "up" /\ handler[r] = "none"
    /\ handler' = [handler EXCEPT ![r] = "get"]
    /\ UNCHANGED <<stream, seenIDs, pendingWatchdogs, watchdog, frozen, postFailed>>

\* handleRequest: an operation seen before is a duplicate.
checkSeen(r) ==
    /\ handler[r] = "get"
    /\ handler' = [handler EXCEPT ![r] = IF r[1] \in ToSet(seenIDs[r[2]]) THEN "done" ELSE "put"]
    /\ seenIDs' = [seenIDs EXCEPT ![r[2]] = LruGet(@, r[1])]
    /\ UNCHANGED <<stream, pendingWatchdogs, watchdog, frozen, postFailed>>

markSeen(r) ==
    /\ handler[r] = "put"
    /\ handler' = [handler EXCEPT ![r] = "cancel"]
    /\ seenIDs' = [seenIDs EXCEPT ![r[2]] = LruPut(@, r[1])]
    /\ UNCHANGED <<stream, pendingWatchdogs, watchdog, frozen, postFailed>>

\* The watchdog of the operation, if there is one, is cancelled before the script is looked for.
cancelWatchdog(r) ==
    LET op == r[1]
        w == <<op, pendingWatchdogs[op]>> IN
    /\ handler[r] = "cancel"
    /\ handler' = [handler EXCEPT ![r] = "script"]
    /\ pendingWatchdogs' = [pendingWatchdogs EXCEPT ![op] = 0]
    /\ watchdog' = IF w[2] # 0 /\ watchdog[w] = "armed"
                   THEN [watchdog EXCEPT ![w] = "cancelled"] ELSE watchdog
    /\ UNCHANGED <<stream, seenIDs, frozen, postFailed>>

\* post.sh thaws the disks; or it is not there, no disk has the id, it fails, times out or is
\* killed with the plugin, and the disks stay as they are.
postScript(op) ==
    \/ stream # "stopped" /\ frozen' = frozen \ {op} /\ postFailed' = postFailed \ {op}
    \/ postFailed' = postFailed \cup (frozen \cap {op}) /\ UNCHANGED frozen

\* runScript and runScriptWithNguid of a request end.  pre.sh counts as run when it succeeded,
\* and also when it could not be started at all.  sendResponse, delivered or given up after its
\* attempts, changes nothing here.
runScript(r) ==
    /\ handler[r] = "script"
    /\ \/ /\ r[2] = Pre /\ stream # "stopped"
          /\ frozen' = frozen \cup {r[1]} /\ postFailed' = postFailed \ {r[1]}
          /\ handler' = [handler EXCEPT ![r] = "arm"]
       \/ /\ r[2] = Pre /\ UNCHANGED <<frozen, postFailed>>
          /\ \E h \in {"arm", "done"} : handler' = [handler EXCEPT ![r] = h]
       \/ /\ r[2] = Post /\ postScript(r[1])
          /\ handler' = [handler EXCEPT ![r] = "done"]
    /\ UNCHANGED <<stream, seenIDs, pendingWatchdogs, watchdog>>

startWatchdog(r) ==
    /\ handler[r] = "arm"
    /\ handler' = [handler EXCEPT ![r] = "done"]
    /\ pendingWatchdogs' = [pendingWatchdogs EXCEPT ![r[1]] = r[3]]
    /\ watchdog' = [watchdog EXCEPT ![<<r[1], r[3]>>] = "armed"]
    /\ UNCHANGED <<stream, seenIDs, frozen, postFailed>>

\* The goroutine of a watchdog returns when it is cancelled, or its timer fires; when both
\* have happened, select takes either.
watchdogFires(op, c) ==
    /\ \/ /\ watchdog[<<op, c>>] \in {"armed", "cancelled"} /\ stream # "stopped"
          /\ pendingWatchdogs' = [pendingWatchdogs EXCEPT ![op] = 0]
          /\ watchdog' = [watchdog EXCEPT ![<<op, c>>] = "mark"]
       \/ /\ \/ watchdog[<<op, c>>] = "cancelled"
             \/ watchdog[<<op, c>>] = "armed" /\ stream = "stopped"
          /\ watchdog' = [watchdog EXCEPT ![<<op, c>>] = "done"]
          /\ UNCHANGED pendingWatchdogs
    /\ UNCHANGED <<stream, seenIDs, handler, frozen, postFailed>>

\* Faulty variant: the watchdog leaves an operation alone whose post request was seen.
watchdogMarks_Seen(op, c) ==
    /\ watchdog[<<op, c>>] = "mark"
    /\ watchdog' = [watchdog EXCEPT ![<<op, c>>] = IF op \in ToSet(seenIDs[Post]) THEN "done" ELSE "script"]
    /\ seenIDs' = [seenIDs EXCEPT ![Post] = LruPut(@, op)]
    /\ UNCHANGED <<stream, handler, pendingWatchdogs, frozen, postFailed>>

\* The watchdog marks the post request as seen.
watchdogMarks(op, c) ==
    /\ watchdog[<<op, c>>] = "mark"
    /\ watchdog' = [watchdog EXCEPT ![<<op, c>>] = "script"]
    /\ seenIDs' = [seenIDs EXCEPT ![Post] = LruPut(@, op)]
    /\ UNCHANGED <<stream, handler, pendingWatchdogs, frozen, postFailed>>

\* The watchdog runs post.sh; nobody looks at what it returns.
watchdogThaws(op, c) ==
    /\ watchdog[<<op, c>>] = "script"
    /\ watchdog' = [watchdog EXCEPT ![<<op, c>>] = "done"]
    /\ postScript(op)
    /\ UNCHANGED <<stream, seenIDs, handler, pendingWatchdogs>>

handleRequest ==
    \E r \in Requests :
        \/ checkSeen(r) \/ markSeen(r) \/ cancelWatchdog(r) \/ runScript(r) \/ startWatchdog(r)

runWatchdog ==
    \E op \in Operations, c \in Copies(Pre) :
        watchdogFires(op, c) \/ watchdogMarks(op, c) \/ watchdogThaws(op, c)

Next == listen \/ stopModule \/ (\E r \in Requests : recv(r)) \/ handleRequest \/ runWatchdog

\* Goroutines are scheduled, scripts end or time out, timers fire.  Each request and each
\* watchdog takes a bounded number of steps, so that fairness to all of them together is enough.
Fairness == WF_vars(handleRequest \/ runWatchdog)
Spec == Init /\ [][Next]_vars /\ Fairness

-----------------------------------------------------------------------------
\* startWatchdog: for disks that pre.sh froze a post.sh is tried, whatever becomes of the post
\* request, lost, late, or handled while pre.sh still ran, unless the plugin is stopped.  They
\* stay frozen only if that post.sh fails: the operation then counts as seen, its watchdog is
\* cancelled, and nothing tries again.
FrozenDisksThaw ==
    \A op \in Operations :
        op \in frozen ~> (op \notin frozen \/ op \in postFailed \/ stream = "stopped")

=============================================================================
