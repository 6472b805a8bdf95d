-------------------------- MODULE MetadataWatcher --------------------------
(***************************************************************************)
(* The metadata client and its long poll watcher (internal/metadata).  The *)
(* server holds a hanging request until its content differs from the etag  *)
(* the client names, or the request times out.  The client stores the etag *)
(* of a response before it has read the body, so a body that is lost takes *)
(* its etag with it.                                                       *)
(***************************************************************************)
EXTENDS Naturals

CONSTANTS
    MaxVersion,     \* bound: changes of the metadata
    MaxAttempts     \* backoffAttempts: how often a request is tried

VARIABLES
    mdsVersion,     \* the content of the metadata server; its etag tells versions apart
    etag,           \* Client.etag: a version, or NoEtag ("NONE")
    firstRun,       \* Watcher.firstRun
    mdsPc,          \* where Run is
    hang,           \* requestConfig.hang
    attempt,        \* attempts of the request so far
    body,           \* the version in the response that is being read
    seen            \* the version of the last descriptor given to the subscribers

vars == <<mdsVersion, etag, firstRun, mdsPc, hang, attempt, body, seen>>

NoEtag == MaxVersion + 1    \* defaultEtag: no version of the server has it

Init ==
    /\ mdsVersion = 0 /\ etag = NoEtag
    /\ firstRun = TRUE /\ mdsPc = "idle" /\ hang = FALSE
    /\ attempt = 0 /\ body = 0 /\ seen = NoEtag

\* External: the metadata changes.
change ==
    /\ mdsVersion < MaxVersion /\ mdsVersion' = mdsVersion + 1
    /\ UNCHANGED <<etag, firstRun, mdsPc, hang, attempt, body, seen>>

\* Get in the first run, Watch in the later ones.
getOrWatch == ~firstRun

Run ==
    /\ mdsPc = "idle"
    /\ hang' = getOrWatch
    /\ mdsPc' = "sent" /\ attempt' = 0
    /\ UNCHANGED <<mdsVersion, etag, firstRun, body, seen>>

\* Run returns: with an error when the request failed, with a descriptor otherwise.  It
\* is run again in any case.
return(d) ==
    /\ mdsPc' = "idle" /\ firstRun' = FALSE
    /\ seen' = d /\ attempt' = 0

\* Faulty variant: a request sets no timeout.
hangTimeout_None == 0

\* requestConfig.timeout of Get and Watch, in seconds.
hangTimeout == 60

\* External: the server answers at once, when its content is not what the client has
\* seen, or when the timeout of the request has passed.
answered == ~hang \/ etag # mdsVersion \/ hangTimeout > 0

\* The header of a 200 response arrives: a hanging request stores its etag.
updateEtag ==
    /\ mdsPc = "sent" /\ answered
    /\ etag' = IF hang THEN mdsVersion ELSE etag
    /\ body' = mdsVersion /\ mdsPc' = "body"
    /\ UNCHANGED <<mdsVersion, firstRun, hang, attempt, seen>>

\* A connection error, a status that is not OK or a body that cannot be read: tried
\* again, but for the status 404 and the last attempt.
retry ==
    /\ mdsPc \in {"sent", "body"}
    /\ \/ /\ attempt + 1 < MaxAttempts
          /\ attempt' = attempt + 1 /\ mdsPc' = "sent"
          /\ UNCHANGED <<firstRun, seen>>
       \/ return(seen)
    /\ UNCHANGED <<mdsVersion, etag, hang, body>>

\* The body is read and unmarshalled.
deliver ==
    /\ mdsPc = "body"
    /\ return(body)
    /\ UNCHANGED <<mdsVersion, etag, hang, body>>

\* The body does not unmarshal: Run returns the error.
UnmarshalFails ==
    /\ mdsPc = "body"
    /\ return(seen)
    /\ UNCHANGED <<mdsVersion, etag, hang, body>>

Next == change \/ Run \/ updateEtag \/ retry \/ deliver \/ UnmarshalFails

\* The watcher is rerun, requests end, and failures are not all there is: a request that
\* is answered again and again is read at last.
Fairness == WF_vars(Run) /\ SF_vars(updateEtag) /\ SF_vars(deliver)

Spec == Init /\ [][Next]_vars /\ Fairness

-----------------------------------------------------------------------------
\* Every change of the metadata reaches the subscribers, or a later one does, although the
\* etag of a lost body is not asked for again.
ChangesArrive == \A v \in 0..MaxVersion : mdsVersion = v ~> (seen \in v..MaxVersion)

=============================================================================
