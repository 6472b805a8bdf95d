------------------------------ MODULE AcsClient ------------------------------
(***************************************************************************)
(* The client of the Agent Communication Service (internal/acs/client) and *)
(* the retry loop that its calls run in (internal/retry).  All users share *)
(* one cached client and one cached stream: Send writes to the stream,     *)
(* SendMessage makes a unary call on the client, Watch (called by the ACS  *)
(* watcher over and over) reads from the stream.  connMu protects the      *)
(* cache only between the calls: a user connects, then takes the cached    *)
(* stream, then uses it, and other users come in between.                  *)
(***************************************************************************)
EXTENDS Naturals, FiniteSets

CONSTANTS
    Users,         \* goroutines that use the client
    Methods,       \* \subseteq {"Send", "SendMessage", "Watch"}
    MaxAttempts,   \* defaultRetrypolicy.MaxAttempts
    MaxConns,      \* bound on the clients, and on the streams, anybody refers to at once
    Failures       \* what may fail: \subseteq {"metadata", "NewClient", "NewConnection"}

ASSUME AcsAssumption ==
    /\ Methods \subseteq {"Send", "SendMessage", "Watch"}
    /\ Failures \subseteq {"metadata", "NewClient", "NewConnection"}
    /\ MaxAttempts \in Nat \ {0}
    /\ MaxConns \in Nat

Nil == 0

Ids == 1..MaxConns

VARIABLES
    isEnabled,     \* acsHelper.isEnabled: "unset", "yes" or "no"
    connection,    \* acsHelper.connection
    client,        \* acsHelper.client
    isSet,         \* acsHelper.isConnectionSet
    openClients,   \* clients that are not closed
    openConns,     \* streams that are not closed
    broken,        \* open streams that the network or the server has ended
    pc,            \* where each user is
    call,          \* the method it is in
    attempt,       \* the attempt of its retry loop
    conn,          \* the stream it took
    stub,          \* the client it took
    panicked       \* a nil stream or client was used: the process is gone

userVars == <<pc, call, attempt, conn, stub>>
cacheVars == <<connection, client, isSet>>
poolVars == <<openClients, openConns, broken>>
vars == <<isEnabled, cacheVars, poolVars, userVars, panicked>>

\* The cache, the users and their calls keep their types; a cache that counts as
\* set holds a client and a stream (connect sets the flag last).
TypeOK ==
    /\ isEnabled \in {"unset", "yes", "no"}
    /\ {connection, client} \subseteq Ids \cup {Nil}
    /\ isSet \in BOOLEAN
    /\ isSet => connection # Nil /\ client # Nil
    /\ openClients \subseteq Ids /\ openConns \subseteq Ids /\ broken \subseteq Ids
    /\ pc \in [Users -> {"idle", "enabled?", "connect", "take", "use", "close", "backoff"}]
    /\ call \in [Users -> Methods \cup {"none"}]
    /\ attempt \in [Users -> 0..MaxAttempts]
    /\ conn \in [Users -> Ids \cup {Nil}]
    /\ stub \in [Users -> Ids \cup {Nil}]
    /\ panicked \in BOOLEAN

Init ==
    /\ isEnabled = "unset"
    /\ connection = Nil /\ client = Nil /\ isSet = FALSE
    /\ openClients = {} /\ openConns = {} /\ broken = {}
    /\ pc = [u \in Users |-> "idle"]
    /\ call = [u \in Users |-> "none"]
    /\ attempt = [u \in Users |-> 0]
    /\ conn = [u \in Users |-> Nil]
    /\ stub = [u \in Users |-> Nil]
    /\ panicked = FALSE

-----------------------------------------------------------------------------
Goto(u, l) == pc' = [pc EXCEPT ![u] = l]

Return(u) == /\ Goto(u, "idle")
             /\ call' = [call EXCEPT ![u] = "none"]
             /\ attempt' = [attempt EXCEPT ![u] = 0]
             /\ conn' = [conn EXCEPT ![u] = Nil]
             /\ stub' = [stub EXCEPT ![u] = Nil]

Call(u, m) ==
    /\ pc[u] = "idle" /\ m \in Methods
    /\ Goto(u, "enabled?")
    /\ call' = [call EXCEPT ![u] = m]
    /\ UNCHANGED <<isEnabled, cacheVars, poolVars, attempt, conn, stub, panicked>>

\* isACSEnabled asks the metadata server until it gets an answer, which it keeps.
\* A client that is not enabled does nothing.
isACSEnabled(u) ==
    /\ pc[u] = "enabled?"
    /\ \/ isEnabled = "unset" /\ isEnabled' \in {"yes", "no"}
       \/ isEnabled = "unset" /\ "metadata" \in Failures /\ UNCHANGED isEnabled
       \/ isEnabled # "unset" /\ UNCHANGED isEnabled
    /\ IF isEnabled' = "yes" THEN Goto(u, "connect") /\ UNCHANGED <<call, attempt, conn, stub>>
       ELSE Return(u)
    /\ UNCHANGED <<cacheVars, poolVars, panicked>>

\* A client and a stream nobody refers to.
NewClient == Ids \ (openClients \cup {client} \cup {stub[u] : u \in Users})
NewConn == Ids \ (openConns \cup {connection} \cup {conn[u] : u \in Users})

shouldReconnect == ~isSet \/ client = Nil \/ connection = Nil

\* Faulty variant: a new stream for every call.
connectAlways(u) ==
    /\ pc[u] = "connect" /\ NewClient # {} /\ NewConn # {}
    /\ client' = CHOOSE k \in NewClient : TRUE
    /\ connection' = CHOOSE c \in NewConn : TRUE
    /\ openClients' = openClients \cup {client'}
    /\ openConns' = openConns \cup {connection'}
    /\ broken' = broken \ {connection'}
    /\ isSet' = TRUE
    /\ Goto(u, "take")
    /\ UNCHANGED <<isEnabled, call, attempt, conn, stub, panicked>>

\* connect, under connMu: NewClient and NewConnection leave nil in the cache when
\* they fail, and the attempt has failed.
connect(u) ==
    /\ pc[u] = "connect"
    /\ \/ /\ ~shouldReconnect
          /\ Goto(u, "take")
          /\ UNCHANGED <<cacheVars, poolVars>>
       \/ /\ shouldReconnect /\ "NewClient" \in Failures
          /\ client' = Nil
          /\ Goto(u, "backoff")
          /\ UNCHANGED <<connection, isSet, poolVars>>
       \/ /\ shouldReconnect /\ NewClient # {}
          /\ client' = CHOOSE k \in NewClient : TRUE
          /\ openClients' = openClients \cup {client'}
          /\ \/ /\ "NewConnection" \in Failures
                /\ connection' = Nil
                /\ Goto(u, "backoff")
                /\ UNCHANGED <<isSet, openConns, broken>>
             \/ /\ NewConn # {}
                /\ connection' = CHOOSE c \in NewConn : TRUE
                /\ openConns' = openConns \cup {connection'}
                /\ broken' = broken \ {connection'}
                /\ isSet' = TRUE
                /\ Goto(u, "take")
    /\ UNCHANGED <<isEnabled, call, attempt, conn, stub, panicked>>

\* The user takes what is in the cache now, under connMu.
take(u) ==
    /\ pc[u] = "take"
    /\ conn' = [conn EXCEPT ![u] = connection]
    /\ stub' = [stub EXCEPT ![u] = client]
    /\ Goto(u, "use")
    /\ UNCHANGED <<isEnabled, cacheVars, poolVars, call, attempt, panicked>>

\* What the call is made on is nil: the process dies.
useNil(u) ==
    /\ pc[u] = "use"
    /\ IF call[u] = "SendMessage" THEN stub[u] = Nil ELSE conn[u] = Nil
    /\ panicked' = TRUE
    /\ UNCHANGED <<isEnabled, cacheVars, poolVars, userVars>>

\* conn.SendMessage, conn.Receive or client.SendAgentMessage succeeds ...
useOK(u) ==
    /\ pc[u] = "use"
    /\ IF call[u] = "SendMessage" THEN stub[u] \in openClients
       ELSE conn[u] \in openConns \ broken
    /\ Return(u)
    /\ UNCHANGED <<isEnabled, cacheVars, poolVars, panicked>>

\* ... or fails: at any time, and always on what is closed or broken.
useFails(u) ==
    /\ pc[u] = "use"
    /\ IF call[u] = "SendMessage" THEN stub[u] # Nil ELSE conn[u] # Nil
    /\ Goto(u, "close")
    /\ UNCHANGED <<isEnabled, cacheVars, poolVars, call, attempt, conn, stub, panicked>>

\* Faulty variant: whatever stream is cached is closed.
closeCached(u) ==
    /\ pc[u] = "close" /\ connection # Nil /\ client # Nil
    /\ isSet' = FALSE
    /\ openConns' = openConns \ {connection}
    /\ openClients' = openClients \ {client}
    /\ Goto(u, "backoff")
    /\ UNCHANGED <<isEnabled, connection, client, broken, call, attempt, conn,
                   stub, panicked>>

\* closeConnection closes the cached stream and client if the stream is still the
\* one that failed; the cache keeps them until somebody connects.
closeConnection(u) ==
    /\ pc[u] = "close"
    /\ \/ /\ connection # conn[u]
          /\ UNCHANGED <<isSet, openConns, openClients, broken, panicked>>
       \/ /\ connection = conn[u]
          /\ isSet' = FALSE
          /\ openConns' = openConns \ {connection}
          /\ openClients' = openClients \ {client}
          /\ broken' = broken \ {connection}
          /\ panicked' = (connection = Nil \/ client = Nil)
    /\ Goto(u, "backoff")
    /\ UNCHANGED <<isEnabled, connection, client, call, attempt, conn, stub>>

\* Faulty variant: Send and SendMessage never give up.
backoffForever(u) ==
    /\ pc[u] = "backoff"
    /\ Goto(u, "connect")
    /\ conn' = [conn EXCEPT ![u] = Nil]
    /\ stub' = [stub EXCEPT ![u] = Nil]
    /\ UNCHANGED <<isEnabled, cacheVars, poolVars, call, attempt, panicked>>

\* RunWithResponse: Send and SendMessage give up after MaxAttempts, Watch does not.
backoff(u) ==
    /\ pc[u] = "backoff"
    /\ IF call[u] # "Watch" /\ attempt[u] + 1 = MaxAttempts THEN Return(u)
       ELSE /\ Goto(u, "connect")
            /\ attempt' = [attempt EXCEPT ![u] = IF call[u] = "Watch" THEN 0 ELSE @ + 1]
            /\ conn' = [conn EXCEPT ![u] = Nil]
            /\ stub' = [stub EXCEPT ![u] = Nil]
            /\ UNCHANGED call
    /\ UNCHANGED <<isEnabled, cacheVars, poolVars, panicked>>

\* The network or the server ends a stream.
Breaks(c) ==
    /\ c \in openConns \ broken
    /\ broken' = broken \cup {c}
    /\ UNCHANGED <<isEnabled, cacheVars, openClients, openConns, userVars,
                   panicked>>

-----------------------------------------------------------------------------
UserStep(u) ==
    \/ isACSEnabled(u) \/ connect(u) \/ take(u) \/ useNil(u)
    \/ useFails(u) \/ closeConnection(u) \/ backoff(u)

Next ==
    /\ ~panicked
    /\ \/ \E u \in Users : \/ \E m \in Methods : Call(u, m)
                           \/ UserStep(u) \/ useOK(u)
       \/ \E c \in Ids : Breaks(c)

Spec == Init /\ [][Next]_vars

\* A user that can go on does.  A stream that works lets its users have their
\* turn; a read on one that works may wait forever.
Fairness ==
    \A u \in Users : /\ WF_vars(pc[u] # "use" /\ UserStep(u))
                     /\ WF_vars(conn[u] \notin openConns \ broken /\ (useFails(u) \/ useNil(u)))
                     /\ WF_vars(call[u] # "Watch" /\ (useOK(u) \/ useFails(u) \/ useNil(u)))

FairSpec == Spec /\ Fairness

-----------------------------------------------------------------------------
(***************************************************************************)
(* Properties.                                                             *)
(***************************************************************************)

\* No call is made on a stream or a client that could not be created: "Make sure
\* connection is set before sending message."
NilIsNotUsed == ~panicked

\* A stream that is open is the cached one: a stream that was replaced is closed.
OpenIsCached == \A c \in openConns : c = connection

\* A stream is closed only after it failed for somebody: a user whose call failed
\* on an older stream does not take a newer one from the others.
OnlyFailedIsClosed ==
    [][\A c \in openConns \ openConns' : \E u \in Users : pc[u] = "close" /\ conn[u] = c]_vars

\* Send and SendMessage return, whatever the network does, as long as there is a process.
SendsReturn ==
    \A u \in Users : call[u] \in {"Send", "SendMessage"} ~> pc[u] = "idle" \/ panicked

=============================================================================
