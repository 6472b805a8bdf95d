--------------------------- MODULE AcsClientProofs ---------------------------
(***************************************************************************)
(* The shared stream of the ACS client, for every number of users and      *)
(* attempts and whatever fails.                                            *)
(***************************************************************************)
EXTENDS AcsClient, TLAPS

\* Inductive: a cache that counts as set holds a client and a stream, and one that does not
\* has no open stream; so connect, which replaces the cached stream, leaves none open.
CacheInv ==
    /\ isSet \in BOOLEAN
    /\ isSet = TRUE => connection # Nil /\ client # Nil
    /\ isSet = FALSE => openConns = {}
    /\ OpenIsCached

\* What connect creates is not nil.
LEMMA CreatedIsNotNil ==
  /\ NewClient # {} => (CHOOSE k \in NewClient : TRUE) # Nil
  /\ NewConn # {} => (CHOOSE c \in NewConn : TRUE) # Nil
<1>1. Nil \notin NewClient /\ Nil \notin NewConn BY AcsAssumption DEF NewClient, NewConn, Ids, Nil
<1>2. ASSUME NewClient # {} PROVE (CHOOSE k \in NewClient : TRUE) \in NewClient BY <1>2
<1>3. ASSUME NewConn # {} PROVE (CHOOSE c \in NewConn : TRUE) \in NewConn BY <1>3
<1> QED BY <1>1, <1>2, <1>3

\* connect keeps the invariant: it reconnects only when no stream is open.
LEMMA ConnectPreserves ==
  ASSUME CacheInv, NEW u \in Users, connect(u)
  PROVE  CacheInv'
<1> USE DEF CacheInv, OpenIsCached
<1>1. CASE UNCHANGED <<cacheVars, poolVars>> BY <1>1 DEF cacheVars, poolVars
<1>2. CASE shouldReconnect
  <2>1. isSet = FALSE /\ openConns = {} BY <1>2 DEF shouldReconnect
  <2>2. CASE UNCHANGED <<isSet, openConns>> BY <2>1, <2>2
  <2>3. CASE /\ NewClient # {} /\ NewConn # {}
             /\ client' = (CHOOSE k \in NewClient : TRUE) /\ connection' = (CHOOSE c \in NewConn : TRUE)
             /\ openConns' = openConns \cup {connection'} /\ isSet' = TRUE
    BY <2>1, <2>3, CreatedIsNotNil
  <2> QED BY <1>2, <2>2, <2>3 DEF connect, poolVars
<1> QED BY <1>1, <1>2 DEF connect

\* Every step of a user, and of the network, keeps the invariant.
LEMMA CacheStepPreserves == CacheInv /\ [Next]_vars => CacheInv'
<1> SUFFICES ASSUME CacheInv, [Next]_vars PROVE CacheInv'
  OBVIOUS
<1> USE DEF CacheInv, OpenIsCached
<1>1. ASSUME NEW u \in Users, connect(u) PROVE CacheInv' BY <1>1, ConnectPreserves
<1>2. ASSUME NEW u \in Users, closeConnection(u) PROVE CacheInv'
  BY <1>2 DEF closeConnection
<1>3. CASE UNCHANGED <<cacheVars, openConns>> BY <1>3 DEF cacheVars
<1>4. ASSUME NEW u \in Users,
             \/ \E m \in Methods : Call(u, m)
             \/ isACSEnabled(u) \/ take(u) \/ useNil(u) \/ useFails(u) \/ backoff(u) \/ useOK(u)
      PROVE  CacheInv'
  BY <1>3, <1>4 DEF Call, isACSEnabled, take, useNil, useFails, backoff, useOK, poolVars
<1>5. ASSUME NEW c \in Ids, Breaks(c) PROVE CacheInv' BY <1>3, <1>5 DEF Breaks
<1>6. CASE UNCHANGED vars BY <1>3, <1>6 DEF vars, poolVars
<1> QED BY <1>1, <1>2, <1>4, <1>5, <1>6 DEF Next, UserStep

\* connect, closeConnection: at most one stream is open, the cached one; a stream that is
\* replaced was closed before, whoever of the users connects, fails or closes in between.
THEOREM NoStreamIsLeaked == Spec => []OpenIsCached
<1>1. Init => CacheInv BY DEF Init, CacheInv, OpenIsCached
<1>2. CacheInv => OpenIsCached BY DEF CacheInv
<1> QED BY <1>1, <1>2, CacheStepPreserves, PTL DEF Spec

\* closeConnection: a stream is closed only by a user for whom that very stream failed; a user
\* that failed on an older one does not take the new one from the others.
THEOREM WorkingStreamIsKept == Spec => OnlyFailedIsClosed
<1>1. ASSUME [Next]_vars
      PROVE  [\A c \in openConns \ openConns' : \E u \in Users : pc[u] = "close" /\ conn[u] = c]_vars
  <2>1. ASSUME NEW u \in Users, closeConnection(u)
        PROVE  \A c \in openConns \ openConns' : pc[u] = "close" /\ conn[u] = c
    BY <2>1 DEF closeConnection
  <2>2. ASSUME NEW u \in Users, connect(u) PROVE openConns \subseteq openConns'
    BY <2>2 DEF connect, poolVars
  <2>3. ASSUME NEW u \in Users,
               \/ \E m \in Methods : Call(u, m)
               \/ isACSEnabled(u) \/ take(u) \/ useNil(u) \/ useFails(u) \/ backoff(u) \/ useOK(u)
        PROVE  openConns' = openConns
    BY <2>3 DEF Call, isACSEnabled, take, useNil, useFails, backoff, useOK, poolVars
  <2>4. ASSUME NEW c \in Ids, Breaks(c) PROVE openConns' = openConns BY <2>4 DEF Breaks
  <2> QED BY <1>1, <2>1, <2>2, <2>3, <2>4 DEF Next, UserStep
<1> QED BY <1>1, PTL DEF Spec, OnlyFailedIsClosed

=============================================================================
