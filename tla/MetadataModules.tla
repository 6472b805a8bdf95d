-------------------------- MODULE MetadataModules --------------------------
(***************************************************************************)
(* Modules of the core plugin that carry out what the metadata asks for    *)
(* and must not do it twice: the Windows password reset (winpassreset),    *)
(* the collection of diagnostics (diagnostics), both of which remember in  *)
(* the registry what they did, and the clock module, which remembers the   *)
(* drift token in memory.  Each runs at setup and on every metadata event. *)
(***************************************************************************)
EXTENDS Naturals, Sequences, FiniteSets, Descriptor

CONSTANTS
    Keys,           \* Windows keys: a user, a modulus and an expiry
    Entries,        \* diagnostics requests
    NoEntry,
    MaxMdChanges,   \* bound: changes of the metadata
    MaxModRestarts  \* bound: restarts of the core plugin

VARIABLES
    md,             \* the metadata: keys (a set), entry, drift token
    regPublicKeys,  \* PublicKeys in the registry
    regDiagnostics, \* Diagnostics in the registry, under SOFTWARE\Google\ComputeEngine
    prev,           \* what the modules remember of the metadata: keys, entry, token
    diffKeys,       \* the keys setupAccounts still has to reset
    setupKeys,      \* the keys it will write to the registry
    password,       \* the keys whose account was given a password
    answered,       \* the keys whose credentials, or error, went to the serial port
    diagRunning,    \* isDiagnosticsRunning
    collected,      \* how often the diagnostics of an entry were collected
    hwclock,        \* the token for which the clock was set last
    mdLeft, modRestarts

vars == <<md, regPublicKeys, regDiagnostics, prev, diffKeys, setupKeys, password, answered,
          diagRunning, collected, hwclock, mdLeft, modRestarts>>
accountsVars == <<regPublicKeys, diffKeys, setupKeys, password, answered>>
diagVars == <<regDiagnostics, diagRunning, collected>>

NoRequest == [keys |-> {}, entry |-> NoEntry, token |-> "a"]
Idle == [keys |-> {}, on |-> FALSE]

Init ==
    /\ md = NoRequest /\ regPublicKeys = {} /\ regDiagnostics = {}
    /\ prev = [keys |-> {}, entry |-> "nil", token |-> "nil"]
    /\ diffKeys = {} /\ setupKeys = Idle
    /\ password = {} /\ answered = {}
    /\ diagRunning = FALSE /\ collected = [e \in Entries |-> 0] /\ hwclock = "nil"
    /\ mdLeft = MaxMdChanges /\ modRestarts = MaxModRestarts

\* External: the user changes the metadata.
change ==
    /\ mdLeft > 0 /\ mdLeft' = mdLeft - 1
    /\ \/ \E lines \in SUBSET Keys, expired \in SUBSET Keys :
            LET ks == UnmarshalWindowsKeys(lines, {}, expired)
            IN  ks # md.keys /\ md' = [md EXCEPT !.keys = ks]
       \/ \E e \in Entries \cup {NoEntry} : e # md.entry /\ md' = [md EXCEPT !.entry = e]
       \/ md' = [md EXCEPT !.token = IF @ = "a" THEN "b" ELSE "a"]
    /\ UNCHANGED <<accountsVars, diagVars, prev, hwclock, modRestarts>>

-----------------------------------------------------------------------------
\* The keys of the metadata that are not in the registry.
modifiedKeys(regKeys, newKeys) == newKeys \ regKeys

\* eventCallback and setupAccounts: the keys are remembered first; the registry tells
\* which of them are new.  Reading it may fail.
setupAccounts ==
    /\ ~setupKeys.on /\ prev.keys # md.keys
    /\ prev' = [prev EXCEPT !.keys = md.keys]
    /\ \/ UNCHANGED <<diffKeys, setupKeys>>
       \/ /\ diffKeys' = modifiedKeys(regPublicKeys, md.keys)
          /\ setupKeys' = [keys |-> md.keys, on |-> modifiedKeys(regPublicKeys, md.keys) # {}]
    /\ UNCHANGED <<md, regPublicKeys, password, answered, diagVars, hwclock, mdLeft, modRestarts>>

\* resetPassword creates the account or sets its password, joins the administrators and
\* encrypts the answer; each may fail, the last ones after the password was set.
resetPassword(k) == password' \in {password, password \cup {k}}

\* The answer, be it an error, goes to the serial port; if that fails the setup is over.
answer ==
    /\ setupKeys.on
    /\ \E k \in diffKeys :
         /\ resetPassword(k)
         /\ \/ answered' = answered \cup {k} /\ diffKeys' = diffKeys \ {k} /\ UNCHANGED setupKeys
            \/ diffKeys' = {} /\ setupKeys' = Idle /\ UNCHANGED answered
    /\ UNCHANGED <<md, regPublicKeys, diagVars, prev, hwclock, mdLeft, modRestarts>>

\* Faulty variant: the registry is written before the passwords are reset.
writeKeys_First ==
    /\ setupKeys.on
    /\ regPublicKeys' = setupKeys.keys
    /\ UNCHANGED <<md, diffKeys, setupKeys, password, answered, diagVars, prev, hwclock, mdLeft, modRestarts>>

\* When all are answered the keys of the metadata replace those of the registry, unless
\* writing it fails.
writeKeys ==
    /\ setupKeys.on /\ diffKeys = {}
    /\ \/ regPublicKeys' = setupKeys.keys
       \/ UNCHANGED regPublicKeys
    /\ setupKeys' = Idle
    /\ UNCHANGED <<md, diffKeys, password, answered, diagVars, prev, hwclock, mdLeft, modRestarts>>

-----------------------------------------------------------------------------
\* The entries of HKLM\Diagnostics, where handleDiagnosticsRequest looks for the ones it
\* has dealt with.  Nothing is ever written there.
readEntries == {}

\* handleDiagnosticsRequest: nothing while a collection runs, and nothing for an entry
\* that is empty, unchanged, known, malformed or expired.
handleDiagnosticsRequest ==
    /\ prev.entry # md.entry
    /\ prev' = [prev EXCEPT !.entry = md.entry]
    /\ \/ UNCHANGED diagVars
       \/ /\ ~diagRunning /\ md.entry # NoEntry /\ md.entry \notin readEntries
          /\ diagRunning' = TRUE /\ collected' = [collected EXCEPT ![md.entry] = @ + 1]
          /\ regDiagnostics' \in {readEntries \cup {md.entry}, regDiagnostics}
    /\ UNCHANGED <<md, accountsVars, hwclock, mdLeft, modRestarts>>

diagnosticsDone ==
    /\ diagRunning /\ diagRunning' = FALSE
    /\ UNCHANGED <<md, accountsVars, regDiagnostics, collected, prev, hwclock, mdLeft, modRestarts>>

\* clockSetup: the descriptor is remembered whether or not hwclock succeeds.
clockSetup ==
    /\ prev.token # md.token
    /\ prev' = [prev EXCEPT !.token = md.token]
    /\ hwclock' \in {md.token, hwclock}
    /\ UNCHANGED <<md, accountsVars, diagVars, mdLeft, modRestarts>>

\* The core plugin goes away at any time and is started again.
restart ==
    /\ modRestarts > 0 /\ modRestarts' = modRestarts - 1
    /\ prev' = [keys |-> {}, entry |-> "nil", token |-> "nil"]
    /\ diffKeys' = {} /\ setupKeys' = Idle /\ diagRunning' = FALSE
    /\ UNCHANGED <<md, regPublicKeys, regDiagnostics, password, answered, collected, hwclock, mdLeft>>

Next ==
    \/ change \/ setupAccounts \/ answer \/ writeKeys \/ handleDiagnosticsRequest
    \/ diagnosticsDone \/ clockSetup \/ restart

Spec == Init /\ [][Next]_vars

-----------------------------------------------------------------------------
\* No password request is lost: a key gets into the registry, where it counts as dealt
\* with, only after its answer went to the serial port, across failures and restarts
\* (setupAccounts).
KnownKeysAreAnswered == regPublicKeys \subseteq answered

\* "Check if we've dealt with this entry already": diagnostics are collected once for an
\* entry of the metadata (handleDiagnosticsRequest).
DiagnosticsOnce == \A e \in Entries : collected[e] <= 1

=============================================================================
