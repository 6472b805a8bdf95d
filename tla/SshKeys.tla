------------------------------ MODULE SshKeys ------------------------------
(***************************************************************************)
(* Local accounts from the SSH keys of the metadata (metadatasshkey and    *)
(* internal/accounts on Linux).  Setup makes the accounts, records those   *)
(* it made in the google_users file, writes authorized_keys, and takes the *)
(* keys and the sudoers group from recorded users that have no keys left.  *)
(* Any command may fail; the plugin may be restarted between two of them.  *)
(***************************************************************************)
EXTENDS Naturals, FiniteSets, Descriptor

CONSTANTS
    Users, SshKeySet,
    LocalUsers,         \* accounts the agent did not make
    DeprovisionRemove,  \* Accounts.DeprovisionRemove of the configuration
    MaxKeyChanges,      \* bound: changes of the metadata
    MaxKeyRestarts,     \* bound: restarts of the core plugin
    MaxKeyFaults        \* bound: commands that fail, and key files that are left alone

VARIABLES
    mdUserKeys, mdOsLogin,      \* the metadata: the valid keys of every user, OS Login
    lastUserKeyMap, lastEnabled,
    onetimePlatformSetupFinished,
    supplementalGroups,         \* the group map holds google-sudoers
    accountsOf,                 \* accounts of the system
    googleUsers,                \* the google_users file
    authorizedKeys,             \* the keys "Added by Google" of every account
    leftAlone,                  \* accounts whose last updateSSHKeys did nothing and reported no error
    sudoers,                    \* members of google-sudoers
    keyPc,                      \* where the pass is: idle, platform, users, create, record, keys, unused, remove
    keyTodo, keyUser,           \* the users still to do, and the one at work
    keyErrs,                    \* the pass had an error
    keyLeft, keyRestarts, keyFaults

vars == <<mdUserKeys, mdOsLogin, lastUserKeyMap, lastEnabled, onetimePlatformSetupFinished,
          supplementalGroups, accountsOf, googleUsers, authorizedKeys, leftAlone, sudoers, keyPc,
          keyTodo, keyUser, keyErrs, keyLeft, keyRestarts, keyFaults>>
mdVars == <<mdUserKeys, mdOsLogin, keyLeft, keyRestarts>>
memory == <<lastUserKeyMap, lastEnabled, onetimePlatformSetupFinished, supplementalGroups>>
system == <<accountsOf, googleUsers, authorizedKeys, leftAlone, sudoers>>

NoKeys == [u \in Users |-> {}]
active == {u \in Users : lastUserKeyMap[u] # {}}

Init ==
    /\ mdUserKeys = NoKeys /\ mdOsLogin = FALSE
    /\ lastUserKeyMap = NoKeys /\ lastEnabled = FALSE /\ onetimePlatformSetupFinished = FALSE
    /\ supplementalGroups = FALSE
    /\ accountsOf = LocalUsers /\ googleUsers = {} /\ authorizedKeys = NoKeys /\ sudoers = {}
    /\ leftAlone = {}
    /\ keyPc = "idle" /\ keyTodo = {} /\ keyUser = {} /\ keyErrs = FALSE
    /\ keyLeft = MaxKeyChanges /\ keyRestarts = MaxKeyRestarts /\ keyFaults = MaxKeyFaults

\* The sets of valid keys a user may have, from the instance and from the project.
findValidKeys ==
    {UserSSHKeys(UnmarshalSSHKeys(new, old, block), UnmarshalSSHKeys(project, {}, "other")) :
        new \in SUBSET SshKeySet, old \in SUBSET SshKeySet, block \in Texts, project \in SUBSET SshKeySet}

\* External: keys of a user are set, or OS Login is switched.
changeKeys ==
    /\ keyLeft > 0 /\ keyLeft' = keyLeft - 1
    /\ \/ \E u \in Users : \E ks \in findValidKeys \ {mdUserKeys[u]} :
            mdUserKeys' = [mdUserKeys EXCEPT ![u] = ks] /\ UNCHANGED mdOsLogin
       \/ mdOsLogin' = ~mdOsLogin /\ UNCHANGED mdUserKeys
    /\ UNCHANGED <<memory, system, keyPc, keyTodo, keyUser, keyErrs, keyRestarts, keyFaults>>

\* A command succeeds, or fails and is an error of the pass.
command(ok) ==
    /\ ok \/ keyFaults > 0
    /\ keyFaults' = IF ok THEN keyFaults ELSE keyFaults - 1

error(ok) == keyErrs' = (keyErrs \/ ~ok)

-----------------------------------------------------------------------------
metadataChanged == lastEnabled # ~mdOsLogin \/ lastUserKeyMap # mdUserKeys

\* metadataSSHKeySetup: nothing to do when keys and enablement are the last ones, which
\* after a start are no keys and disabled.
metadataSSHKeySetup ==
    /\ keyPc = "idle"
    /\ metadataChanged
    /\ lastEnabled' = ~mdOsLogin /\ lastUserKeyMap' = mdUserKeys
    /\ keyErrs' = FALSE /\ keyTodo' = {} /\ keyUser' = {}
    /\ keyPc' = CASE mdOsLogin -> "unused"
                  [] ~mdOsLogin /\ onetimePlatformSetupFinished -> "users"
                  [] OTHER -> "platform"
    /\ UNCHANGED <<mdVars, onetimePlatformSetupFinished, supplementalGroups, system, keyFaults>>

\* setPlatformConfiguration: sudoers file and groups.  A group is known to the map even
\* when it could not be found or made.
setPlatformConfiguration(ok) ==
    /\ keyPc = "platform" /\ command(ok) /\ error(ok)
    /\ supplementalGroups' = TRUE /\ onetimePlatformSetupFinished' = ok
    /\ keyPc' = "users"
    /\ UNCHANGED <<mdVars, lastUserKeyMap, lastEnabled, system, keyTodo, keyUser>>

FindUser(u) == u \in accountsOf

\* What comes next for a user with keys.
ensureUserExists(u) == IF FindUser(u) THEN "keys" ELSE "create"

\* addSystemUsers takes the users with keys one after the other, in any order.
addSystemUsers ==
    /\ keyPc = "users"
    /\ IF keyTodo = active
       THEN keyPc' = "unused" /\ UNCHANGED <<keyTodo, keyUser>>
       ELSE \E u \in active \ keyTodo :
              /\ keyUser' = {u} /\ keyTodo' = keyTodo \cup {u}
              /\ keyPc' = ensureUserExists(u)
    /\ UNCHANGED <<mdVars, memory, system, keyErrs, keyFaults>>

\* CreateUser: useradd; a user that cannot be made is given up.
CreateUser(ok) ==
    /\ keyPc = "create" /\ command(ok) /\ error(ok)
    /\ accountsOf' = IF ok THEN accountsOf \cup keyUser ELSE accountsOf
    /\ keyPc' = IF ok THEN "record" ELSE "users"
    /\ UNCHANGED <<mdVars, memory, googleUsers, authorizedKeys, leftAlone, sudoers, keyTodo, keyUser>>

\* A nil group is an error, and so is a command that fails.
AddUserToGroup(us, ok) == sudoers' = IF ok /\ supplementalGroups THEN sudoers \cup us ELSE sudoers
RemoveUserFromGroup(u, ok) == sudoers' = IF ok /\ supplementalGroups THEN sudoers \ {u} ELSE sudoers

\* addToGUsers, whose failure is only logged, and the groups of a new user.
addToGUsers(ok) ==
    /\ keyPc = "record" /\ command(ok)
    /\ googleUsers' = IF ok THEN googleUsers \cup keyUser ELSE googleUsers
    /\ AddUserToGroup(keyUser, TRUE)
    /\ keyPc' = "keys"
    /\ UNCHANGED <<mdVars, memory, accountsOf, authorizedKeys, leftAlone, keyTodo, keyUser, keyErrs>>

\* The file of the users us is left alone, without an error, or it is not.
leave(us, left) == leftAlone' = IF left THEN leftAlone \cup us ELSE leftAlone \ us

\* Faulty variant: the keys that are there are kept.
updateSSHKeys_Append(ok) ==
    /\ keyPc = "keys" /\ command(ok) /\ error(ok) /\ leave(keyUser, FALSE)
    /\ authorizedKeys' = [u \in Users |-> IF ok /\ u \in keyUser
                                          THEN authorizedKeys[u] \cup lastUserKeyMap[u]
                                          ELSE authorizedKeys[u]]
    /\ AddUserToGroup(keyUser, ok)
    /\ keyPc' = "users"
    /\ UNCHANGED <<mdVars, memory, accountsOf, googleUsers, keyTodo, keyUser>>

\* updateSSHKeys of a user with keys: its Google keys become those of the metadata, and it
\* joins the sudoers.  A failure may come after the file is written.  Nothing is done, and
\* nothing reported, for a user whose shell is /sbin/nologin.
updateSSHKeys(ok) ==
    /\ keyPc = "keys" /\ error(ok)
    /\ \E left \in {l \in BOOLEAN : l => ok}, written \in BOOLEAN :
         /\ command(ok /\ ~left) /\ leave(keyUser, left)
         /\ ok => written = ~left
         /\ authorizedKeys' = [u \in Users |-> IF written /\ u \in keyUser THEN lastUserKeyMap[u]
                                               ELSE authorizedKeys[u]]
         /\ AddUserToGroup(keyUser, ok /\ ~left)
    /\ keyPc' = "users"
    /\ UNCHANGED <<mdVars, memory, accountsOf, googleUsers, keyTodo, keyUser>>

\* ListGoogleUsers: the recorded users without keys are to be deprovisioned; all of them
\* when metadata keys are disabled.
ListGoogleUsers(ok) ==
    /\ keyPc = "unused" /\ command(ok) /\ error(ok)
    /\ keyTodo' = IF ok THEN googleUsers \ (IF lastEnabled THEN active ELSE {}) ELSE {}
    /\ keyPc' = "remove"
    /\ UNCHANGED <<mdVars, memory, system, keyUser>>

removeFromGUsers(u, ok) == googleUsers' = IF ok THEN googleUsers \ {u} ELSE googleUsers

\* userdel, and then the record: the account may be gone while its record stays.
DelUser(u, ok) ==
    /\ accountsOf' = accountsOf \ {u} /\ sudoers' = sudoers \ {u} /\ leave({u}, FALSE)
    /\ authorizedKeys' = [authorizedKeys EXCEPT ![u] = {}]
    /\ removeFromGUsers(u, ok)

\* defaultDeprovisionUnusedUsers: with DeprovisionRemove the account goes, then its record;
\* otherwise the keys, then the group, which is not known before the platform was set up.
\* updateSSHKeys without keys removes the file and reports no error when it could not, nor for
\* a user whose shell is /sbin/nologin: the keys stay, and the group is taken all the same.
deprovisionUnusedUsers(ok) ==
    /\ keyPc = "remove"
    /\ IF keyTodo = {}
       THEN ok /\ keyPc' = "idle" /\ UNCHANGED <<system, keyTodo, keyErrs, keyFaults>>
       ELSE \E u \in keyTodo, left \in BOOLEAN :
              /\ command(ok /\ ~left)
              /\ error(ok /\ FindUser(u) /\ (supplementalGroups \/ DeprovisionRemove))
              /\ keyTodo' = keyTodo \ {u} /\ UNCHANGED keyPc
              /\ \/ (~FindUser(u) \/ ~ok) /\ ~left /\ UNCHANGED system
                 \/ /\ FindUser(u) /\ DeprovisionRemove /\ ~left
                    /\ DelUser(u, ok)
                 \/ /\ FindUser(u) /\ ~DeprovisionRemove
                    /\ authorizedKeys' = IF left THEN authorizedKeys
                                         ELSE [authorizedKeys EXCEPT ![u] = {}]
                    /\ leave({u}, left)
                    /\ RemoveUserFromGroup(u, ok)
                    /\ UNCHANGED <<accountsOf, googleUsers>>
    /\ UNCHANGED <<mdVars, memory, keyUser>>

\* The core plugin goes away at any point and is started again.
keyRestart ==
    /\ keyRestarts > 0 /\ keyRestarts' = keyRestarts - 1
    /\ lastUserKeyMap' = NoKeys /\ lastEnabled' = FALSE
    /\ onetimePlatformSetupFinished' = FALSE /\ supplementalGroups' = FALSE
    /\ keyPc' = "idle" /\ keyTodo' = {} /\ keyUser' = {} /\ keyErrs' = FALSE
    /\ UNCHANGED <<mdUserKeys, mdOsLogin, keyLeft, system, keyFaults>>

Next ==
    \/ changeKeys \/ metadataSSHKeySetup \/ addSystemUsers \/ keyRestart
    \/ \E ok \in BOOLEAN :
         \/ setPlatformConfiguration(ok) \/ CreateUser(ok) \/ addToGUsers(ok) \/ updateSSHKeys(ok)
         \/ ListGoogleUsers(ok) \/ deprovisionUnusedUsers(ok)

Spec == Init /\ [][Next]_vars

-----------------------------------------------------------------------------
\* After a pass without an error every account the agent has on record has exactly the keys
\* of the metadata, and none when OS Login is on, whatever passes failed, or were cut off by
\* a restart, before (metadataSSHKeySetup, updateSSHKeys, deprovisionUnusedUsers).  Excepted are
\* the accounts whose file the pass left alone without saying so: no login shell, or a file
\* without keys that could not be removed.
RecordedUsersHaveTheirKeys ==
    (keyPc = "idle" /\ ~keyErrs /\ (lastEnabled \/ lastUserKeyMap # NoKeys)) =>
      \A u \in (googleUsers \cap accountsOf) \ leftAlone :
        authorizedKeys[u] = IF lastEnabled THEN lastUserKeyMap[u] ELSE {}

=============================================================================
