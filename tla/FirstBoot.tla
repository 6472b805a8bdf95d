----------------------------- MODULE FirstBoot -----------------------------
(***************************************************************************)
(* The first boot of an instance (cmd/core_plugin/firstboot): when the     *)
(* recorded instance id is another one, the id is recorded and the host    *)
(* keys are generated and published.  The early and the late stage both    *)
(* run it.  The process may die anywhere; a disk may be used to create     *)
(* another instance.                                                       *)
(***************************************************************************)
EXTENDS Naturals, FiniteSets

CONSTANTS
    KeyTypes,       \* InstanceSetup.HostKeyTypes and the types found on disk
    MaxInstances,   \* bound: instances made from the disk
    MaxFbStarts     \* bound: starts of the core plugin per instance

VARIABLES
    instance,       \* the id the metadata gives
    instanceIDFile, \* google_instance_id on disk; 0 is no file, or an empty one
    fbPc,           \* down, check, id, keys, boto, done
    keysLeft,       \* key types still to generate
    pubLeft,        \* the type whose private key was just replaced
    privateKey, publicKey,  \* the instance in whose first boot a key file was made
    generated,      \* how often an instance generated a key of a type
    fbStarts        \* starts left

vars == <<instance, instanceIDFile, fbPc, keysLeft, pubLeft, privateKey, publicKey, generated, fbStarts>>

Ids == 1..MaxInstances

Init ==
    /\ instance = 1 /\ instanceIDFile = 0 /\ fbPc = "down" /\ keysLeft = {} /\ pubLeft = {}
    /\ privateKey = [t \in KeyTypes |-> 0] /\ publicKey = [t \in KeyTypes |-> 0]
    /\ generated = [i \in Ids |-> [t \in KeyTypes |-> 0]]
    /\ fbStarts = MaxFbStarts

\* A stage runs moduleSetup; with no metadata, moduleSetupEarly leaves it to the late one.
moduleSetup ==
    /\ fbPc = "down" /\ fbStarts > 0 /\ fbStarts' = fbStarts - 1
    /\ fbPc' = "check"
    /\ UNCHANGED <<instance, instanceIDFile, keysLeft, pubLeft, privateKey, publicKey, generated>>

\* firstbootRun: it is the first boot when the recorded id is another one.
firstbootRun ==
    /\ fbPc = "check"
    /\ fbPc' = IF instanceIDFile = instance THEN "down" ELSE "id"
    /\ UNCHANGED <<instance, instanceIDFile, keysLeft, pubLeft, privateKey, publicKey, generated, fbStarts>>

\* Faulty variant: the id is recorded when everything else is done.
writeInstanceID_Last ==
    /\ \/ fbPc = "id" /\ fbPc' = "keys" /\ keysLeft' = KeyTypes /\ UNCHANGED instanceIDFile
       \/ fbPc = "boto" /\ fbPc' = "down" /\ instanceIDFile' = instance /\ UNCHANGED keysLeft
    /\ UNCHANGED <<instance, pubLeft, privateKey, publicKey, generated, fbStarts>>

\* writeInstanceID opens the file, which empties it, and writes the id.
writeInstanceID ==
    /\ fbPc = "id"
    /\ \/ instanceIDFile # 0 /\ instanceIDFile' = 0 /\ UNCHANGED <<fbPc, keysLeft>>
       \/ instanceIDFile' = instance /\ fbPc' = "keys" /\ keysLeft' = KeyTypes
    /\ UNCHANGED <<instance, pubLeft, privateKey, publicKey, generated, fbStarts>>

\* writeSSHKeys: the private key replaces the old one, then the public key does and is
\* published; a key type that fails is passed over.
writeSSHKeys ==
    /\ fbPc = "keys"
    /\ \/ \E t \in keysLeft :
            /\ pubLeft = {} /\ keysLeft' = keysLeft \ {t}
            /\ \/ /\ privateKey' = [privateKey EXCEPT ![t] = instance] /\ pubLeft' = {t}
                  /\ generated' = [generated EXCEPT ![instance][t] = @ + 1]
               \/ UNCHANGED <<privateKey, pubLeft, generated>>
            /\ UNCHANGED <<publicKey, fbPc>>
       \/ \E t \in pubLeft :
            /\ pubLeft' = {} /\ publicKey' \in {publicKey, [publicKey EXCEPT ![t] = instance]}
            /\ UNCHANGED <<privateKey, generated, keysLeft, fbPc>>
       \/ /\ keysLeft \cup pubLeft = {} /\ fbPc' = "boto"
          /\ UNCHANGED <<privateKey, publicKey, generated, keysLeft, pubLeft>>
    /\ UNCHANGED <<instance, instanceIDFile, fbStarts>>

writeBotoConfig ==
    /\ fbPc = "boto" /\ fbPc' = "down"
    /\ UNCHANGED <<instance, instanceIDFile, keysLeft, pubLeft, privateKey, publicKey, generated, fbStarts>>

\* A step fails and ends the setup, or the process dies.
fbFails ==
    /\ fbPc # "down" /\ fbPc' = "down" /\ keysLeft' = {} /\ pubLeft' = {}
    /\ UNCHANGED <<instance, instanceIDFile, privateKey, publicKey, generated, fbStarts>>

\* External: another instance is created from the disk.
cloneDisk ==
    /\ instance < MaxInstances /\ instance' = instance + 1
    /\ fbPc' = "down" /\ keysLeft' = {} /\ pubLeft' = {} /\ fbStarts' = MaxFbStarts
    /\ UNCHANGED <<instanceIDFile, privateKey, publicKey, generated>>

Next ==
    \/ moduleSetup \/ firstbootRun \/ writeInstanceID \/ writeSSHKeys \/ writeBotoConfig
    \/ fbFails \/ cloneDisk

Spec == Init /\ [][Next]_vars

-----------------------------------------------------------------------------
\* The host keys of an instance do not change after they are published: each is generated
\* once at most, whichever stage runs first and wherever the process dies (runFirstboot,
\* writeSSHKeys).
HostKeysAreStable == \A i \in Ids, t \in KeyTypes : generated[i][t] <= 1

=============================================================================
