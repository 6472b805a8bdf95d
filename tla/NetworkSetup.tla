---------------------------- MODULE NetworkSetup ----------------------------
(***************************************************************************)
(* The network module of the core plugin on Linux                          *)
(* (cmd/core_plugin/network) with the configurations of the NICs           *)
(* (internal/network/nic), the five network managers and the routes.  A    *)
(* metadata event computes the wanted configuration; if something changed, *)
(* the manager that runs the primary NIC is found, every manager rolls     *)
(* back what the agent configured with it, the active one is set up, and   *)
(* the routes follow.  What a manager has on disk and what its daemon has  *)
(* loaded are kept apart.                                                  *)
(***************************************************************************)
EXTENDS Naturals, FiniteSets, Sequences

CONSTANTS
    NumNics,        \* NICs the metadata may list; NIC 0 is the primary one
    Vlans,          \* VLAN interfaces the metadata may list, on the last NIC
    Addrs,          \* addresses forwarded to NIC 0
    DhclientInstalled,  \* dhclient is on the path, whoever manages the NICs
    IPForwarding,   \* NetworkInterfaces.IPForwarding
    NamePrefix,     \* netplan names its drop-ins of networkd with a prefix (Debian 12)
    MaxNetChanges,  \* bound: changes of the metadata and hot plugs
    MaxNetRestarts, \* bound: restarts of the core plugin, with or without a reboot
    MaxNetFaults    \* bound: commands and calls that fail

Nics == 0..(NumNics - 1)
VlanNic == NumNics - 1
Ifaces == Nics \cup Vlans

\* defaultLinuxManagers, in the order they are asked and rolled back.
Managers == <<"netplan", "nm", "networkd", "wicked", "dhclient">>
ManagerSet == {Managers[i] : i \in DOMAIN Managers}
Daemons == {"nm", "networkd", "wicked", "none"}
NoMd == [nics |-> {}, vlans |-> {}, addrs |-> {}]

VARIABLES
    netMd,          \* the metadata: NICs, VLANs, and the addresses forwarded to NIC 0
    plugged,        \* the NICs the guest has
    nicDaemon,      \* the daemon that has configured NIC 0: NetworkManager, networkd, wicked or none
    netplanCli,     \* netplan is installed
    managePrimary,  \* NetworkInterfaces.ManagePrimaryNIC
    systemdConfigDir,   \* Unstable.SystemdConfigDir names another directory for networkd's files
    prevNetMd,      \* module.prevMetadata; NoMd is nil
    netFailed,      \* module.failedConfiguration
    seenBadMacs,    \* nic.seenBadMacAddrs
    netPc,          \* idle, active, rollback, setup, routes, panic
    nicConfigs,     \* per NIC: none, ok, invalid, or noiface (valid, with a nil Interface)
    activeMgr, mgrIndex, forceReload,   \* of the setup under way
    rollbackFailed, \* managers whose rollback failed in it, whether or not they said so
    dirConfigured,  \* networkd's module of this process has been told of that directory
    managed,        \* it set up the interfaces, not only the routes
    conf,           \* per manager: interfaces configured on disk (a process or link, for dhclient)
    netplanFile,    \* netplan's drop-in of the NICs exists, even if it lists none
    dropins,        \* the drop-ins of networkd that go with netplan's
    listedVlans,    \* the VLANs that networkd's file of the VLAN NIC lists
    loaded,         \* per manager: interfaces its daemon runs with that configuration
    routes,         \* the routes of NIC 0 that the agent installed
    netChanges, netRestarts, netFaults

mdv == <<netMd, plugged, nicDaemon, netplanCli, managePrimary, systemdConfigDir>>
modv == <<prevNetMd, netFailed, seenBadMacs, nicConfigs>>
setupv == <<activeMgr, mgrIndex, forceReload, rollbackFailed, managed, dirConfigured>>
dropinv == <<netplanFile, dropins, listedVlans>>
mgrv == <<conf, dropinv, loaded>>
vars == <<mdv, modv, netPc, setupv, mgrv, routes, netChanges, netRestarts, netFaults>>

TypeOK ==
    /\ netMd \in [nics : SUBSET Nics, vlans : SUBSET Vlans, addrs : SUBSET Addrs] /\ plugged \subseteq Nics
    /\ nicDaemon \in Daemons /\ netplanCli \in BOOLEAN /\ managePrimary \in BOOLEAN
    /\ systemdConfigDir \in BOOLEAN /\ dirConfigured \in BOOLEAN
    /\ prevNetMd \in [nics : SUBSET Nics, vlans : SUBSET Vlans, addrs : SUBSET Addrs]
    /\ netFailed \in BOOLEAN /\ seenBadMacs \subseteq Nics
    /\ netPc \in {"idle", "active", "rollback", "setup", "routes", "panic"}
    /\ nicConfigs \in [Nics -> {"none", "ok", "invalid", "noiface"}]
    /\ activeMgr \in ManagerSet /\ mgrIndex \in 1..Len(Managers)
    /\ forceReload \in BOOLEAN /\ rollbackFailed \subseteq ManagerSet /\ managed \in BOOLEAN
    /\ conf \in [ManagerSet -> SUBSET Ifaces] /\ loaded \in [ManagerSet -> SUBSET Ifaces]
    /\ netplanFile \in BOOLEAN /\ dropins \subseteq Ifaces
    /\ listedVlans \subseteq Vlans /\ routes \subseteq Addrs

Init ==
    /\ netMd = [nics |-> {0}, vlans |-> {}, addrs |-> {}] /\ plugged = {0}
    /\ nicDaemon \in Daemons /\ netplanCli \in BOOLEAN /\ managePrimary \in BOOLEAN
    /\ systemdConfigDir \in BOOLEAN /\ dirConfigured = FALSE
    /\ prevNetMd = NoMd /\ netFailed = FALSE /\ seenBadMacs = {} /\ netPc = "idle"
    /\ nicConfigs = [n \in Nics |-> "none"]
    /\ activeMgr = "netplan" /\ mgrIndex = 1 /\ forceReload = FALSE /\ rollbackFailed = {} /\ managed = FALSE
    /\ conf = [m \in ManagerSet |-> {}] /\ loaded = [m \in ManagerSet |-> {}]
    /\ netplanFile = FALSE /\ dropins = {} /\ listedVlans = {} /\ routes = {}
    /\ netChanges = MaxNetChanges /\ netRestarts = MaxNetRestarts /\ netFaults = MaxNetFaults

-----------------------------------------------------------------------------
\* nic.Configuration: the NICs the managers see, those the agent manages, and their VLANs.
OkNics == {n \in Nics : nicConfigs[n] = "ok"}
ShouldManage(n) == n # 0 \/ managePrimary
ManagedNics == {n \in OkNics : ShouldManage(n)}
VlansOf(nics) == IF VlanNic \in nics THEN prevNetMd.vlans ELSE {}
WantedVlans == VlansOf(ManagedNics)
Wanted == ManagedNics \cup WantedVlans

fault == netFaults > 0 /\ netFaults' = netFaults - 1

InterfaceByMAC(n) == n \in plugged

\* nic.NewConfigs: a NIC that the guest does not have is invalid, the first time.
NewConfigs ==
    [n \in Nics |-> IF n \notin netMd.nics THEN "none"
                    ELSE IF InterfaceByMAC(n) THEN "ok"
                    ELSE IF n \notin seenBadMacs THEN "invalid" ELSE "noiface"]

\* The addresses that are to be routed to a NIC.
NewExtraAddresses(md) == IF IPForwarding THEN md.addrs ELSE {}

\* The routes with the agent's protocol id, those that are not there, and those that nobody
\* wants any more.
Find == routes
MissingRoutes(wanted) == wanted \ Find
ExtraRoutes(wanted) == Find \ wanted
Delete(table, rs) == table \ rs
Add(table, rs) == table \cup rs

networkMetadataChanged == prevNetMd # netMd
routeChanged ==
    LET wanted == NewExtraAddresses(netMd) IN
    InterfaceByMAC(0) /\ MissingRoutes(wanted) \cup ExtraRoutes(wanted) # {}

\* setup and metadataSubscriber call networkSetup: prevMetadata and failedConfiguration are
\* set on every way out of it.
networkSetup ==
    /\ netPc = "idle"
    /\ prevNetMd' = netMd /\ netFailed' = FALSE
    /\ \/ /\ nicConfigs' = NewConfigs
          /\ seenBadMacs' = seenBadMacs \cup (netMd.nics \ plugged)
          /\ managed' = networkMetadataChanged
          /\ netPc' = IF networkMetadataChanged THEN "active"
                      ELSE IF routeChanged \/ netFailed THEN "routes" ELSE "idle"
          /\ UNCHANGED netFaults
       \/ /\ fault /\ UNCHANGED <<nicConfigs, seenBadMacs, managed, netPc>>
    /\ UNCHANGED <<mdv, activeMgr, mgrIndex, forceReload, rollbackFailed, dirConfigured, mgrv, routes, netChanges,
                   netRestarts>>

\* IsManaging of each manager; networkd is netplan's only backend.
netplanIsManaging == netplanCli /\ nicDaemon = "networkd"
nmIsManaging == nicDaemon = "nm"
networkdIsManaging == nicDaemon = "networkd"
wickedIsManaging == nicDaemon = "wicked"
dhclientIsManaging == DhclientInstalled

IsManaging(m) ==
    CASE m = "netplan" -> netplanIsManaging
      [] m = "nm" -> nmIsManaging
      [] m = "networkd" -> networkdIsManaging
      [] m = "wicked" -> wickedIsManaging
      [] m = "dhclient" -> dhclientIsManaging

\* Configure of the active manager: only networkd has one, and it cannot fail.  The module
\* keeps the directory as long as the process lives.
Configure(m) == dirConfigured' = (dirConfigured \/ (m = "networkd" /\ systemdConfigDir))

\* activeManager takes the first that says it manages; one that fails to say is passed over.
\* runManagerSetup then configures it.
activeManager ==
    /\ netPc = "active"
    /\ \E failed \in SUBSET ManagerSet :
         LET managing == {i \in DOMAIN Managers : Managers[i] \notin failed /\ IsManaging(Managers[i])} IN
         /\ \/ failed = {} /\ UNCHANGED netFaults
            \/ Cardinality(failed) = 1 /\ fault
         /\ \/ /\ managing = {} /\ netPc' = "idle" /\ netFailed' = TRUE
               /\ UNCHANGED <<activeMgr, dirConfigured>>
            \/ /\ \E i \in managing :
                    (\A k \in managing : i <= k) /\ activeMgr' = Managers[i] /\ Configure(Managers[i])
               /\ netPc' = "rollback" /\ UNCHANGED netFailed
    /\ mgrIndex' = 1 /\ forceReload' = FALSE /\ rollbackFailed' = {}
    /\ UNCHANGED <<mdv, prevNetMd, seenBadMacs, nicConfigs, managed, mgrv, routes, netChanges, netRestarts>>

-----------------------------------------------------------------------------
\* What Rollback of each manager does: the interfaces left on disk, those left in the
\* daemon, and what it returns.  The active manager only gives up the primary NIC.
RollbackNics(active) == {n \in OkNics : ~active \/ ~ShouldManage(n)}
Result(files, daemon, changed) == [conf |-> files, loaded |-> daemon, changed |-> changed]

\* The drop-ins of networkd are looked for under their name without the prefix; those of
\* VLANs are not looked for.
RollbackDropins(active) == IF NamePrefix THEN dropins ELSE dropins \ RollbackNics(active)

\* netplan removes its drop-ins.  It reloads its backend, which IsManaging has set to nil
\* unless netplan is the active manager: so nothing is reloaded.
netplanRollback(active) ==
    IF active THEN Result(conf["netplan"], loaded["netplan"], FALSE)
    ELSE Result({}, loaded["netplan"], netplanFile \/ conf["netplan"] # {})

\* NetworkManager removes the connections of the NICs and of the VLANs the metadata lists.
nmRollback(active) ==
    LET gone == RollbackNics(active) \cup VlansOf(RollbackNics(active))
        left == conf["nm"] \ gone IN
    Result(left, IF active THEN loaded["nm"] ELSE left, left # conf["nm"])

\* networkd removes its files, of all VLANs too, from the directory it knows of; whether a
\* NIC's file went is what was found for the last NIC.
DirIsKnown == systemdConfigDir => dirConfigured
rollbackConfiguration(ifaces) == IF DirIsKnown THEN ifaces \cap conf["networkd"] ELSE {}
networkdRollback(active) ==
    LET nics == RollbackNics(active)
        left == conf["networkd"] \ rollbackConfiguration(nics \cup Vlans)
        changed == \/ rollbackConfiguration(Vlans) # {}
                   \/ \E n \in rollbackConfiguration(nics) : \A k \in nics : k <= n IN
    Result(left, IF changed /\ ~active THEN left ELSE loaded["networkd"], changed)

\* wicked takes the VLANs down, and keeps the file of the primary NIC.
wickedRollback(active) ==
    LET nics == RollbackNics(active)
        gone == (nics \ {0}) \cup Vlans IN
    Result(conf["wicked"] \ gone, loaded["wicked"] \ (IF active THEN Vlans ELSE gone),
           nics \cap conf["wicked"] # {})

\* dhclient releases the leases of all NICs, also when it is the active manager; the links
\* of VLANs stay when no process is left.
dhclientRollback(active) ==
    IF DhclientInstalled
    THEN Result(conf["dhclient"] \ OkNics, loaded["dhclient"] \ OkNics, conf["dhclient"] \cap OkNics # {})
    ELSE Result(conf["dhclient"], loaded["dhclient"], FALSE)

RollbackOf(m, active) ==
    CASE m = "netplan" -> netplanRollback(active)
      [] m = "nm" -> nmRollback(active)
      [] m = "networkd" -> networkdRollback(active)
      [] m = "wicked" -> wickedRollback(active)
      [] m = "dhclient" -> dhclientRollback(active)

\* The files that a rollback removes beside the configurations of the interfaces.
rollbackFiles(m, active) ==
    /\ netplanFile' = (netplanFile /\ (m = "netplan" => active))
    /\ dropins' = IF m = "netplan" THEN RollbackDropins(active) ELSE dropins
    /\ listedVlans' = IF VlanNic \in conf'["networkd"] THEN listedVlans ELSE {}

\* Faulty variant: the managers behind the active one are not rolled back.
rollback_UntilActive ==
    LET m == Managers[mgrIndex]
        r == RollbackOf(m, m = activeMgr) IN
    /\ netPc = "rollback"
    /\ conf' = [conf EXCEPT ![m] = r.conf] /\ loaded' = [loaded EXCEPT ![m] = r.loaded]
    /\ rollbackFiles(m, m = activeMgr)
    /\ forceReload' = (forceReload \/ (r.changed /\ m # activeMgr))
    /\ IF m = activeMgr THEN netPc' = "setup" /\ UNCHANGED mgrIndex
       ELSE mgrIndex' = mgrIndex + 1 /\ UNCHANGED netPc
    /\ UNCHANGED <<mdv, modv, activeMgr, rollbackFailed, managed, dirConfigured, routes, netChanges,
                   netRestarts, netFaults>>

\* What is left of the configurations when a rollback stops half way, or when networkd
\* passes over a file it cannot remove: netplan has one file for the NICs and one for VLANs.
HalfWay(m, r) ==
    {left \in SUBSET conf[m] :
        /\ r.conf \subseteq left
        /\ m = "netplan" => left \in {conf[m], conf[m] \cap Vlans, {}}}

\* A rollback that fails: dhclient and, for VLANs, wicked take down what they remove; networkd
\* goes on and may reload; the drop-ins of networkd are the first that netplan removes.  The
\* error may or may not come with the word that something was rolled back.
rollbackFails(m, active) ==
    \E left \in HalfWay(m, RollbackOf(m, active)) :
        /\ fault /\ rollbackFailed' = rollbackFailed \cup {m}
        /\ conf' = [conf EXCEPT ![m] = left]
        /\ LET down == IF m = "dhclient" THEN conf[m] \ left
                       ELSE IF m = "wicked" THEN (conf[m] \ left) \cap Vlans ELSE {} IN
           \/ loaded' = [loaded EXCEPT ![m] = @ \ down]
           \/ m = "networkd" /\ ~active /\ left # conf[m] /\ loaded' = [loaded EXCEPT ![m] = left]
        /\ forceReload' \in {forceReload, forceReload \/ (left # conf[m] /\ ~active)}
        /\ listedVlans' = IF VlanNic \in conf'["networkd"] THEN listedVlans ELSE {}
        /\ IF m = "netplan"
           THEN /\ dropins' \in {d \in SUBSET dropins : RollbackDropins(active) \subseteq d}
                /\ left # conf[m] => dropins' = RollbackDropins(active)
                /\ netplanFile' = (netplanFile /\ (left = conf[m] \/ left \cap Nics # {}))
           ELSE UNCHANGED <<netplanFile, dropins>>

\* rollback: each manager in turn; an error is logged.  A NIC without an interface is
\* dereferenced by the managers that are not active.
rollback ==
    LET m == Managers[mgrIndex]
        r == RollbackOf(m, m = activeMgr)
        panics == m # activeMgr /\ \E n \in Nics : nicConfigs[n] = "noiface" IN
    /\ netPc = "rollback"
    /\ \/ /\ ~panics
          /\ conf' = [conf EXCEPT ![m] = r.conf] /\ loaded' = [loaded EXCEPT ![m] = r.loaded]
          /\ rollbackFiles(m, m = activeMgr)
          /\ forceReload' = (forceReload \/ (r.changed /\ m # activeMgr))
          /\ UNCHANGED <<rollbackFailed, netFaults>>
       \/ ~panics /\ rollbackFails(m, m = activeMgr)
       \/ panics /\ UNCHANGED <<mgrv, forceReload, rollbackFailed, netFaults>>
    /\ IF panics THEN netPc' = "panic" /\ UNCHANGED mgrIndex
       ELSE IF mgrIndex = Len(Managers) THEN netPc' = "setup" /\ UNCHANGED mgrIndex
       ELSE mgrIndex' = mgrIndex + 1 /\ UNCHANGED netPc
    /\ UNCHANGED <<mdv, modv, activeMgr, managed, dirConfigured, routes, netChanges, netRestarts>>

-----------------------------------------------------------------------------
\* What Setup of each manager does: the interfaces it writes, and whether its daemon takes
\* them over.
writeDropin == ManagedNics
writeVlanDropin == WantedVlans
presentVlanNICs == conf["netplan"] \cap Vlans
removeOrphanedVlans == presentVlanNICs \ writeVlanDropin

\* netplan's files are written if they are not there as wanted; networkd's drop-ins of VLANs
\* are compared with a value of another type, and always count as changed.
write == ~netplanFile \/ conf["netplan"] # writeDropin \cup writeVlanDropin
WriteDropins == ManagedNics
WriteNetplanVlanDropins == WantedVlans
RollbackNetplanVlanDropins == dropins \cap removeOrphanedVlans
netplanSetup ==
    LET files == writeDropin \cup writeVlanDropin
        changed == \/ write \/ WriteNetplanVlanDropins # {} \/ RollbackNetplanVlanDropins # {}
                   \/ ~(WriteDropins \subseteq dropins) IN
    Result(files, IF forceReload \/ changed THEN files ELSE loaded["netplan"], TRUE)

\* NetworkManager keeps the connections of NICs that are gone, and reloads every time.
nmFiles == (conf["nm"] \ Vlans) \cup Wanted
nmSetup == Result(nmFiles, nmFiles, TRUE)

\* networkd cleans up the VLANs that are not listed any more, and reloads if a file changed.
networkdKept == conf["networkd"] \ (Vlans \ WantedVlans)
equals(i) == i \in conf["networkd"] /\ (i = VlanNic => listedVlans = WantedVlans)
networkdWritten == {i \in Wanted : ~equals(i)}
Reload(files) == files
networkdSetup ==
    LET files == networkdKept \cup networkdWritten
        changed == networkdWritten # {} \/ networkdKept # conf["networkd"] IN
    Result(files, IF forceReload \/ changed THEN Reload(files) ELSE loaded["networkd"], TRUE)

\* wicked leaves a file that exists alone; without an interface to bring up it returns early,
\* and the VLANs are not cleaned up.
wickedWritten == ManagedNics \ conf["wicked"]
wickedUp == wickedWritten \cup WantedVlans
wickedGone == Vlans \ WantedVlans
wickedSetup ==
    IF wickedUp = {} THEN Result(conf["wicked"], loaded["wicked"], FALSE)
    ELSE Result((conf["wicked"] \ wickedGone) \cup wickedUp, (loaded["wicked"] \ wickedGone) \cup wickedUp, TRUE)

\* dhclient obtains the leases that are missing and adds VLAN links; a VLAN the metadata no
\* longer lists is not looked at.
dhclientProcessExists(n) == n \in conf["dhclient"]
obtainLeases == {n \in ManagedNics : ~dhclientProcessExists(n)}
setupEthernet == obtainLeases
setupVlanInterfaces == VlansOf(OkNics)
removeVlanInterfaces(keepMe) == VlansOf(OkNics) \ keepMe
dhclientSetup ==
    LET started == setupEthernet \cup setupVlanInterfaces
        gone == removeVlanInterfaces(setupVlanInterfaces) IN
    Result((conf["dhclient"] \cup started) \ gone, (loaded["dhclient"] \cup started) \ gone, TRUE)

SetupOf(m) ==
    CASE m = "netplan" -> netplanSetup
      [] m = "nm" -> nmSetup
      [] m = "networkd" -> networkdSetup
      [] m = "wicked" -> wickedSetup
      [] m = "dhclient" -> dhclientSetup

\* active.Setup: an error before the reload leaves the files written; netplan's links of
\* VLANs may be gone by then.
managerSetup ==
    LET r == SetupOf(activeMgr) IN
    /\ netPc = "setup"
    /\ conf' = [conf EXCEPT ![activeMgr] = r.conf]
    /\ listedVlans' = IF activeMgr = "networkd" /\ VlanNic \in ManagedNics THEN WantedVlans ELSE listedVlans
    /\ IF activeMgr = "netplan"
       THEN /\ netplanFile' = TRUE
            /\ dropins' = (dropins \ RollbackNetplanVlanDropins) \cup WriteDropins \cup WriteNetplanVlanDropins
       ELSE UNCHANGED <<netplanFile, dropins>>
    /\ \/ /\ loaded' = [loaded EXCEPT ![activeMgr] = r.loaded]
          /\ netPc' = "routes" /\ UNCHANGED <<netFailed, netFaults>>
       \/ /\ fault /\ netPc' = "idle" /\ netFailed' = TRUE
          /\ \/ UNCHANGED loaded
             \/ activeMgr = "netplan" /\ loaded' = [loaded EXCEPT !["netplan"] = @ \ removeOrphanedVlans]
    /\ UNCHANGED <<mdv, prevNetMd, seenBadMacs, nicConfigs, setupv, routes, netChanges, netRestarts>>

\* route.Setup deletes the extra and adds the missing routes; one that fails is logged, a
\* failure to list them is an error.
routeSetup ==
    LET wanted == IF 0 \in OkNics THEN NewExtraAddresses(prevNetMd) ELSE routes IN
    /\ netPc = "routes" /\ netPc' = "idle"
    /\ \/ /\ routes' = Add(Delete(routes, ExtraRoutes(wanted)), MissingRoutes(wanted))
          /\ UNCHANGED <<netFailed, netFaults>>
       \/ /\ fault /\ netFailed' = FALSE
          /\ \E r \in ExtraRoutes(wanted) \cup MissingRoutes(wanted) :
               routes' = Add(Delete(routes, ExtraRoutes(wanted) \ {r}), MissingRoutes(wanted) \ {r})
       \/ fault /\ UNCHANGED routes /\ netFailed' = TRUE
    /\ UNCHANGED <<mdv, prevNetMd, seenBadMacs, nicConfigs, setupv, mgrv, netChanges, netRestarts>>

-----------------------------------------------------------------------------
\* External: NICs, VLANs and forwarded addresses are changed, in the metadata and, for a NIC,
\* in the guest, in either order.
netChange ==
    /\ netChanges > 0 /\ netChanges' = netChanges - 1
    /\ \/ /\ \E n \in Nics \ {0} : plugged' \in {plugged \ {n}, plugged \cup {n}}
          /\ UNCHANGED netMd
       \/ /\ \E ns \in SUBSET Nics, vs \in SUBSET Vlans, as \in SUBSET Addrs :
               /\ 0 \in ns /\ (VlanNic \notin ns => vs = {})
               /\ netMd' = [nics |-> ns, vlans |-> vs, addrs |-> as]
          /\ UNCHANGED plugged
    /\ UNCHANGED <<nicDaemon, netplanCli, managePrimary, systemdConfigDir, modv, netPc, setupv, mgrv, routes,
                   netRestarts, netFaults>>

\* The core plugin starts again, after a panic or with a reboot, which may bring another
\* manager and another configuration file, and ends processes and links.
netRestart ==
    /\ netRestarts > 0 /\ netRestarts' = netRestarts - 1
    /\ prevNetMd' = NoMd /\ netFailed' = FALSE /\ seenBadMacs' = {} /\ netPc' = "idle"
    /\ nicConfigs' = [n \in Nics |-> "none"] /\ managed' = FALSE /\ dirConfigured' = FALSE
    /\ \/ UNCHANGED <<nicDaemon, netplanCli, managePrimary, conf, loaded, routes>>
       \/ /\ nicDaemon' \in Daemons /\ netplanCli' \in BOOLEAN /\ managePrimary' \in BOOLEAN
          /\ conf' = [conf EXCEPT !["dhclient"] = {}]
          /\ loaded' = conf' /\ routes' = {}
    /\ UNCHANGED <<netMd, plugged, systemdConfigDir, activeMgr, mgrIndex, forceReload, rollbackFailed, dropinv,
                   netChanges, netFaults>>

Next ==
    \/ networkSetup \/ activeManager \/ rollback \/ managerSetup \/ routeSetup
    \/ netChange \/ netRestart

Spec == Init /\ [][Next]_vars

-----------------------------------------------------------------------------
\* runManagerSetup, rollback: when the interfaces are set up, no other manager has a
\* configuration of the agent left on disk for a NIC that is configured, and netplan has no
\* drop-in of networkd, whichever manager was active before, in this process or before a
\* reboot, and wherever an earlier rollback or setup stopped half way.  Not so for a manager
\* whose rollback failed in this very setup, for the primary NIC's file of wicked, which it
\* keeps, and for networkd's files in a directory that it has not been told of.
OneManagerConfigures ==
    netPc = "routes" /\ managed =>
        \A m \in ManagerSet \ (rollbackFailed \cup {activeMgr}) :
            /\ (m = "networkd" => DirIsKnown) =>
                   conf[m] \cap OkNics \subseteq (IF m = "wicked" THEN {0} ELSE {})
            /\ m = "netplan" => dropins \cap OkNics = {}

\* nic.Configuration, "Invalid is true if the NIC is invalid": a NIC the guest does not have
\* is never handed to the managers, which dereference its interface.
BadNicIsInvalid == netPc # "idle" /\ managed => \A n \in Nics : nicConfigs[n] # "noiface"

\* rollback, "If a non-active manager rolled back state, the active manager must reload its
\* configuration": after a setup no daemon runs with what the agent has taken from it.
RolledBackIsUnloaded ==
    netPc = "routes" /\ managed =>
        \A m \in ManagerSet \ (rollbackFailed \cup {activeMgr}) : loaded[m] \cap OkNics \subseteq conf[m]

\* failedConfiguration, "indicates if the last setup has failed": with no failure on record,
\* the interfaces of the metadata are configured.
FailureIsRetried ==
    netPc = "idle" /\ prevNetMd # NoMd /\ ~netFailed /\ netFaults < MaxNetFaults =>
        ManagedNics \subseteq loaded[activeMgr]

=============================================================================
