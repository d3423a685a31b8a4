--------------------------- MODULE DeviceDiscovery ---------------------------
(***************************************************************************)
(* The per-node discovery agent of pkg/diskmaker/discovery/discovery.go:   *)
(* DeviceDiscovery.Start (ensure the result CR, a first scan, then a       *)
(* select over SIGTERM, a 5s timer and udev events) and discoverDevices    *)
(* (lsblk, classify, cross-reference with the device-pv-map ConfigMap,     *)
(* write the LocalVolumeDiscoveryResult status when the list changed),     *)
(* with the EventReporter of pkg/diskmaker/event_reporter.go.              *)
(*                                                                         *)
(* The node (block devices, exclusive-open outcomes) and the ConfigMap     *)
(* written by the operator are the environment and change at any time.    *)
(* A scan is one step: the loop is single threaded and never suspends      *)
(* mid-scan, and what it writes depends only on what it read.  The         *)
(* process can stop (SIGTERM, a panic, a failed start) and the DaemonSet   *)
(* restarts it with empty memory; the result CR and the ConfigMap stay.    *)
(*                                                                         *)
(* lsblk lists devices in kernel order, so the device list ([]Discovered-  *)
(* Device) is a function from device to record: two lists are DeepEqual    *)
(* exactly when these functions are equal.                                 *)
(***************************************************************************)
EXTENDS Naturals, Sequences, DiskPVMap, DeviceClassifier

CONSTANTS
    Devices,        \* lsblk NAMEs of the node's block devices
    Self,           \* MY_NODE_NAME
    HasID,          \* devices with a /dev/disk/by-id link (GetPathByID works)
    Symlinks,       \* Symlinks[d]: GetMatchingSymlinksInDirs for d, glob order
    Variants,       \* Variants[d]: the lsblk rows d can show (Gone: unplugged)
    ProbeVariants,  \* ProbeVariants[d]: outcomes canOpenExclusively can give
    CMValues,       \* the contents the ConfigMap device-pv-map can have
    Faults,         \* failures that may happen: "lsblk", "cmread", "update", "ensure"
    Gone,           \* the device is not present on the node
    NoID,           \* DeviceID "": GetPathByID failed
    NilMap,         \* getDevicePVMap returned nil
    NoList,         \* DeviceDiscovery.disks is nil (a fresh process)
    NoResult        \* no status has been written to the result CR yet

ASSUME DiscoveryAssumption ==
    /\ Self \in Nodes
    /\ HasID \subseteq Devices
    /\ Symlinks \in [Devices -> Seq(Links)]
    /\ \A d \in Devices : Variants[d] \subseteq BlockDevices \cup {Gone}
                          /\ Variants[d] # {}
    /\ \A d \in Devices : ProbeVariants[d] \subseteq ProbeResults
                          /\ ProbeVariants[d] # {}
    /\ Faults \subseteq {"lsblk", "cmread", "update", "ensure"}
    /\ NoID \notin Devices
    /\ NoValue \notin DiskPVMapValues
    /\ \A c \in CMValues \ {Absent, EmptyBlob, CorruptBlob} :
          /\ IsDiskPVMap(ParsedDiskPVMap(c))
          /\ ParsedDiskPVMap(c) # NilMap

VARIABLES
    pc,        \* where the process is: stopped, starting, first, running
    udev,      \* the udevEvents channel: none, idle, pending, closed, disabled
    disks,     \* DeviceDiscovery.disks, the last list computed
    reported,  \* EventReporter.reportedEvents, keys <<reason, type>>
    result,    \* LocalVolumeDiscoveryResult.Status.DiscoveredDevices
    devs,      \* (environment) lsblk row of each device
    probe,     \* (environment) canOpenExclusively outcome of each device
    cm         \* (environment) the ConfigMap device-pv-map

procVars == <<pc, udev, disks, reported>>
envVars  == <<devs, probe, cm>>
vars     == <<pc, udev, disks, reported, result, devs, probe, cm>>

-----------------------------------------------------------------------------
DeviceStatuses ==
    [State: DeviceStates, PersistentVolume: PVNames \cup {""},
     StorageClass: StorageClasses \cup {""}]

DiscoveredDeviceRecs ==
    [DeviceID: Devices \cup {NoID}, Type: {"disk", "part"},
     FSType: {"", "ext4"}, Status: DeviceStatuses]

DiscoveredLists == UNION {[S -> DiscoveredDeviceRecs] : S \in SUBSET Devices}

EventKeys ==
    {<<"ErrorListingBlockDevices", "Warning">>,
     <<"ErrorUpdatingDiscoveryResultObject", "Warning">>,
     <<"ErrorCreatingDiscoveryResultObject", "Warning">>,
     <<"UpdatedDiscoveredDeviceList", "Normal">>}

\* EventReporter.Report: the key is reason:type:disk and disk is always "".
Report(reason, type) == reported' = reported \cup {<<reason, type>>}

\* getValidBlockDevices: the listed devices ignoreDevices keeps.
ValidDevices == {d \in Devices : devs[d] # Gone /\ ~IgnoreDevices(devs[d])}

\* GetPathByID, "" when it fails.
DeviceID(d) == IF d \in HasID THEN d ELSE NoID

\* getDiscoverdDevices.
GetDiscoverdDevices ==
    [d \in ValidDevices |->
        [DeviceID |-> DeviceID(d),
         Type |-> ParseDeviceType(devs[d].Type),
         FSType |-> devs[d].FSType,
         Status |-> [State |-> GetDeviceStatus(devs[d], probe[d]),
                     PersistentVolume |-> "", StorageClass |-> ""]]]

\* getDevicePVMap once the ConfigMap is read: nil when it is missing or
\* its value is empty, else the unmarshalled map (CorruptBlob: an error).
PVMapOf(blob) ==
    IF blob \in {Absent, EmptyBlob} THEN NilMap ELSE ParsedDiskPVMap(blob)

\* Mutant: the ConfigMap is looked up where it is not (another name or
\* namespace), so every read is NotFound.
ReadPVMapNotFound == NilMap

\* getDevicePVMap when the Get succeeds (or is NotFound).
ReadPVMap == PVMapOf(cm)

\* The maps a scan can go on with: the stored one, and nil when the Get
\* fails with an error other than NotFound (cm is then an empty object).
MapsRead ==
    (IF cm = CorruptBlob THEN {} ELSE {ReadPVMap})
    \cup (IF "cmread" \in Faults THEN {NilMap} ELSE {})

\* The loop over discoveredDisks: the device path is DeviceID in both
\* branches, so a device without one is skipped; only the first symlink is
\* looked up, as the loop breaks whether or not it finds a value.
CrossReference(list, m) ==
    [d \in DOMAIN list |->
        LET value == IF DeviceID(d) = NoID \/ Symlinks[d] = <<>> THEN NoValue
                     ELSE GetDevicePVMap(m, Self, Head(Symlinks[d]))
        IN  IF value = NoValue THEN list[d]
            ELSE [list[d] EXCEPT !.Status =
                    [State |-> "NotAvailable",
                     PersistentVolume |-> value.PVName,
                     StorageClass |-> value.StorageClassName]]]

ScanList(m) ==
    IF m = NilMap THEN GetDiscoverdDevices
    ELSE CrossReference(GetDiscoverdDevices, m)

-----------------------------------------------------------------------------
(***************************************************************************)
(* discoverDevices, one disjunct per way it ends.  pcAfter and udevAfter   *)
(* are where the caller goes on when the call returns.                     *)
(***************************************************************************)
ScanListFails(pcAfter, udevAfter) ==
    /\ "lsblk" \in Faults
    /\ Report("ErrorListingBlockDevices", "Warning")
    /\ pc' = pcAfter /\ udev' = udevAfter
    /\ UNCHANGED <<disks, result>>

\* ToDiskPVMapObj fails; the event reuses the reason ErrorListingBlockDevices.
ScanPVMapFails(pcAfter, udevAfter) ==
    /\ cm = CorruptBlob
    /\ Report("ErrorListingBlockDevices", "Warning")
    /\ pc' = pcAfter /\ udev' = udevAfter
    /\ UNCHANGED <<disks, result>>

\* The Get fails and returns a nil *ConfigMap: cm.Data panics the process.
ScanPanics ==
    /\ "cmread" \in Faults
    /\ pc' = "stopped" /\ udev' = "none"
    /\ UNCHANGED <<disks, reported, result>>

\* The list equals DeviceDiscovery.disks: nothing is written.
ScanNoChange(m, pcAfter, udevAfter) ==
    /\ disks = ScanList(m)
    /\ pc' = pcAfter /\ udev' = udevAfter
    /\ UNCHANGED <<disks, reported, result>>

\* disks is replaced before updateStatus, which fails.
ScanUpdateFails(m, pcAfter, udevAfter) ==
    /\ "update" \in Faults
    /\ disks # ScanList(m)
    /\ disks' = ScanList(m)
    /\ Report("ErrorUpdatingDiscoveryResultObject", "Warning")
    /\ pc' = pcAfter /\ udev' = udevAfter
    /\ UNCHANGED <<result>>

ScanPublishes(m, pcAfter, udevAfter) ==
    /\ disks # ScanList(m)
    /\ disks' = ScanList(m)
    /\ result' = ScanList(m)
    /\ Report("UpdatedDiscoveredDeviceList", "Normal")
    /\ pc' = pcAfter /\ udev' = udevAfter

DiscoverDevices(pcAfter, udevAfter) ==
    \/ ScanListFails(pcAfter, udevAfter)
    \/ ScanPVMapFails(pcAfter, udevAfter)
    \/ ScanPanics
    \/ \E m \in MapsRead :
          \/ ScanNoChange(m, pcAfter, udevAfter)
          \/ ScanUpdateFails(m, pcAfter, udevAfter)
          \/ ScanPublishes(m, pcAfter, udevAfter)

-----------------------------------------------------------------------------
(***************************************************************************)
(* The process: Start and its select loop.                                 *)
(***************************************************************************)
Init ==
    /\ pc = "starting"
    /\ udev = "none"
    /\ disks = NoList
    /\ reported = {}
    /\ result = NoResult
    /\ devs \in {f \in [Devices -> BlockDevices \cup {Gone}] :
                    \A d \in Devices : f[d] \in Variants[d]}
    /\ probe \in {f \in [Devices -> ProbeResults] :
                    \A d \in Devices : f[d] \in ProbeVariants[d]}
    /\ cm \in CMValues

\* ensureDiscoveryResultCR succeeds: the CR exists (created with no status
\* when absent, which leaves result as it was).
EnsureResult ==
    /\ pc = "starting"
    /\ pc' = "first"
    /\ UNCHANGED <<udev, disks, reported, result>>
    /\ UNCHANGED envVars

\* Mutant: the failure is reported with NewSuccessEvent.
EnsureResultFailsSuccessEvent ==
    /\ pc = "starting"
    /\ "ensure" \in Faults
    /\ Report("ErrorCreatingDiscoveryResultObject", "Normal")
    /\ pc' = "stopped"
    /\ UNCHANGED <<udev, disks, result>>
    /\ UNCHANGED envVars

\* ensureDiscoveryResultCR fails: report, and Start returns the error.
EnsureResultFails ==
    /\ pc = "starting"
    /\ "ensure" \in Faults
    /\ Report("ErrorCreatingDiscoveryResultObject", "Warning")
    /\ pc' = "stopped"
    /\ UNCHANGED <<udev, disks, result>>
    /\ UNCHANGED envVars

\* The first discoverDevices of Start (its error is dropped); then the
\* udev monitor goroutine starts and the loop begins.
FirstDiscovery ==
    /\ pc = "first"
    /\ DiscoverDevices("running", "idle")
    /\ UNCHANGED envVars

\* case <-time.After(probeInterval)
ProbeTick ==
    /\ pc = "running"
    /\ DiscoverDevices("running", udev)
    /\ UNCHANGED envVars

\* case _, ok := <-udevEvents with ok
UdevTrigger ==
    /\ pc = "running"
    /\ udev = "pending"
    /\ DiscoverDevices("running", "idle")
    /\ UNCHANGED envVars

\* case _, ok := <-udevEvents with !ok: udevEvents = nil
UdevDisabled ==
    /\ pc = "running"
    /\ udev = "closed"
    /\ udev' = "disabled"
    /\ UNCHANGED <<pc, disks, reported, result>>
    /\ UNCHANGED envVars

\* case <-sigc: Start returns nil.
Shutdown ==
    /\ pc = "running"
    /\ pc' = "stopped"
    /\ udev' = "none"
    /\ UNCHANGED <<disks, reported, result>>
    /\ UNCHANGED envVars

\* udevBlockMonitor ends and closes its channel (not under src/).
MonitorCloses ==
    /\ udev = "idle"
    /\ udev' = "closed"
    /\ UNCHANGED <<pc, disks, reported, result>>
    /\ UNCHANGED envVars

\* The DaemonSet restarts the container: NewDeviceDiscovery, fresh memory.
Restart ==
    /\ pc = "stopped"
    /\ pc' = "starting"
    /\ disks' = NoList
    /\ reported' = {}
    /\ UNCHANGED <<udev, result>>
    /\ UNCHANGED envVars

-----------------------------------------------------------------------------
(***************************************************************************)
(* The environment.                                                        *)
(***************************************************************************)
\* A device is plugged, unplugged, formatted, partitioned...; the udev
\* monitor queues one notification (a pending one absorbs later ones).
DeviceChange(d, v) ==
    /\ v \in Variants[d] /\ v # devs[d]
    /\ devs' = [devs EXCEPT ![d] = v]
    /\ udev' = IF udev = "idle" THEN "pending" ELSE udev
    /\ UNCHANGED <<pc, disks, reported, result, probe, cm>>

\* Another process opens or closes the device.
ProbeChange(d, p) ==
    /\ p \in ProbeVariants[d] /\ p # probe[d]
    /\ probe' = [probe EXCEPT ![d] = p]
    /\ UNCHANGED <<procVars, result, devs, cm>>

\* The operator rewrites (or deletes) the ConfigMap.
ConfigMapChange(c) ==
    /\ c \in CMValues /\ c # cm
    /\ cm' = c
    /\ UNCHANGED <<procVars, result, devs, probe>>

EnvStep ==
    \/ \E d \in Devices, v \in BlockDevices \cup {Gone} : DeviceChange(d, v)
    \/ \E d \in Devices, p \in ProbeResults : ProbeChange(d, p)
    \/ \E c \in CMValues : ConfigMapChange(c)

Next ==
    \/ EnsureResult \/ EnsureResultFails \/ FirstDiscovery
    \/ ProbeTick \/ UdevTrigger \/ UdevDisabled \/ Shutdown
    \/ MonitorCloses \/ Restart
    \/ EnvStep

\* A scan with no fault.  lsblk and API failures are transient, so a scan
\* that could run without one eventually does.
HealthyScan(pcAfter, udevAfter) ==
    /\ cm # CorruptBlob
    /\ \/ ScanNoChange(ReadPVMap, pcAfter, udevAfter)
       \/ ScanPublishes(ReadPVMap, pcAfter, udevAfter)
    /\ UNCHANGED envVars

HealthyFirst == pc = "first" /\ HealthyScan("running", "idle")

\* The timer fires every probeInterval for as long as the loop runs.
HealthyTick == pc = "running" /\ HealthyScan("running", udev)

\* The DaemonSet restarts a stopped container; API and lsblk failures are
\* transient.  Nothing forces SIGTERM, a device change or a udev event.
Fairness ==
    /\ WF_vars(Restart)
    /\ SF_vars(EnsureResult)
    /\ SF_vars(HealthyFirst)
    /\ SF_vars(HealthyTick)

Spec == Init /\ [][Next]_vars

FairSpec == Spec /\ Fairness

-----------------------------------------------------------------------------
(***************************************************************************)
(* Properties.                                                             *)
(***************************************************************************)
TypeOK ==
    /\ pc \in {"stopped", "starting", "first", "running"}
    /\ udev \in {"none", "idle", "pending", "closed", "disabled"}
    /\ disks \in {NoList} \cup DiscoveredLists
    /\ reported \subseteq EventKeys
    /\ result \in {NoResult} \cup DiscoveredLists
    /\ devs \in [Devices -> BlockDevices \cup {Gone}]
    /\ probe \in [Devices -> ProbeResults]
    /\ cm \in CMValues

\* The values of this node's entries in blob that name a symlink of d.
Bindings(blob, d) ==
    IF blob \in {Absent, EmptyBlob, CorruptBlob} THEN {}
    ELSE LET m == ParsedDiskPVMap(blob)
         IN  IF Self \notin DOMAIN m THEN {}
             ELSE {m[Self][i] : i \in {i \in 1..Len(m[Self]) :
                     \E j \in 1..Len(Symlinks[d]) :
                        m[Self][i].DevicePath = Symlinks[d][j]}}

\* list is what the data model of the design promises of the node and the
\* ConfigMap: it holds every device that is present, writable, running,
\* not a parent and a disk or partition, and no other; a device with a
\* filesystem, a boot partition label or a symlink bound to a PV on this
\* node is NotAvailable, and a bound one names one of its PVs; Unknown only
\* when the exclusive open failed, Available only when it succeeded.
SoundList(list) ==
    /\ DOMAIN list =
         {d \in Devices :
            /\ devs[d] # Gone
            /\ devs[d].ReadOnly = "0" /\ devs[d].Children = "none"
            /\ devs[d].State # "suspended" /\ devs[d].Type \in {"disk", "part"}}
    /\ \A d \in DOMAIN list :
         LET st == list[d].Status
             B  == Bindings(cm, d)
         IN  /\ (devs[d].FSType # "" \/ devs[d].PartLabel \in {BiosBoot, EfiSystem}
                 \/ B # {}) => st.State = "NotAvailable"
             /\ st.State = "Unknown" => probe[d] = "err"
             /\ st.State = "Available" => probe[d] = "ok"
             /\ B # {} => \E v \in B : st.PersistentVolume = v.PVName

\* Every status write of discoverDevices publishes a list that is sound for
\* the node and the ConfigMap as that scan found them: in particular a
\* device whose symlink the ConfigMap binds to a PV is never offered as
\* Available.
PublishedStatusSound ==
    [][result' # result => SoundList(result')]_vars

\* The list a fault-free scan computes from the node and ConfigMap now.
ExpectedList == ScanList(PVMapOf(cm))

\* Once the node and the ConfigMap stop changing, the published result
\* keeps coming back to what they say: a failed lsblk, ConfigMap read or
\* status write is retried by the periodic timer (the design's backstop),
\* even after the udev monitor has stopped.
StatusEventuallyCurrent ==
    (<>[][~EnvStep]_vars) => []<>(result = ExpectedList)
=============================================================================
