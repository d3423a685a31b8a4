------------------------ MODULE DeviceDiscoveryProofs ------------------------
(***************************************************************************)
(* Proofs about the discovery agent of DeviceDiscovery: the type           *)
(* invariant, and that every status discoverDevices publishes is sound     *)
(* for the node and the device-pv-map ConfigMap it read.                   *)
(***************************************************************************)
EXTENDS DeviceDiscovery, WellFoundedInduction, SequenceTheorems, TLAPS

-----------------------------------------------------------------------------
(***************************************************************************)
(* The DiskPVMap helpers.                                                  *)
(***************************************************************************)

\* A non-empty set of naturals has a least element: the CHOOSE of
\* GetDevicePVMap (the first matching index of the Go loop) is defined.
LEMMA LeastIndexExists ==
    ASSUME NEW H \in SUBSET Nat, H # {}
    PROVE  \E i \in H : \A j \in H : i <= j
<1>1. IsWellFoundedOn(OpToRel(<, Nat), Nat)
    BY NatLessThanWellFounded
<1>2. PICK x \in H : \A y \in H : ~(<<y, x>> \in OpToRel(<, Nat))
    BY <1>1, WFMin
<1>3. \A y \in H : ~(y < x)
    BY <1>2, Zenon DEF OpToRel
<1>. QED
    BY <1>3

\* DiskPVMap.GetDevicePVMap returns a value on nodeName whose DevicePath is
\* devicePath when there is one, and nil when there is none.
LEMMA GetDevicePVMapSpec ==
    ASSUME NEW m, IsDiskPVMap(m), NEW n, NEW p
    PROVE  IF n \in DOMAIN m /\ \E i \in 1..Len(m[n]) : m[n][i].DevicePath = p
           THEN \E i \in 1..Len(m[n]) : /\ m[n][i].DevicePath = p
                                        /\ GetDevicePVMap(m, n, p) = m[n][i]
           ELSE GetDevicePVMap(m, n, p) = NoValue
<1>. DEFINE Hits == IF n \in DOMAIN m
                    THEN {i \in 1..Len(m[n]) : m[n][i].DevicePath = p}
                    ELSE {}
<1>1. GetDevicePVMap(m, n, p) =
        IF Hits = {} THEN NoValue
        ELSE m[n][CHOOSE i \in Hits : \A j \in Hits : i <= j]
    BY DEF GetDevicePVMap
<1>2. CASE n \in DOMAIN m /\ \E i \in 1..Len(m[n]) : m[n][i].DevicePath = p
    <2>1. Hits \in SUBSET Nat /\ Hits # {}
        BY <1>2
    <2>2. \E i \in Hits : \A j \in Hits : i <= j
        BY <2>1, LeastIndexExists
    <2>. QED
        BY <1>1, <1>2, <2>2
<1>3. CASE ~(n \in DOMAIN m /\ \E i \in 1..Len(m[n]) : m[n][i].DevicePath = p)
    BY <1>1, <1>3
<1>. QED
    BY <1>2, <1>3

\* The value GetDevicePVMap returns is nil or a DiskPVMapValues.
LEMMA GetDevicePVMapType ==
    ASSUME NEW m, IsDiskPVMap(m), NEW n, NEW p
    PROVE  GetDevicePVMap(m, n, p) \in DiskPVMapValues \cup {NoValue}
<1>1. CASE n \in DOMAIN m /\ \E i \in 1..Len(m[n]) : m[n][i].DevicePath = p
    <2>1. PICK i \in 1..Len(m[n]) : GetDevicePVMap(m, n, p) = m[n][i]
        BY <1>1, GetDevicePVMapSpec
    <2>2. m[n] \in Seq(DiskPVMapValues)
        BY <1>1 DEF IsDiskPVMap
    <2>. QED
        BY <2>1, <2>2
<1>2. CASE ~(n \in DOMAIN m /\ \E i \in 1..Len(m[n]) : m[n][i].DevicePath = p)
    BY <1>2, GetDevicePVMapSpec
<1>. QED
    BY <1>1, <1>2

-----------------------------------------------------------------------------
(***************************************************************************)
(* The scan.                                                               *)
(***************************************************************************)

\* A map a scan goes on with is nil or a well-formed DiskPVMap.
LEMMA MapsReadType ==
    ASSUME TypeOK, NEW m \in MapsRead
    PROVE  m = NilMap \/ IsDiskPVMap(m)
BY DiscoveryAssumption DEF MapsRead, ReadPVMap, PVMapOf, TypeOK

\* getDiscoverdDevices builds one well-typed record per valid device.
LEMMA GetDiscoverdDevicesType ==
    ASSUME TypeOK
    PROVE  GetDiscoverdDevices \in [ValidDevices -> DiscoveredDeviceRecs]
<1>. SUFFICES ASSUME NEW d \in ValidDevices
              PROVE  GetDiscoverdDevices[d] \in DiscoveredDeviceRecs
    BY DEF GetDiscoverdDevices
<1>1. devs[d] \in BlockDevices /\ ~IgnoreDevices(devs[d])
    BY DEF ValidDevices, TypeOK
<1>2. ParseDeviceType(devs[d].Type) \in {"disk", "part"}
    BY <1>1 DEF IgnoreDevices, ParseDeviceType
<1>3. GetDeviceStatus(devs[d], probe[d]) \in DeviceStates
    BY DEF GetDeviceStatus, DeviceStates
<1>4. DeviceID(d) \in Devices \cup {NoID} /\ devs[d].FSType \in {"", "ext4"}
    BY <1>1, DiscoveryAssumption DEF DeviceID, ValidDevices, BlockDevices
<1>. QED
    BY <1>2, <1>3, <1>4 DEF GetDiscoverdDevices, DiscoveredDeviceRecs,
       DeviceStatuses, ValidDevices

\* Cross-referencing with a well-formed map keeps every record well typed.
LEMMA CrossReferenceType ==
    ASSUME NEW S, NEW list \in [S -> DiscoveredDeviceRecs], NEW m, IsDiskPVMap(m)
    PROVE  CrossReference(list, m) \in [S -> DiscoveredDeviceRecs]
<1>. SUFFICES ASSUME NEW d \in S
              PROVE  CrossReference(list, m)[d] \in DiscoveredDeviceRecs
    BY DEF CrossReference
<1>. DEFINE value == IF DeviceID(d) = NoID \/ Symlinks[d] = <<>> THEN NoValue
                     ELSE GetDevicePVMap(m, Self, Head(Symlinks[d]))
<1>1. value \in DiskPVMapValues \cup {NoValue}
    BY GetDevicePVMapType
<1>2. CrossReference(list, m)[d] =
        IF value = NoValue THEN list[d]
        ELSE [list[d] EXCEPT !.Status =
                [State |-> "NotAvailable", PersistentVolume |-> value.PVName,
                 StorageClass |-> value.StorageClassName]]
    BY DEF CrossReference
<1>3. CASE value = NoValue
    BY <1>2, <1>3
<1>4. CASE value \in DiskPVMapValues
    <2>1. [State |-> "NotAvailable", PersistentVolume |-> value.PVName,
           StorageClass |-> value.StorageClassName] \in DeviceStatuses
        BY <1>4 DEF DiskPVMapValues, DeviceStatuses, DeviceStates
    <2>. QED
        BY <1>2, <1>4, <2>1, DiscoveryAssumption DEF DiscoveredDeviceRecs
<1>. QED
    BY <1>1, <1>3, <1>4

\* Every list a scan computes is a DiscoveredLists.
LEMMA ScanListType ==
    ASSUME TypeOK, NEW m \in MapsRead
    PROVE  ScanList(m) \in DiscoveredLists
<1>1. ScanList(m) \in [ValidDevices -> DiscoveredDeviceRecs]
    BY MapsReadType, GetDiscoverdDevicesType, CrossReferenceType DEF ScanList
<1>2. ValidDevices \in SUBSET Devices
    BY DEF ValidDevices
<1>. QED
    BY <1>1, <1>2 DEF DiscoveredLists

PcValues   == {"stopped", "starting", "first", "running"}
UdevValues == {"none", "idle", "pending", "closed", "disabled"}

\* Whichever way discoverDevices ends, the process variables stay typed.
LEMMA DiscoverDevicesType ==
    ASSUME TypeOK, NEW pa \in PcValues, NEW ua \in UdevValues,
           DiscoverDevices(pa, ua)
    PROVE  /\ pc' \in PcValues /\ udev' \in UdevValues
           /\ disks' \in {NoList} \cup DiscoveredLists
           /\ reported' \subseteq EventKeys
           /\ result' \in {NoResult} \cup DiscoveredLists
<1>1. CASE ScanListFails(pa, ua) \/ ScanPVMapFails(pa, ua) \/ ScanPanics
    BY <1>1 DEF ScanListFails, ScanPVMapFails, ScanPanics, Report, EventKeys,
       TypeOK, PcValues, UdevValues
<1>2. CASE \E m \in MapsRead : \/ ScanNoChange(m, pa, ua)
                               \/ ScanUpdateFails(m, pa, ua)
                               \/ ScanPublishes(m, pa, ua)
    <2>1. PICK m \in MapsRead : \/ ScanNoChange(m, pa, ua)
                               \/ ScanUpdateFails(m, pa, ua)
                               \/ ScanPublishes(m, pa, ua)
        BY <1>2
    <2>2. ScanList(m) \in DiscoveredLists
        BY ScanListType
    <2>. QED
        BY <2>1, <2>2 DEF ScanNoChange, ScanUpdateFails, ScanPublishes, Report,
           EventKeys, TypeOK
<1>. QED
    BY <1>1, <1>2 DEF DiscoverDevices

-----------------------------------------------------------------------------
(***************************************************************************)
(* Type correctness.                                                       *)
(***************************************************************************)

\* Whatever the node, the ConfigMap and the faults do, the agent's state
\* (its position in Start, the udev channel, DeviceDiscovery.disks, the
\* events reported) and the published result keep their types.
THEOREM TypeCorrect == Spec => []TypeOK
<1>1. Init => TypeOK
    BY DEF Init, TypeOK
<1>2. TypeOK /\ [Next]_vars => TypeOK'
    <2> SUFFICES ASSUME TypeOK, [Next]_vars PROVE TypeOK'
        OBVIOUS
    <2>1. CASE FirstDiscovery \/ ProbeTick \/ UdevTrigger
        <3>1. \E pa \in PcValues, ua \in UdevValues : DiscoverDevices(pa, ua)
            BY <2>1 DEF FirstDiscovery, ProbeTick, UdevTrigger, PcValues,
               UdevValues, TypeOK
        <3>2. UNCHANGED envVars
            BY <2>1 DEF FirstDiscovery, ProbeTick, UdevTrigger
        <3>. QED
            BY <3>1, <3>2, DiscoverDevicesType DEF TypeOK, envVars, PcValues,
               UdevValues
    <2>2. CASE EnsureResult \/ EnsureResultFails \/ UdevDisabled \/ Shutdown
               \/ MonitorCloses \/ Restart
        BY <2>2 DEF EnsureResult, EnsureResultFails, UdevDisabled, Shutdown,
           MonitorCloses, Restart, Report, EventKeys, TypeOK, envVars
    <2>3. CASE EnvStep
        BY <2>3 DEF EnvStep, DeviceChange, ProbeChange, ConfigMapChange, TypeOK,
           procVars
    <2>4. CASE UNCHANGED vars
        BY <2>4 DEF vars, TypeOK
    <2>. QED
        BY <2>1, <2>2, <2>3, <2>4 DEF Next
<1>. QED
    BY <1>1, <1>2, PTL DEF Spec
\* A non-empty symlink list of length at most one has its only link first.
LEMMA SingleSymlink ==
    ASSUME NEW s \in Seq(Links), Len(s) <= 1, s # <<>>
    PROVE  Len(s) = 1 /\ Head(s) = s[1]
<1>1. Len(s) \in Nat \ {0}
    BY EmptySeq
<1>. QED
    BY <1>1

-----------------------------------------------------------------------------
(***************************************************************************)
(* Soundness of the published status.  It rests on what the code needs to  *)
(* find a device's PV binding: the ConfigMap read does not fail (a failed  *)
(* Get panics or reads as "no map"), every device has a /dev/disk/by-id    *)
(* link (the fallback branch for a device without one looks up "" and     *)
(* finds nothing), and a device has at most one symlink under              *)
(* /mnt/local-storage (only the first symlink is looked up).  The runs     *)
(* MCDeviceDiscovery_cmread and _noid show the first two are needed.       *)
(***************************************************************************)
BindingFound ==
    /\ "cmread" \notin Faults
    /\ HasID = Devices
    /\ \A d \in Devices : Len(Symlinks[d]) <= 1

\* getDeviceStatus alone: a filesystem or a boot label makes a device
\* NotAvailable, Unknown only comes from a failed open, Available only from
\* a successful one.
LEMMA DeviceStatusSound ==
    ASSUME TypeOK, NEW d \in ValidDevices
    PROVE  LET st == GetDiscoverdDevices[d].Status
           IN  /\ (devs[d].FSType # "" \/ devs[d].PartLabel \in {BiosBoot, EfiSystem})
                     => st.State = "NotAvailable"
               /\ st.State = "Unknown" => probe[d] = "err"
               /\ st.State = "Available" => probe[d] = "ok"
<1>1. probe[d] \in ProbeResults
    BY DEF ValidDevices, TypeOK
<1>. QED
    BY <1>1 DEF GetDiscoverdDevices, GetDeviceStatus, ProbeResults

\* The cross-reference loop either leaves a device as getDeviceStatus made
\* it, and then the ConfigMap binds none of its symlinks, or marks it
\* NotAvailable with one of the PVs the ConfigMap binds to it.
LEMMA ScanEntry ==
    ASSUME TypeOK, BindingFound, NEW m \in MapsRead, NEW d \in ValidDevices
    PROVE  \/ /\ Bindings(cm, d) = {}
              /\ ScanList(m)[d] = GetDiscoverdDevices[d]
           \/ \E v \in Bindings(cm, d) :
                 ScanList(m)[d].Status.State = "NotAvailable"
                 /\ ScanList(m)[d].Status.PersistentVolume = v.PVName
<1>1. cm # CorruptBlob /\ m = PVMapOf(cm)
    BY DEF BindingFound, MapsRead, ReadPVMap
<1>2. CASE cm \in {Absent, EmptyBlob}
    <2>1. m = NilMap /\ Bindings(cm, d) = {}
        BY <1>1, <1>2 DEF PVMapOf, Bindings
    <2>. QED
        BY <2>1 DEF ScanList
<1>3. CASE cm \notin {Absent, EmptyBlob}
    <2>. DEFINE pm == ParsedDiskPVMap(cm)
    <2>1. m = pm /\ IsDiskPVMap(pm) /\ pm # NilMap
        BY <1>1, <1>3, DiscoveryAssumption DEF PVMapOf, TypeOK
    <2>2. d \in Devices /\ DeviceID(d) # NoID /\ Symlinks[d] \in Seq(Links)
        BY DiscoveryAssumption DEF ValidDevices, DeviceID, BindingFound
    <2>3. ScanList(m)[d] = CrossReference(GetDiscoverdDevices, m)[d]
        BY <2>1 DEF ScanList, GetDiscoverdDevices
    <2>4. CASE Symlinks[d] = <<>>
        <3>1. Bindings(cm, d) = {}
            BY <2>2, <2>4 DEF Bindings
        <3>. QED
            BY <2>3, <2>4, <3>1 DEF CrossReference, GetDiscoverdDevices
    <2>5. CASE Symlinks[d] # <<>>
        <3>. DEFINE l == Symlinks[d][1]
        <3>1. Len(Symlinks[d]) = 1 /\ Head(Symlinks[d]) = l
            BY <2>2, <2>5, SingleSymlink DEF BindingFound, l
        <3>2. Bindings(cm, d) =
                IF Self \notin DOMAIN pm THEN {}
                ELSE {pm[Self][i] : i \in {i \in 1..Len(pm[Self]) :
                                              pm[Self][i].DevicePath = l}}
            <4>1. \A x : (\E j \in 1..Len(Symlinks[d]) : x = Symlinks[d][j])
                         <=> x = l
                BY <3>1
            <4>2. cm \notin {Absent, EmptyBlob, CorruptBlob}
                BY <1>1, <1>3
            <4>. QED
                BY <4>1, <4>2 DEF Bindings
        <3>3. CrossReference(GetDiscoverdDevices, m)[d] =
                LET value == GetDevicePVMap(pm, Self, l)
                IN  IF value = NoValue THEN GetDiscoverdDevices[d]
                    ELSE [GetDiscoverdDevices[d] EXCEPT !.Status =
                            [State |-> "NotAvailable",
                             PersistentVolume |-> value.PVName,
                             StorageClass |-> value.StorageClassName]]
            BY <2>1, <2>2, <2>5, <3>1 DEF CrossReference, GetDiscoverdDevices
        <3>4. CASE Self \in DOMAIN pm /\ \E i \in 1..Len(pm[Self]) :
                                            pm[Self][i].DevicePath = l
            <4>1. PICK i \in 1..Len(pm[Self]) :
                        /\ pm[Self][i].DevicePath = l
                        /\ GetDevicePVMap(pm, Self, l) = pm[Self][i]
                BY <2>1, <3>4, GetDevicePVMapSpec
            <4>2. pm[Self][i] \in DiskPVMapValues
                BY <2>1, <3>4 DEF IsDiskPVMap
            <4>3. pm[Self][i] # NoValue /\ pm[Self][i] \in Bindings(cm, d)
                BY <3>2, <3>4, <4>1, <4>2, DiscoveryAssumption
            <4>4. GetDiscoverdDevices[d] \in DiscoveredDeviceRecs
                BY GetDiscoverdDevicesType
            <4>5. CrossReference(GetDiscoverdDevices, m)[d].Status =
                    [State |-> "NotAvailable",
                     PersistentVolume |-> pm[Self][i].PVName,
                     StorageClass |-> pm[Self][i].StorageClassName]
                BY <3>3, <4>1, <4>3, <4>4 DEF DiscoveredDeviceRecs
            <4>. QED
                BY <2>3, <4>3, <4>5
        <3>5. CASE ~(Self \in DOMAIN pm /\ \E i \in 1..Len(pm[Self]) :
                                              pm[Self][i].DevicePath = l)
            <4>1. GetDevicePVMap(pm, Self, l) = NoValue
                BY <2>1, <3>5, GetDevicePVMapSpec
            <4>2. Bindings(cm, d) = {}
                BY <3>2, <3>5
            <4>. QED
                BY <2>3, <3>3, <4>1, <4>2
        <3>. QED
            BY <3>4, <3>5
    <2>. QED
        BY <2>4, <2>5
<1>. QED
    BY <1>2, <1>3

\* Every list a fault-free-read scan computes is sound.
LEMMA ScanListSound ==
    ASSUME TypeOK, BindingFound, NEW m \in MapsRead
    PROVE  SoundList(ScanList(m))
<1>1. DOMAIN ScanList(m) = ValidDevices
    BY ScanListType, MapsReadType, GetDiscoverdDevicesType, CrossReferenceType
       DEF ScanList
<1>2. ValidDevices =
         {d \in Devices :
            /\ devs[d] # Gone
            /\ devs[d].ReadOnly = "0" /\ devs[d].Children = "none"
            /\ devs[d].State # "suspended" /\ devs[d].Type \in {"disk", "part"}}
    BY DEF ValidDevices, IgnoreDevices
<1>3. ASSUME NEW d \in ValidDevices
      PROVE  LET st == ScanList(m)[d].Status
                 B  == Bindings(cm, d)
             IN  /\ (devs[d].FSType # "" \/ devs[d].PartLabel \in {BiosBoot, EfiSystem}
                     \/ B # {}) => st.State = "NotAvailable"
                 /\ st.State = "Unknown" => probe[d] = "err"
                 /\ st.State = "Available" => probe[d] = "ok"
                 /\ B # {} => \E v \in B : st.PersistentVolume = v.PVName
    BY ScanEntry, DeviceStatusSound
<1>. QED
    BY <1>1, <1>2, <1>3 DEF SoundList
\* A step that changes the published result is a scan that wrote it.
LEMMA ResultWrittenByScan ==
    ASSUME TypeOK, [Next]_vars, result' # result
    PROVE  /\ \E m \in MapsRead : result' = ScanList(m)
           /\ UNCHANGED envVars
<1>1. ASSUME NEW pa, NEW ua, DiscoverDevices(pa, ua), result' # result
      PROVE  \E m \in MapsRead : result' = ScanList(m)
    BY <1>1 DEF DiscoverDevices, ScanListFails, ScanPVMapFails, ScanPanics,
       ScanNoChange, ScanUpdateFails, ScanPublishes
<1>2. CASE FirstDiscovery \/ ProbeTick \/ UdevTrigger
    BY <1>1, <1>2 DEF FirstDiscovery, ProbeTick, UdevTrigger
<1>3. CASE ~(FirstDiscovery \/ ProbeTick \/ UdevTrigger)
    BY <1>3 DEF Next, EnsureResult, EnsureResultFails, UdevDisabled, Shutdown,
       MonitorCloses, Restart, EnvStep, DeviceChange, ProbeChange,
       ConfigMapChange, vars
<1>. QED
    BY <1>2, <1>3

\* discoverDevices never publishes a device list that offers as Available
\* a device the ConfigMap binds to a PV on this node, or that misstates the
\* node: whatever the node, the ConfigMap and the failures of lsblk, of
\* ensureDiscoveryResultCR and of the status write do, provided the
\* ConfigMap read does not fail and each device has a by-id link and at
\* most one symlink.
THEOREM PublishedStatusSoundThm ==
    ASSUME BindingFound
    PROVE  Spec => PublishedStatusSound
<1>1. TypeOK /\ [Next]_vars => (result' # result => SoundList(result'))
    <2> SUFFICES ASSUME TypeOK, [Next]_vars, result' # result
                 PROVE  SoundList(result')
        OBVIOUS
    <2>1. PICK m \in MapsRead : result' = ScanList(m)
        BY ResultWrittenByScan
    <2>. QED
        BY <2>1, ScanListSound
<1>. QED
    BY <1>1, TypeCorrect, PTL DEF Spec, PublishedStatusSound
====
