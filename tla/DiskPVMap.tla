----------------------------- MODULE DiskPVMap -----------------------------
(***************************************************************************)
(* The device-to-PV map of pkg/diskmaker/discovery/disk_pv_mapper.go.      *)
(*                                                                         *)
(* A DiskPVMap holds Data: a map from node name to the list of values      *)
(* {PVName, StorageClassName, DevicePath} of the local PVs bound on that   *)
(* node.  It is modelled as a TLA+ function whose domain is the set of     *)
(* node names that have a key in the Go map, each mapped to a sequence     *)
(* (order is kept: DiskPVMapEqual is reflect.DeepEqual and sees order).    *)
(* The map is persisted as the YAML text of a ConfigMap value.  A blob is  *)
(* Absent (no ConfigMap), EmptyBlob (the key is ""), CorruptBlob (YAML     *)
(* that does not unmarshal) or Yaml(m), the text yaml.Marshal produces    *)
(* for the map m.                                                          *)
(***************************************************************************)
EXTENDS Naturals, Sequences

CONSTANTS
    Nodes,           \* node names, the keys of Data (kubernetes.io/hostname)
    PVNames,         \* names of PersistentVolumes
    StorageClasses,  \* storage class names
    Links,           \* symlink paths under /mnt/local-storage/<sc>/
    NoValue,         \* the nil *DiskPVMapValues returned by GetDevicePVMap
    Absent,          \* the ConfigMap does not exist
    EmptyBlob,       \* Data["devicePvMapConfig"] == ""
    CorruptBlob      \* a value yaml.Unmarshal rejects

DiskPVMapValues ==
    [PVName: PVNames, StorageClassName: StorageClasses, DevicePath: Links]

\* The maps whose lists have at most k entries per node (a finite set for TLC).
DiskPVMaps(k) ==
    UNION {[N -> UNION {[1..n -> DiskPVMapValues] : n \in 0..k}] : N \in SUBSET Nodes}

\* IsDiskPVMap(m): m is a value of the Go type (any length).
IsDiskPVMap(m) ==
    /\ DOMAIN m \subseteq Nodes
    /\ m \in [DOMAIN m -> Seq(DiskPVMapValues)]

\* NewDiskPVMap: Data is an empty, non-nil Go map.
NewDiskPVMap == [n \in {} |-> <<>>]

\* Contains: some value on nodeName carries pvName.
Contains(m, nodeName, pvName) ==
    /\ nodeName \in DOMAIN m
    /\ \E i \in 1..Len(m[nodeName]) : m[nodeName][i].PVName = pvName

\* GetDevicePVMap: the first value on nodeName whose DevicePath is
\* devicePath, NoValue when there is none.
GetDevicePVMap(m, nodeName, devicePath) ==
    LET Hits == IF nodeName \in DOMAIN m
                THEN {i \in 1..Len(m[nodeName]) :
                        m[nodeName][i].DevicePath = devicePath}
                ELSE {}
    IN  IF Hits = {} THEN NoValue
        ELSE m[nodeName][CHOOSE i \in Hits : \A j \in Hits : i <= j]

\* Mutant: Add replaces nodeName's list instead of appending to it.
AddOverwrite(m, nodeName, pvName, storageClassName, devicePath) ==
    [n \in DOMAIN m \cup {nodeName} |->
        IF n = nodeName
        THEN <<[PVName |-> pvName, StorageClassName |-> storageClassName,
                DevicePath |-> devicePath]>>
        ELSE m[n]]

\* Add: append a value to nodeName's list, creating the list if needed.
\* It does not check for duplicates; callers guard it with Contains.
Add(m, nodeName, pvName, storageClassName, devicePath) ==
    LET v == [PVName |-> pvName, StorageClassName |-> storageClassName,
              DevicePath |-> devicePath]
    IN  [n \in DOMAIN m \cup {nodeName} |->
            IF n = nodeName
            THEN (IF n \in DOMAIN m THEN m[n] ELSE <<>>) \o <<v>>
            ELSE m[n]]

\* ToDiskPVMapYAML: the YAML text of the map.  yaml.Marshal writes a nil
\* and an empty Data alike ("data: {}"), and both read back as an empty map.
Yaml(m) == [devicePvMapConfig |-> m]

\* ToDiskPVMapObj applied to a non-empty blob that parses.
ParsedDiskPVMap(blob) == blob.devicePvMapConfig

\* DiskPVMapEqual: reflect.DeepEqual on the two maps, order included.
DiskPVMapEqual(m1, m2) == m1 = m2
=============================================================================
