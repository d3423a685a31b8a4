-------------------------- MODULE DeviceClassifier --------------------------
(***************************************************************************)
(* The per-device rules of pkg/diskmaker/discovery/discovery.go:           *)
(* ignoreDevices (which lsblk rows are skipped), getDeviceStatus (the      *)
(* Available / NotAvailable / Unknown state) and parseDeviceType.          *)
(*                                                                         *)
(* A BlockDevice keeps only the lsblk columns these rules read.  The       *)
(* helpers of pkg/internal (GetReadOnly, HasChildren) are not under src/:  *)
(* their outcomes, as the tests of diskutil_test.go pin them, are the      *)
(* field values: ReadOnly "0"/"1" parse, anything else is a parse error;   *)
(* Children is the result of globbing /sys/block/<name>/<name>*: none,     *)
(* some, or a glob error.  Probe is the outcome of the canOpenExclusively  *)
(* filter: "ok" (opened), "busy" (EBUSY) or "err" (any other error).       *)
(***************************************************************************)

BiosBoot  == "BIOS-BOOT"
EfiSystem == "EFI-SYSTEM"

BlockDevices ==
    [ReadOnly: {"0", "1", "x"},
     Children: {"none", "some", "err"},
     State: {"running", "suspended"},
     Type: {"disk", "part", "loop"},
     FSType: {"", "ext4"},
     PartLabel: {"", BiosBoot, EfiSystem}]

ProbeResults == {"ok", "busy", "err"}

DeviceStates == {"Available", "NotAvailable", "Unknown"}

\* Mutant: ignoreDevices without its read-only test.
IgnoreDevicesNoRO(dev) ==
    \/ dev.Children # "none"
    \/ dev.State = "suspended"
    \/ dev.Type \notin {"disk", "part"}

\* ignoreDevices: read-only or unparsable RO, a parent with partitions or a
\* failed glob, a suspended device, or a type other than disk and part.
IgnoreDevices(dev) ==
    \/ dev.ReadOnly # "0"
    \/ dev.Children # "none"
    \/ dev.State = "suspended"
    \/ dev.Type \notin {"disk", "part"}

\* getDeviceStatus: the early returns in the order the code takes them.
GetDeviceStatus(dev, probe) ==
    IF dev.FSType # "" THEN "NotAvailable"
    ELSE IF dev.PartLabel \in {BiosBoot, EfiSystem} THEN "NotAvailable"
    ELSE IF probe = "err" THEN "Unknown"
    ELSE IF probe = "busy" THEN "NotAvailable"
    ELSE "Available"

\* parseDeviceType: v1alpha1.RawDisk ("disk"), v1alpha1.Partition ("part")
\* or "" (the values TestGetDiscoveredDevices expects).
ParseDeviceType(t) ==
    IF t = "disk" THEN "disk" ELSE IF t = "part" THEN "part" ELSE ""
=============================================================================
