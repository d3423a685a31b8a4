------------------------- MODULE MCDeviceDiscovery -------------------------
(***************************************************************************)
(* Small instances of DeviceDiscovery.  Devices d1 (and d2) have one       *)
(* symlink each; the ConfigMap can be absent, corrupt, bind d1's symlink   *)
(* on this node n1 or on the other node n2, or bind it behind another      *)
(* value on n1.                                                            *)
(***************************************************************************)
EXTENDS DeviceDiscovery, TLC

CONSTANTS d1, d2, n1, n2, pv1, pv2, sc1, l1, l2

Row(ro, ch, st, ty, fs, lbl) ==
    [ReadOnly |-> ro, Children |-> ch, State |-> st, Type |-> ty,
     FSType |-> fs, PartLabel |-> lbl]

\* d1: blank, formatted, repartitioned as an EFI system partition, made
\* read-only, or unplugged.  d2: a blank partition that can be suspended.
AllVariants ==
    (d1 :> {Row("0", "none", "running", "disk", "", ""),
            Row("0", "none", "running", "disk", "ext4", ""),
            Row("0", "none", "running", "part", "", EfiSystem),
            Row("1", "none", "running", "disk", "", ""), Gone})
    @@ (d2 :> {Row("0", "none", "running", "part", "", ""),
               Row("0", "none", "suspended", "part", "", "")})

AllProbeVariants == (d1 :> {"ok", "busy", "err"}) @@ (d2 :> {"ok"})

AllSymlinks == (d1 :> <<l1>>) @@ (d2 :> <<l2>>)

\* The same, restricted to the devices of the run.
MCVariants == [d \in Devices |-> AllVariants[d]]
MCProbeVariants == [d \in Devices |-> AllProbeVariants[d]]
MCSymlinks == [d \in Devices |-> AllSymlinks[d]]

Val(pv, l) == [PVName |-> pv, StorageClassName |-> sc1, DevicePath |-> l]

MCCMValues ==
    {Absent, CorruptBlob,
     Yaml(n1 :> <<Val(pv1, l1)>>),
     Yaml(n2 :> <<Val(pv1, l1)>>),
     Yaml(n1 :> <<Val(pv2, l2), Val(pv1, l1)>>)}

\* d1 is also linked from a second storage-class directory, whose symlink
\* GetMatchingSymlinksInDirs returns first and no PV binds.
MCSymlinksTwo == [d \in Devices |-> IF d = d1 THEN <<l2, l1>> ELSE AllSymlinks[d]]

\* For the liveness runs: a corrupt ConfigMap makes every scan abort.
MCCMReadable == MCCMValues \ {CorruptBlob}
=============================================================================
