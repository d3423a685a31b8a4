------------------ MODULE MCLocalVolumeDiscoveryController ------------------
(***************************************************************************)
(* A small cluster for LocalVolumeDiscoveryController: two nodes, two PVs  *)
(* of the local provisioner bound on the same node (so that the order of   *)
(* a List matters), one storage class, and a DaemonSet that can show no    *)
(* daemons, one not ready, or one ready.                                   *)
(***************************************************************************)
EXTENDS LocalVolumeDiscoveryController, TLC

CONSTANTS n1, n2, pv1, pv2, pv3, sc1, l1, l2

MCPVNode  == [p \in PVNames |-> n1]
MCPVClass == [p \in PVNames |-> sc1]
\* pv3, when present, is a PV of another provisioner (name without "local-pv").
MCPVPath  == [p \in PVNames |-> IF p = pv1 THEN l1 ELSE l2]

MCDaemonStates == {<<0, 0>>, <<1, 0>>, <<1, 1>>}

\* A ConfigMap left by an earlier run of the operator (pv1 bound), one
\* whose value is empty and one that does not parse.
MCOldMap == Yaml(n1 :> <<[PVName |-> pv1, StorageClassName |-> sc1, DevicePath |-> l1]>>)

MCCMInit == {Absent, EmptyBlob, CorruptBlob, MCOldMap}

MCCMReadable == {Absent, EmptyBlob, MCOldMap}

\* A ConfigMap whose value does not parse (written by hand, or by an
\* older operator with another layout).
MCCMCorrupt == {CorruptBlob}
====
