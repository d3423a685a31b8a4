CONSTANTS
    n1 = n1  n2 = n2  pv1 = pv1  pv2 = pv2  pv3 = pv3  sc1 = sc1  l1 = l1  l2 = l2
    Nodes = {n1, n2}
    PVNames = {pv1, pv2}
    StorageClasses = {sc1}
    Links = {l1, l2}
    NoValue = NoValue
    Absent = Absent
    EmptyBlob = EmptyBlob
    CorruptBlob = CorruptBlob
    NilData = NilData
    NoLVD = NoLVD
    LVDName = LVDName
    LocalPVNamed = {pv1, pv2}
    ByLocalProvisioner = {pv1, pv2}
    PVNode <- MCPVNode
    PVClass <- MCPVClass
    PVPath <- MCPVPath
    DaemonStates <- MCDaemonStates
    CMInit = {Absent}
    Faults = {"pvlist"}
SPECIFICATION Spec
PROPERTY WrittenMapMatchesCache
