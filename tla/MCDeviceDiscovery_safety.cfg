CONSTANTS
    d1 = d1  d2 = d2  n1 = n1  n2 = n2
    pv1 = pv1  pv2 = pv2  sc1 = sc1  l1 = l1  l2 = l2
    Devices = {d1}
    Nodes = {n1, n2}
    Self = n1
    PVNames = {pv1, pv2}
    StorageClasses = {sc1}
    Links = {l1, l2}
    HasID = {d1}
    Symlinks <- MCSymlinks
    Variants <- MCVariants
    ProbeVariants <- MCProbeVariants
    CMValues <- MCCMValues
    Faults = {"lsblk", "update", "ensure"}
    NoValue = NoValue  Absent = Absent  EmptyBlob = EmptyBlob
    CorruptBlob = CorruptBlob  Gone = Gone  NoID = NoID
    NilMap = NilMap  NoList = NoList  NoResult = NoResult
SPECIFICATION Spec
INVARIANT TypeOK
PROPERTY PublishedStatusSound
