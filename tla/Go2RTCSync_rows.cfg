CONSTANTS
    p1 = p1  p2 = p2  p3 = p3  s1 = s1  s2 = s2  cfgA = cfgA  cfgB = cfgB
    None = None
    Hidden = Hidden
    Processes = {p1, p2}
    Kinds = {"batch"}
    Streams = {s1, s2}
    Configs = {cfgA}
    IPs = {}
    PublicIPs = {}
    MaxRetries = 1
    MaxSyncs = 2

SPECIFICATION Spec
SYMMETRY Symmetric
CHECK_DEADLOCK FALSE

INVARIANTS
    TypeOK
    RowsMirrorLastFetch

PROPERTIES
    SnapshotsTellChanges
    BatchCountsOnce
