CONSTANTS
    p1 = p1  p2 = p2  p3 = p3  s1 = s1  s2 = s2  cfgA = cfgA  cfgB = cfgB
    None = None
    Hidden = Hidden
    Processes = {p1}
    Kinds = {"request"}
    Streams = {s1}
    Configs = {cfgA}
    IPs = {1, 2}
    PublicIPs = {1, 2}
    MaxRetries = 1
    MaxSyncs = 2

SPECIFICATION Spec
CHECK_DEADLOCK FALSE

INVARIANTS
    LocationOfAddresses
