CONSTANTS
    p1 = p1  p2 = p2  p3 = p3  s1 = s1  s2 = s2  cfgA = cfgA  cfgB = cfgB
    None = None
    Hidden = Hidden
    Processes = {p1, p2}
    Kinds = {"task", "geo"}
    Streams = {s1, s2}
    Configs = {}
    IPs = {1}
    PublicIPs = {1}
    MaxRetries = 0
    MaxSyncs = 2

SPECIFICATION FairSpec
CHECK_DEADLOCK FALSE

PROPERTIES
    SyncsEnd
