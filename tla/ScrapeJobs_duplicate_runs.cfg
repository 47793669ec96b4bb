CONSTANTS
    j1 = j1  j2 = j2  w1 = w1  w2 = w2  r1 = r1  r2 = r2  c1 = c1  t1 = t1
    insecam = insecam  wuc = wuc  windy = windy
    None = None
    Source <- MCSource
    TickTarget <- MCTickTarget
    Jobs = {j1, j2}
    Ticks = {}
    Targets = {windy}
    Requests = {r1, r2}
    Cancellers = {}
    Workers = {w1, w2}
    MaxRetries = 1
    BatchSize = 1
    MaxItems = 0
    Faults = {}
    MaxFaults = 0

SPECIFICATION Spec
SYMMETRY Symmetric
CHECK_DEADLOCK FALSE

INVARIANTS
    NoDuplicateRuns
