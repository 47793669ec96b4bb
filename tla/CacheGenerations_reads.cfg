CONSTANTS
    r1 = r1  r2 = r2  w1 = w1  w2 = w2
    None = None
    Readers = {r1}
    Writers = {w1, w2}
    Views = {"dashboard", "streams"}
    WriteKinds = {"status", "job", "upsert", "outside"}
    Faults = {"evict", "restart"}
    MaxWrites = 2
    MaxFaults = 1

SPECIFICATION FairSpec

INVARIANTS
    TypeOK
    LiveEntriesFresh

PROPERTIES
    ImplementsFreshReads
    EventuallyCurrent
