CONSTANTS
    c1 = c1  c2 = c2  c3 = c3  u1 = u1  u2 = u2  u3 = u3  k1 = k1  k2 = k2
    live = live  dark = dark
    None = None
    Streaming = {live}
    Items = {live, dark}
    Source = "WHATSUPCAMS"
    Rows = {c1, c2}
    Scrapers = {u1, u2}
    Tasks = {k1}
    MaxUpserts = 4
    MaxTasks = 1
SPECIFICATION FairSpec
CHECK_DEADLOCK FALSE
INVARIANTS
    TypeOK
    OnlyDisplacedPagesVanish
    DuplicatesDeactivated
PROPERTIES
    WritersKeepApart
    UpsertsEnd
