CONSTANTS
    c1 = c1  c2 = c2  c3 = c3  u1 = u1  u2 = u2  u3 = u3  k1 = k1  k2 = k2
    live = live  dark = dark
    None = None
    Streaming = {live}
    Items = {live, dark}
    Source = "WHATSUPCAMS"
    Rows = {c1, c2}
    Scrapers = {u1, u2}
    Tasks = {}
    MaxUpserts = 4
    MaxTasks = 0

SPECIFICATION Spec
SYMMETRY Symmetric
CHECK_DEADLOCK FALSE

INVARIANTS
    DeduplicationKeepsOne
