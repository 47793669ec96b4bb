CONSTANTS
    c1 = c1  c2 = c2  c3 = c3  u1 = u1  u2 = u2  u3 = u3  k1 = k1  k2 = k2
    live = live  dark = dark
    None = None
    Streaming = {live}
    Items = {live, dark}
    Source = "WHATSUPCAMS"
    Rows = {c1}
    Scrapers = {u1}
    Tasks = {k1}
    MaxUpserts = 4
    MaxTasks = 1

SPECIFICATION Spec
CHECK_DEADLOCK FALSE

INVARIANTS
    PayloadOfScrape
