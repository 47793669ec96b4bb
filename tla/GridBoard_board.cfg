SPECIFICATION Spec
CONSTANTS
    s1 = s1
    s2 = s2
    r1 = r1
    r2 = r2
    Wall = Wall
    Grid = Grid
    Names = {1, 2}
    Hosts = {7, 8}
    Localhost = 7
    Streams = {s1, s2}
    Profiles = {Wall, Grid}
    Surveillance = Grid
    Selections <- MCSelections
    Files <- MCFiles
    Requests = {r1, r2}
    MaxRequests = 3
    MaxEdits = 2
    Fleets <- MCFleets
    Orders <- MCOrders
    Sorts = {"newest", "name", "name_desc", "streams_desc", "streams_asc", "status"}
    Sizes = {1, 2}
    Asked = {0, 2}
    Chosen = {0, 3}
    Trees <- MCAllTrees
    Depth <- MCDepth
    Histories <- MCHistories
    Picks = {0, 2, 3}
    MaxRows = 2
INVARIANTS
    BoardTypeOK
    TiesOnlyFromOverlap
    WrittenItemsShown
    ImportsTold
    SidebarRight
    DiffTellsChanges
CHECK_DEADLOCK FALSE
