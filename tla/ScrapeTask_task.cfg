SPECIFICATION FairSpec
CONSTANTS
    c1 = c1
    c2 = c2
    c3 = c3
    c4 = c4
    c5 = c5
    c6 = c6
    i1 = i1
    i2 = i2
    v1 = v1
    w1 = w1
    w2 = w2
    q1 = q1
    q2 = q2
    None = None
    Malformed = Malformed
    Configured <- MCConfigured
    Overridden <- MCOverridden
    BaseHours = {4, 23}
    Steps = {0, 5, 6}
    Cams = {c1, c2, c3, c4, c5, c6}
    Sites <- MCSites
    Live = {c1, c2, c4, c5}
    LiveInDetail = {c3}
    Sources = {"INSECAM", "WINDY", "WHATSUPCAMS"}
    PerPage = 2
    BatchSize = 3
    MaxPages = 2
    StartPages = {0, 2, 4}
    OffsetLimit = 4
    ApiLimits = {2, 4}
    Attempts = 3
    MaxShifts = 1
    Processes = {w1, w2}
    Pages = {v1}
    Ids = {i1, i2}
    MaxStarts = 3
    Workers = {w1, w2}
    Cameras = {c1, c2}
    Queries = {q1, q2}
    Candidates <- MCCandidates
    MaxTasks = 2
    MaxKills = 1
INVARIANTS
    TypeOK
    CountriesApart
    QuietRunStoresAll
    InsecamListsOnce
    RunsTellWhatTheyStored
    RunningTasksShown
    OneFetchPerProcess
    FirstLoopLocksLoseNone
PROPERTIES
    PlaceOverwrittenOnlyAcross
    PlaceLostOnlyByGeocoder
    TasksEnd
CHECK_DEADLOCK FALSE
