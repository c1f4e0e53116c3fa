SPECIFICATION FairSpec
CONSTANTS
    None = None
    Scenarios = {s1}
    s1 = s1
    NWorkers = 2
    MaxMonitors = 3
INVARIANTS
    TypeOK
    ShownIsWatched
PROPERTIES
    LostToRacersOnly
    NilMapIsRaced
    GoneMasterIsShown
    GoneWorkersAreNotCounted
CHECK_DEADLOCK FALSE
