SPECIFICATION FairSpec
CONSTANTS
    t1 = t1  t2 = t2  s1 = s1  s2 = s2  g1 = g1  g2 = g2
    None = None
    Tasks = {t1}
    Scenarios = {s1}
    Slots = {g1}
    Distributed = {}
    Deletable = {}
    Callbacks = {}
    Faults = {}
    LastExecutionId = 1
    MaxPolls = 1
    MaxRv = 4
    MaxUuid = 2
    MaxEdits = 1
    MaxCrashes = 1
    ScenariosOf <- OneScenario
    Requested <- OneWorkerEach
    Traffics <- NoTraffics
    ExecutionId <- OwnExecutionId
CHECK_DEADLOCK FALSE
INVARIANTS
    VersionInv
    MasterLogsUnderTaskId
PROPERTIES
    EventuallyIdentified
    ProvisionerReturns
