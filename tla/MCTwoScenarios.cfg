SPECIFICATION Spec
CONSTANTS
    t1 = t1  t2 = t2  s1 = s1  s2 = s2  g1 = g1  g2 = g2
    None = None
    Tasks = {t1}
    Scenarios = {s1, s2}
    Slots = {g1}
    Distributed = {}
    Deletable = {}
    Callbacks = {}
    Faults = {}
    LastExecutionId = 0
    MaxPolls = 1
    MaxRv = 4
    MaxUuid = 2
    MaxEdits = 1
    MaxCrashes = 0
    ScenariosOf <- TwoScenarios
    Requested <- NoWorkers
    Traffics <- NoTraffics
    ExecutionId <- NoExecutionId
SYMMETRY ScenarioSymmetry
CHECK_DEADLOCK FALSE
INVARIANTS
    StatusFollowsPhases
    MasterLogsUnderTaskId
PROPERTIES
    NoLostUpdate
    IdStable
    ImplementsTaskStatus
