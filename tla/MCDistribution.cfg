SPECIFICATION Spec
CONSTANTS
    t1 = t1  t2 = t2  s1 = s1  s2 = s2  g1 = g1  g2 = g2
    None = None
    Tasks = {t1}
    Scenarios = {s1}
    Slots = {g1}
    Distributed = {t1}
    Deletable = {t1}
    Callbacks = {t1}
    Faults = {"create", "connect", "callback", "copy"}
    LastExecutionId = 0
    MaxPolls = 1
    MaxRv = 5
    MaxUuid = 2
    MaxEdits = 0
    MaxCrashes = 0
    ScenariosOf <- OneScenario
    Requested <- FourWorkers
    Traffics <- ThreeRegions
    ExecutionId <- NoExecutionId
SYMMETRY Symmetry
CHECK_DEADLOCK FALSE
INVARIANTS
    WorkersNeedReadyMaster
    FinishedMeansCompleted
    WorkersAsRequested
PROPERTIES
    ProvisionersAdvance
