SPECIFICATION Spec
CONSTANTS
    Tasks = {t1}
    Executions = {e1, e2}
    Requests = {r1, r2}
    None = None
SYMMETRY Symmetry
CHECK_DEADLOCK FALSE
INVARIANTS
    TypeOK
    AppliedIsRecorded
    SavedIsApplied
    CancelledIsDestroyed
    FinishedIsApplied
PROPERTIES
    ExecutionIsKept
