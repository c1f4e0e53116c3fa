SPECIFICATION Spec
CONSTANTS
    r1 = r1
    r2 = r2
    None = None
    Requests = {r1, r2}
    Started = {r1}
    Followed = {"taurus"}
    Scripts <- TwoScripts
    Order <- WalkOrder
INVARIANTS
    TypeOK
    ServedAloneIsOwn
CHECK_DEADLOCK FALSE
