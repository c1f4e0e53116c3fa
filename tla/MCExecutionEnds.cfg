SPECIFICATION FairSpec
CONSTANTS
    t1 = t1  t2 = t2  e1 = e1  e2 = e2  home1 = home1  region1 = region1
    None = None
    Tasks = {t1, t2}
    Executions = {e1, e2}
    Requests = {}
    Locations = {home1}
    Home = home1
    Local = {t1}
    NRoles = 0
    Destroyers = {"d1"}
    Regions <- NoRegion
CHECK_DEADLOCK FALSE
PROPERTIES
    ExecutionEnds
